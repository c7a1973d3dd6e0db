------------------------- MODULE ExecPipelineProofs -------------------------
(***************************************************************************)
(* Proofs about ExecPipeline, for any processes, situations, bounds and    *)
(* ways a file can be torn: types, that an intent is on record before its  *)
(* action, that denials are final, that completions and losses refer to    *)
(* real intents, that what runs was authorised, and that the chain is the  *)
(* ledger's.                                                               *)
(***************************************************************************)
EXTENDS ExecPipeline, TLAPS

-----------------------------------------------------------------------------
(* The events that exist, and what ties them to the calls *)

Event == [hash : Nat \ {0}, prev : Nat, seq : Nat, op : {Null}, body : Body]
Answers == {Null, "approved", "rejected"}

Returned == Logged \cup cut
Readable == Logged \cup wiped \cup (IF torn.kind = "whole" THEN {torn.event} ELSE {})
Written == Logged \cup wiped \cup TornEvents

Shapes ==
  /\ chain \in Seq(Event)
  /\ torn \in [kind : {"none", "partial", "whole"}, event : Event \cup {NoEvent}]
  /\ torn.kind # "none" => torn.event \in Event
  /\ wiped \subseteq Event
  /\ cut \subseteq wiped \cup TornEvents
  /\ effects \subseteq [call : 1..MaxCalls, plan : AllPlans, approval : Answers]

\* An intent in S that body is the sequel of.
Backed(body, S) ==
  \E e \in S : /\ Pending(e) /\ e.hash = body.ref
               /\ e.body.call = body.call /\ e.body.approval = body.approval

\* What has to hold for an action to run.
Authorised(pl, approval) ==
  /\ pl.packs \/ NoPolicyProceed(pl)
  /\ ~ApplyConstraint(pl)
  /\ NeedsApproval(pl) => approval = "approved"

Deciding == {"deny", "approval", "phaseA"}
Acting   == {"mediate", "running", "phaseB"}

\* The stages of a call, each with what it knows by then.
StageFits(p) ==
  LET j == job[p] IN
  /\ pc[p] \in {"idle", "observe"} <=> j.call = 0
  /\ j.call \in 0..calls
  /\ pc[p] = "observe" =>
       /\ j.body.call = 0 /\ j.body.ref = NoRef /\ j.body.result # Null
       /\ j.body.outcome \notin {"pending", "execution_lost"}
  /\ pc[p] = "lost" =>
       j.body.outcome = "execution_lost" /\ j.body.call # 0 /\ Backed(j.body, Readable)
  /\ pc[p] \in Deciding \cup Acting => j.body.call = j.call
  /\ pc[p] \in Deciding => j.body.ref = NoRef /\ j.body.result = Null
  /\ pc[p] = "deny" => j.body.outcome \notin {"pending", "execution_lost"}
  /\ pc[p] \in {"approval", "phaseA", "mediate", "running"} =>
       j.body.outcome = "pending" /\ j.body.result = Null
  /\ pc[p] = "approval" =>
       j.plan.packs /\ ~ApplyConstraint(j.plan) /\ j.body.approval = Null
  /\ pc[p] = "phaseA" \/ pc[p] \in Acting => Authorised(j.plan, j.body.approval)
  /\ pc[p] \in Acting => Backed(j.body, Returned)
  /\ pc[p] = "phaseB" =>
       /\ j.body.result # Null
       /\ j.body.outcome = ComputeOutcome(j.plan, j.body.approval # Null)

StagesFit == \A p \in Proc : StageFits(p)

\* No two processes work on the same call.
CallsApart ==
  \A p, q \in Proc : job[p].call = job[q].call /\ job[p].call # 0 => p = q

\* The writer's line is its draft on top of the chain; only it writes.
DraftFits ==
  writer # NoProc =>
    /\ writer \in Proc /\ pc[writer] \in Appending
    /\ torn.kind # "none" /\ torn.event \notin cut
    /\ torn.event = Ledger!NextEvent(chain, torn.event.hash, Null, job[writer].body)

\* Hashes count up: along the chain, and from an event to what refers to it.
HashesFit ==
  /\ \A e \in Written : e.hash \in 1..ids /\ e.body.ref < e.hash
  /\ \A i, j \in DOMAIN chain : i < j => chain[i].hash < chain[j].hash
  /\ torn.kind # "none" =>
       torn.event.hash = ids /\ \A i \in DOMAIN chain : chain[i].hash < ids
  /\ \A e \in wiped : e.hash < ids
  /\ \A e, f \in Written : e.hash = f.hash => e = f

\* The four kinds of events, by their fields.
KindsFit ==
  \A e \in Written :
    /\ e.body.call \in 0..calls
    /\ Pending(e) => e.body.ref = NoRef /\ e.body.result = Null /\ e.body.call # 0
    /\ Denied(e) => e.body.ref = NoRef /\ e.body.call # 0
    /\ Lost(e) => e.body.call # 0 /\ Backed(e.body, Logged \cup wiped)
    /\ Complete(e) => e.body.call # 0 /\ e.body.result # Null /\ Backed(e.body, Returned)
    /\ ~Pending(e) /\ ~Denied(e) /\ ~Lost(e) /\ ~Complete(e) => e.body.call = 0

\* Of a call under way there is, but for the line it is writing, no event
\* except its intent, and that only when the call is past phase A.
LiveCallsFit ==
  \A e \in Written, p \in Proc :
    e.body.call = job[p].call /\ job[p].call # 0 /\ ~Lost(e) =>
      \/ e \in TornEvents /\ writer = p
      \/ Pending(e) /\ pc[p] \in Acting

\* A call has one intent and one end, and after a denial nothing else.
OncePerCall ==
  \A e, f \in Written :
    /\ e.body.call = f.body.call /\ e.body.call # 0 /\ ~Lost(e) /\ ~Lost(f)
    /\ (Pending(e) <=> Pending(f)) \/ Denied(e)
    => e = f

\* An intent that was never completed as a line belongs to a call that ended,
\* unless its write came back short.
TruncatedEnded ==
  /\ \A e \in wiped \ cut : Pending(e) => e.body.call \in ended
  /\ writer = NoProc => \A e \in TornEvents \ cut : Pending(e) => e.body.call \in ended

\* Actions: authorised, preceded by an intent, once per call, and known to it.
EffectsFit ==
  /\ \A f \in effects :
       /\ f.call \in 1..calls
       /\ Authorised(f.plan, f.approval)
       /\ \E e \in Returned : /\ Pending(e) /\ e.body.call = f.call
                              /\ e.body.approval = f.approval
       /\ \A g \in effects : f.call = g.call => f = g
       /\ \A p \in Proc : f.call = job[p].call =>
            pc[p] \in {"running", "phaseB"} /\ f.plan = job[p].plan
  /\ \A p \in Proc : pc[p] \in {"running", "phaseB"} =>
       \E f \in effects : f.call = job[p].call

\* A completion tells how its action came to run.
CompletionsFit ==
  \A e \in Written : Complete(e) =>
    \E f \in effects :
      /\ f.call = e.body.call
      /\ e.body.outcome = ComputeOutcome(f.plan, f.approval # Null)

IInv ==
  /\ TypeOK
  /\ Shapes
  /\ StagesFit
  /\ CallsApart
  /\ DraftFits
  /\ HashesFit
  /\ KindsFit
  /\ LiveCallsFit
  /\ OncePerCall
  /\ TruncatedEnded
  /\ EffectsFit
  /\ CompletionsFit

-----------------------------------------------------------------------------
(* Steps that leave the file alone *)

\* What is only about the file stays true as calls are begun and end.
LEMMA FileKept ==
  ASSUME IInv, UNCHANGED <<chain, torn, ids, wiped, cut>>, calls' \in Nat, calls <= calls',
         ended \subseteq ended'
  PROVE  /\ Logged' = Logged /\ Written' = Written /\ TornEvents' = TornEvents
         /\ Readable' = Readable /\ Returned' = Returned
         /\ HashesFit' /\ KindsFit' /\ OncePerCall'
<1>1. /\ Logged' = Logged /\ TornEvents' = TornEvents /\ Readable' = Readable
      /\ Written' = Written /\ Returned' = Returned
  BY DEF Logged, TornEvents, Readable, Written, Returned
<1>2. HashesFit'
  BY <1>1 DEF IInv, HashesFit
<1>3. KindsFit'
  <2>1. ASSUME NEW e \in Written, e.body.call \in 0..calls
        PROVE  e.body.call \in 0..calls'
    BY <2>1 DEF IInv, TypeOK
  <2>2. QED
    BY <1>1, <2>1 DEF IInv, KindsFit, Pending, Denied, Lost, Complete, Backed
<1>4. OncePerCall'
  BY <1>1 DEF IInv, OncePerCall, Pending, Denied, Lost
<1>5. QED
  BY <1>1, <1>2, <1>3, <1>4

\* The lock is held only while an event is appended.
LEMMA WritersAppend ==
  ASSUME IInv, NEW p \in Proc, pc[p] \notin Appending
  PROVE  writer # p
BY ProcAssumption DEF IInv, DraftFits

\* What follows the last newline, while a process holds the lock, is that process's line.
LEMMA WritersLine ==
  ASSUME IInv, NEW p \in Proc, writer = p
  PROVE  /\ pc[p] \in Appending /\ torn.kind # "none"
         /\ torn.event.body = job[p].body
BY ProcAssumption DEF IInv, DraftFits, Ledger!NextEvent

\* Of the events a call appends only that of phase A is an intent.
LEMMA IntentsDrafted ==
  ASSUME IInv, NEW p \in Proc, pc[p] \in Appending, job[p].body.outcome = "pending"
  PROVE  pc[p] = "phaseA" /\ job[p].body.call = job[p].call /\ job[p].call # 0
<1>1. pc[p] # "phaseB"
  BY DEF IInv, StagesFit, StageFits, ComputeOutcome
<1>2. QED
  BY <1>1 DEF IInv, StagesFit, StageFits, Appending, Deciding

\* One process moves on without touching the file, or dies: what remains to be
\* shown is what its own new stage claims.
LEMMA JobStep ==
  ASSUME IInv, NEW p \in Proc, UNCHANGED <<chain, torn, ids, wiped, cut, effects>>,
         \/ writer # p /\ writer' = writer
         \/ /\ writer = p /\ writer' = NoProc /\ job'[p].call = 0
            /\ job[p].call # 0 => job[p].call \in ended',
         calls' \in Nat, calls <= calls', ended \subseteq ended',
         \A q \in Proc \ {p} : pc'[q] = pc[q] /\ job'[q] = job[q],
         TypeOK', StageFits(p)',
         \/ job'[p].call = 0
         \/ job'[p].call = calls + 1 /\ pc'[p] \notin Acting
         \/ /\ job'[p].call = job[p].call
            /\ pc[p] \notin Acting /\ pc'[p] \notin Acting
         \/ /\ job'[p].call = job[p].call /\ job'[p].plan = job[p].plan
            /\ pc[p] = "running" /\ pc'[p] = "phaseB"
  PROVE  IInv'
<1>1. /\ Logged' = Logged /\ Written' = Written /\ TornEvents' = TornEvents
      /\ Readable' = Readable /\ Returned' = Returned
      /\ HashesFit' /\ KindsFit' /\ OncePerCall'
  BY FileKept
<1>2. Shapes'
  BY <1>1 DEF IInv, Shapes
<1>3. StagesFit'
  <2>1. SUFFICES ASSUME NEW q \in Proc, q # p
                 PROVE  StageFits(q)'
    BY DEF StagesFit
  <2>2. StageFits(q) /\ calls \in Nat
    BY DEF IInv, StagesFit, TypeOK
  <2>3. job'[q].call \in 0..calls'
    BY <2>1, <2>2 DEF StageFits
  <2>4. QED
    BY <1>1, <2>1, <2>2, <2>3 DEF StageFits, Backed, Pending
<1>4. CallsApart'
  <2>1. SUFFICES ASSUME NEW q \in Proc, q # p, job'[p].call # 0
                 PROVE  job'[q].call # job'[p].call
    BY DEF IInv, CallsApart
  <2>2. job[q].call \in 0..calls
    BY DEF IInv, StagesFit, StageFits
  <2>3. QED
    BY <2>1, <2>2 DEF IInv, CallsApart, TypeOK
<1>5. DraftFits'
  BY ProcAssumption DEF IInv, DraftFits
<1>6. LiveCallsFit'
  <2>1. SUFFICES ASSUME NEW e \in Written, NEW q \in Proc,
                        e.body.call = job'[q].call, job'[q].call # 0, ~Lost(e)
                 PROVE  \/ e \in TornEvents /\ writer = q
                        \/ Pending(e) /\ pc'[q] \in Acting
    BY <1>1 DEF LiveCallsFit, Lost, Pending
  <2>2. CASE q # p
    BY <2>1, <2>2 DEF IInv, LiveCallsFit
  <2>3. CASE q = p
    <3>1. e.body.call \in 0..calls /\ calls \in Nat
      BY DEF IInv, KindsFit, TypeOK
    <3>2. job'[p].call = job[p].call
      BY <2>1, <2>3, <3>1
    <3>3. Pending(e) /\ pc[p] \in Acting
      BY <2>1, <2>3, <3>2 DEF IInv, LiveCallsFit
    <3>4. QED
      BY <2>1, <2>3, <3>1, <3>3 DEF Acting
  <2>4. QED
    BY <2>2, <2>3
<1>7. TruncatedEnded'
  <2>1. CASE writer' = writer
    BY <1>1, <2>1 DEF IInv, TruncatedEnded, Pending
  <2>2. CASE writer = p /\ (job[p].call # 0 => job[p].call \in ended')
    <3>1. ASSUME NEW e \in TornEvents, Pending(e)
          PROVE  e.body.call \in ended'
      <4>1. pc[p] \in Appending /\ e.body = job[p].body
        BY <2>2, WritersLine DEF TornEvents
      <4>2. job[p].body.outcome = "pending"
        BY <3>1, <4>1 DEF Pending
      <4>3. job[p].body.call = job[p].call /\ job[p].call # 0
        BY <4>1, <4>2, IntentsDrafted DEF Deciding
      <4>4. QED
        BY <2>2, <4>1, <4>3
    <3>2. QED
      BY <1>1, <3>1 DEF IInv, TruncatedEnded, Pending
  <2>3. QED
    BY <2>1, <2>2
<1>8. EffectsFit'
  <2>1. ASSUME NEW f \in effects
        PROVE  /\ f.call \in 1..calls'
               /\ \A q \in Proc : f.call = job'[q].call =>
                    pc'[q] \in {"running", "phaseB"} /\ f.plan = job'[q].plan
    <3>1. f.call \in 1..calls /\ calls \in Nat
      BY DEF IInv, EffectsFit, TypeOK
    <3>2. ASSUME NEW q \in Proc, f.call = job'[q].call
          PROVE  pc'[q] \in {"running", "phaseB"} /\ f.plan = job'[q].plan
      <4>1. CASE q # p
        BY <3>2, <4>1 DEF IInv, EffectsFit
      <4>2. CASE q = p
        <5>1. job'[p].call = job[p].call
          BY <3>1, <3>2, <4>2
        <5>2. pc[p] \in {"running", "phaseB"}
          BY <3>2, <4>2, <5>1 DEF IInv, EffectsFit
        <5>3. QED
          BY <3>1, <3>2, <4>2, <5>1, <5>2 DEF IInv, EffectsFit, Acting
      <4>3. QED
        BY <4>1, <4>2
    <3>3. QED
      BY <3>1, <3>2
  <2>2. ASSUME NEW q \in Proc, pc'[q] \in {"running", "phaseB"}
        PROVE  \E f \in effects : f.call = job'[q].call
    <3>1. CASE q # p
      BY <2>2, <3>1 DEF IInv, EffectsFit
    <3>2. CASE q = p
      BY <2>2, <3>2 DEF IInv, EffectsFit, StageFits, Acting
    <3>3. QED
      BY <3>1, <3>2
  <2>3. QED
    BY <1>1, <2>1, <2>2 DEF IInv, EffectsFit, Authorised, Pending
<1>9. CompletionsFit'
  BY <1>1 DEF IInv, CompletionsFit, Complete, Lost
<1>10. QED
  BY <1>1, <1>2, <1>3, <1>4, <1>5, <1>6, <1>7, <1>8, <1>9 DEF IInv

\* A new call takes the next number.
LEMMA StartExecKeeps ==
  ASSUME IInv, NEW p \in Proc, NEW action \in Actions, StartExec(p, action)
  PROVE  IInv'
<1>1. /\ pc[p] = "idle" /\ pc' = [pc EXCEPT ![p] = "recover"]
      /\ job' = [job EXCEPT ![p] = [NoJob EXCEPT !.call = calls + 1, !.action = action,
                                                !.since = ids]]
      /\ calls < MaxCalls /\ calls' = calls + 1
      /\ UNCHANGED <<chain, torn, ids, wiped, cut, writer, effects, records, crashes, ended>>
      /\ overlapped' \in BOOLEAN
  BY DEF StartExec, Begin, Goto, fileVars
<1>2. writer # p
  BY <1>1, WritersAppend DEF Appending
<1>3. /\ calls \in Nat /\ calls' \in 0..MaxCalls /\ pc \in [Proc -> PCs]
      /\ ids \in Nat
  BY <1>1, BoundAssumption DEF IInv, TypeOK
<1>4. TypeOK'
  <2>1. NoPlan \in AllPlans /\ NoBody \in Body
    BY DEF NoPlan, AllPlans, NoBody, Body, Outcomes, Denials, NoRef, Null
  <2>2. job' \in [Proc -> [call : 0..MaxCalls, action : Actions \cup {Null}, since : Nat,
                           plan : AllPlans, body : Body]]
    BY <1>1, <1>3, <2>1 DEF IInv, TypeOK, NoJob
  <2>3. QED
    BY <1>1, <1>3, <2>2 DEF IInv, TypeOK, PCs
<1>5. StageFits(p)'
  BY <1>1, <1>3 DEF IInv, TypeOK, StageFits, NoJob, Deciding, Acting
<1>6. QED
  BY <1>1, <1>2, <1>3, <1>4, <1>5, JobStep DEF IInv, TypeOK, NoJob, Acting

\* What a recovery reads are events that somebody wrote.
LEMMA TailsKnown ==
  ASSUME IInv, NEW p \in Proc
  PROVE  TailsRead(p) \subseteq Readable
<1>1. Overtaken(p) \subseteq Readable
  BY DEF Overtaken, Readable
<1>2. ASSUME torn.kind # "partial", Lines # <<>>
      PROVE  Last(Lines) \in Readable
  <2>1. CASE torn.kind = "whole"
    <3>1. torn.event \in Event /\ Lines = Append(chain, torn.event) /\ chain \in Seq(Event)
      BY <2>1 DEF Lines, IInv, Shapes
    <3>2. Last(Lines) = torn.event
      BY <3>1 DEF Last
    <3>3. QED
      BY <2>1, <3>2 DEF Readable
  <2>2. CASE torn.kind # "whole"
    <3>1. Lines = chain /\ chain \in Seq(Event)
      BY <2>2 DEF Lines, IInv, Shapes
    <3>2. Len(chain) \in DOMAIN chain /\ Last(Lines) = chain[Len(chain)]
      BY <1>2, <3>1 DEF Last
    <3>3. QED
      BY <3>2 DEF Readable, Logged
  <2>3. QED
    BY <2>1, <2>2
<1>3. QED
  BY <1>1, <1>2 DEF TailsRead

\* The call goes on from recovery with another draft.
LEMMA RecoveredTypes ==
  ASSUME IInv, NEW p \in Proc, NEW label \in PCs, NEW body \in Body, Recovered(p, label, body)
  PROVE  /\ pc[p] = "recover" /\ pc'[p] = label /\ job[p].call # 0
         /\ job'[p].call = job[p].call /\ job'[p].body = body
         /\ \A q \in Proc \ {p} : pc'[q] = pc[q] /\ job'[q] = job[q]
         /\ writer # p /\ calls \in Nat
         /\ UNCHANGED <<chain, torn, ids, wiped, cut, writer, effects, calls, records, crashes,
                        ended, overlapped>>
         /\ TypeOK'
<1>1. /\ pc[p] = "recover" /\ pc' = [pc EXCEPT ![p] = label]
      /\ job' = [job EXCEPT ![p].since = 0, ![p].body = body]
      /\ UNCHANGED <<chain, torn, ids, wiped, cut, writer, effects, calls, records, crashes, ended,
                     overlapped>>
  BY DEF Recovered, Goto, fileVars
<1>2. writer # p
  BY <1>1, WritersAppend DEF Appending
<1>3. /\ pc \in [Proc -> PCs] /\ job[p].call # 0 /\ calls \in Nat
      /\ job \in [Proc -> [call : 0..MaxCalls, action : Actions \cup {Null}, since : Nat,
                           plan : AllPlans, body : Body]]
  BY <1>1 DEF IInv, TypeOK, StagesFit, StageFits
<1>4. /\ pc' \in [Proc -> PCs]
      /\ job' \in [Proc -> [call : 0..MaxCalls, action : Actions \cup {Null}, since : Nat,
                            plan : AllPlans, body : Body]]
  BY <1>1, <1>3
<1>5. TypeOK'
  BY <1>1, <1>4 DEF IInv, TypeOK
<1>6. QED
  BY <1>1, <1>2, <1>3, <1>5

\* What recovery found is a readable intent.
LEMMA RecoveryFindsKeeps ==
  ASSUME IInv, NEW p \in Proc, RecoveryFinds(p)
  PROVE  IInv'
<1>1. PICK e \in TailsRead(p) : Pending(e) /\ Recovered(p, "lost", LostBody(e))
  BY DEF RecoveryFinds
<1>2. e \in Readable /\ e \in Written /\ e \in Event
  BY <1>1, TailsKnown DEF Readable, Written, Logged, TornEvents, IInv, Shapes
<1>3. LostBody(e) \in Body /\ LostBody(e).ref = e.hash /\ LostBody(e).outcome = "execution_lost"
      /\ LostBody(e).call = e.body.call /\ LostBody(e).approval = e.body.approval
  BY <1>2 DEF Event, Body, LostBody, Outcomes
<1>4. e.body.call # 0
  BY <1>1, <1>2 DEF IInv, KindsFit
<1>5. "lost" \in PCs
  BY DEF PCs, Appending
<1>6. /\ pc[p] = "recover" /\ pc'[p] = "lost" /\ job[p].call # 0
      /\ job'[p].call = job[p].call /\ job'[p].body = LostBody(e)
      /\ \A q \in Proc \ {p} : pc'[q] = pc[q] /\ job'[q] = job[q]
      /\ writer # p /\ calls \in Nat
      /\ UNCHANGED <<chain, torn, ids, wiped, cut, writer, effects, calls, records, crashes,
                     ended, overlapped>>
      /\ TypeOK'
  BY <1>1, <1>3, <1>5, RecoveredTypes
<1>7. Backed(LostBody(e), Readable)
  BY <1>1, <1>2, <1>3 DEF Backed
<1>8. Readable' = Readable
  BY <1>6 DEF Readable, Logged
<1>9. StageFits(p)'
  BY <1>3, <1>4, <1>6, <1>7, <1>8 DEF IInv, StagesFit, StageFits, Deciding, Acting
<1>10. pc[p] \notin Acting /\ pc'[p] \notin Acting
  BY <1>6 DEF Acting
<1>11. QED
  BY <1>6, <1>9, <1>10, JobStep

\* Recovery finds a finished tail.
LEMMA RecoveryNotNeededKeeps ==
  ASSUME IInv, NEW p \in Proc, RecoveryNotNeeded(p)
  PROVE  IInv'
<1>1. NoBody \in Body /\ "decide" \in PCs
  BY DEF NoBody, Body, Outcomes, Denials, NoRef, Null, PCs
<1>2. /\ pc[p] = "recover" /\ pc'[p] = "decide" /\ job[p].call # 0
      /\ job'[p].call = job[p].call
      /\ \A q \in Proc \ {p} : pc'[q] = pc[q] /\ job'[q] = job[q]
      /\ writer # p /\ calls \in Nat
      /\ UNCHANGED <<chain, torn, ids, wiped, cut, writer, effects, calls, records, crashes,
                     ended, overlapped>>
      /\ TypeOK'
  BY <1>1, RecoveredTypes DEF RecoveryNotNeeded
<1>3. StageFits(p)'
  BY <1>2 DEF IInv, StagesFit, StageFits, Deciding, Acting
<1>4. pc[p] \notin Acting /\ pc'[p] \notin Acting
  BY <1>2 DEF Acting
<1>5. QED
  BY <1>2, <1>3, <1>4, JobStep

\* A call that is over leaves its process idle.
LEMMA AbortTypes ==
  ASSUME IInv, NEW p \in Proc, Abort(p)
  PROVE  /\ pc' \in [Proc -> PCs] /\ ended' \subseteq 1..MaxCalls
         /\ job' \in [Proc -> [call : 0..MaxCalls, action : Actions \cup {Null}, since : Nat,
                               plan : AllPlans, body : Body]]
<1>1. /\ pc' = [pc EXCEPT ![p] = "idle"] /\ job' = [job EXCEPT ![p] = NoJob]
      /\ ended' = ended \cup ({job[p].call} \ {0})
  BY DEF Abort, Goto
<1>2. /\ pc \in [Proc -> PCs]
      /\ job \in [Proc -> [call : 0..MaxCalls, action : Actions \cup {Null}, since : Nat,
                           plan : AllPlans, body : Body]]
  BY DEF IInv, TypeOK
<1>3. NoPlan \in AllPlans /\ NoBody \in Body
  BY DEF NoPlan, AllPlans, NoBody, Body, Outcomes, Denials, NoRef, Null
<1>4. 0 \in 0..MaxCalls
  BY BoundAssumption
<1>5. NoJob \in [call : 0..MaxCalls, action : Actions \cup {Null}, since : Nat,
                plan : AllPlans, body : Body]
  BY <1>3, <1>4 DEF NoJob
<1>6. ended' \subseteq 1..MaxCalls
  <2>1. job[p].call \in 0..MaxCalls /\ MaxCalls \in Nat
    BY <1>2, BoundAssumption
  <2>2. {job[p].call} \ {0} \subseteq 1..MaxCalls
    BY <2>1
  <2>3. QED
    BY <1>1, <2>2 DEF IInv, TypeOK
<1>7. QED
  BY <1>1, <1>2, <1>5, <1>6 DEF PCs

\* A process without a call, with every event in place, knows nothing.
LEMMA AbortFits ==
  ASSUME IInv, NEW p \in Proc, pc[p] # "idle", Abort(p),
         UNCHANGED <<chain, torn, ids, wiped, cut, effects, calls, records, overlapped>>,
         crashes' \in 0..MaxCrashes, writer' \in Proc \cup {NoProc}
  PROVE  /\ pc' = [pc EXCEPT ![p] = "idle"] /\ job' = [job EXCEPT ![p] = NoJob]
         /\ job'[p].call = 0 /\ pc'[p] = "idle"
         /\ ended \subseteq ended' /\ (job[p].call # 0 => job[p].call \in ended')
         /\ TypeOK' /\ StageFits(p)'
<1>1. /\ pc' = [pc EXCEPT ![p] = "idle"] /\ job' = [job EXCEPT ![p] = NoJob]
      /\ ended' = ended \cup ({job[p].call} \ {0})
  BY DEF Abort, Goto
<1>2. /\ pc \in [Proc -> PCs] /\ calls \in Nat
      /\ job \in [Proc -> [call : 0..MaxCalls, action : Actions \cup {Null}, since : Nat,
                           plan : AllPlans, body : Body]]
  BY DEF IInv, TypeOK
<1>3. job'[p] = NoJob /\ job'[p].call = 0 /\ pc'[p] = "idle"
  BY <1>1, <1>2 DEF NoJob
<1>4. TypeOK'
  BY AbortTypes DEF IInv, TypeOK
<1>5. StageFits(p)'
  BY <1>2, <1>3 DEF StageFits, Deciding, Acting
<1>6. QED
  BY <1>1, <1>3, <1>4, <1>5

\* Recovery meets part of a line and the call rejects.
LEMMA RecoveryThrowsKeeps ==
  ASSUME IInv, NEW p \in Proc, RecoveryThrows(p)
  PROVE  IInv'
<1>1. /\ pc[p] = "recover" /\ Abort(p)
      /\ UNCHANGED <<chain, torn, ids, wiped, cut, writer, effects, calls, records, crashes,
                     overlapped>>
  BY DEF RecoveryThrows, fileVars
<1>2. writer # p
  BY <1>1, WritersAppend DEF Appending
<1>3. QED
  BY <1>1, <1>2, AbortFits, JobStep DEF IInv, TypeOK

\* The lock is not to be had in time and the call rejects.
LEMMA AcquireTimeoutKeeps ==
  ASSUME IInv, NEW p \in Proc, AcquireTimeout(p)
  PROVE  IInv'
<1>1. /\ pc[p] \in Appending /\ writer # p /\ Abort(p)
      /\ UNCHANGED <<chain, torn, ids, wiped, cut, writer, effects, calls, records, crashes,
                     overlapped>>
  BY DEF AcquireTimeout, fileVars
<1>2. QED
  BY <1>1, AbortFits, JobStep DEF IInv, TypeOK, Appending

-----------------------------------------------------------------------------
(* Deciding, and asking *)

\* What the four decisions have in common.
LEMMA DecideKeeps ==
  ASSUME IInv, NEW p \in Proc, NEW label, NEW pl \in AllPlans, NEW body \in Body,
         Decide(p, label, pl, body),
         body.call = job[p].call, body.ref = NoRef, body.result = Null, body.approval = Null,
         \/ label = "deny" /\ body.outcome \notin {"pending", "execution_lost"}
         \/ label = "approval" /\ body.outcome = "pending" /\ pl.packs /\ ~ApplyConstraint(pl)
         \/ label = "phaseA" /\ body.outcome = "pending" /\ Authorised(pl, Null)
  PROVE  IInv'
<1>1. /\ pc[p] = "decide" /\ pc' = [pc EXCEPT ![p] = label]
      /\ job' = [job EXCEPT ![p].plan = pl, ![p].body = body]
      /\ UNCHANGED <<chain, torn, ids, wiped, cut, writer, effects, calls, records, crashes, ended,
                     overlapped>>
  BY DEF Decide, Goto, fileVars
<1>2. /\ pc \in [Proc -> PCs] /\ calls \in Nat
      /\ job \in [Proc -> [call : 0..MaxCalls, action : Actions \cup {Null}, since : Nat,
                           plan : AllPlans, body : Body]]
  BY DEF IInv, TypeOK
<1>3. writer # p
  BY <1>1, WritersAppend DEF Appending
<1>4. /\ job'[p].call = job[p].call /\ job'[p].plan = pl /\ job'[p].body = body
      /\ job'[p].action = job[p].action /\ pc'[p] = label
      /\ job' \in [Proc -> [call : 0..MaxCalls, action : Actions \cup {Null}, since : Nat,
                            plan : AllPlans, body : Body]]
  <2>1. pc'[p] = label
    BY <1>1, <1>2
  <2>2. job[p] \in [call : 0..MaxCalls, action : Actions \cup {Null}, since : Nat,
                    plan : AllPlans, body : Body]
    BY <1>2
  <2>3. job'[p] = [[job[p] EXCEPT !.plan = pl] EXCEPT !.body = body]
    BY <1>1, <1>2
  <2>4. /\ job'[p].call = job[p].call /\ job'[p].plan = pl /\ job'[p].body = body
        /\ job'[p].action = job[p].action
        /\ job'[p] \in [call : 0..MaxCalls, action : Actions \cup {Null}, since : Nat,
                         plan : AllPlans, body : Body]
    BY <2>2, <2>3
  <2>5. job' = [job EXCEPT ![p] = job'[p]]
    BY <1>1, <1>2, <2>3
  <2>6. QED
    BY <1>2, <2>1, <2>4, <2>5
<1>5. job[p].call \in 0..calls /\ job[p].call # 0
  BY <1>1 DEF IInv, StagesFit, StageFits
<1>6. TypeOK'
  <2>1. pc' \in [Proc -> PCs]
    BY <1>1, <1>2 DEF PCs, Appending
  <2>2. QED
    BY <1>1, <1>4, <2>1 DEF IInv, TypeOK
<1>7. StageFits(p)'
  BY <1>1, <1>4, <1>5 DEF StageFits, Deciding, Acting
<1>8. pc[p] \notin Acting /\ pc'[p] \notin Acting
  BY <1>1, <1>4 DEF Acting
<1>9. \A q \in Proc \ {p} : pc'[q] = pc[q] /\ job'[q] = job[q]
  BY <1>1, <1>2
<1>10. QED
  BY <1>1, <1>2, <1>3, <1>4, <1>6, <1>7, <1>8, <1>9, JobStep

\* A draft of the decision stage: no reference and no result yet.
LEMMA DraftTypes ==
  ASSUME IInv, NEW p \in Proc, NEW pl \in AllPlans, NEW outcome \in Outcomes
  PROVE  /\ Draft(p, outcome, pl) \in Body
         /\ Draft(p, outcome, pl).outcome = outcome
         /\ Draft(p, outcome, pl).call = job[p].call
         /\ Draft(p, outcome, pl).ref = NoRef
         /\ Draft(p, outcome, pl).result = Null
         /\ Draft(p, outcome, pl).approval = Null
<1>1. job[p].call \in Nat
  BY BoundAssumption DEF IInv, TypeOK
<1>2. pl.decision \in {"allow", "deny", "require-approval"}
  BY DEF AllPlans
<1>3. QED
  BY <1>1, <1>2 DEF Draft, NoBody, Body, NoRef, Null

\* No policy, no escape hatch: a denial is drafted.
LEMMA FailClosedNoPolicyKeeps ==
  ASSUME IInv, NEW p \in Proc, NEW pl \in Plans, FailClosedNoPolicy(p, pl)
  PROVE  IInv'
<1> DEFINE draft == Draft(p, "no_policy_configured", pl)
           body  == [draft EXCEPT !.decision = "deny"]
<1>1. pl \in AllPlans /\ Decide(p, "deny", pl, body)
  BY PlansAssumption DEF FailClosedNoPolicy
<1>2. /\ draft \in Body /\ draft.outcome = "no_policy_configured"
      /\ draft.call = job[p].call /\ draft.ref = NoRef /\ draft.result = Null
      /\ draft.approval = Null
  BY <1>1, DraftTypes DEF Outcomes
<1> HIDE DEF draft
<1>3. /\ body \in Body /\ body.outcome = "no_policy_configured"
      /\ body.call = job[p].call /\ body.ref = NoRef /\ body.result = Null
      /\ body.approval = Null
  BY <1>2 DEF Body
<1> HIDE DEF body
<1>4. QED
  BY <1>1, <1>3, DecideKeeps

\* The policy's deny is drafted.
LEMMA BlockByPolicyKeeps ==
  ASSUME IInv, NEW p \in Proc, NEW pl \in Plans, BlockByPolicy(p, pl)
  PROVE  IInv'
<1>1. pl \in AllPlans /\ Decide(p, "deny", pl, Draft(p, "denied_by_policy", pl))
  BY PlansAssumption DEF BlockByPolicy
<1>2. "denied_by_policy" \in Outcomes
  BY DEF Outcomes, Denials
<1>3. QED
  BY <1>1, <1>2, DraftTypes, DecideKeeps

\* The intent waits for an answer.
LEMMA AskApprovalKeeps ==
  ASSUME IInv, NEW p \in Proc, NEW pl \in Plans, AskApproval(p, pl)
  PROVE  IInv'
<1>1. /\ pl \in AllPlans /\ Decide(p, "approval", pl, Draft(p, "pending", pl))
      /\ pl.packs
  BY PlansAssumption DEF AskApproval
<1>2. ~ApplyConstraint(pl)
  BY DEF AskApproval, NeedsApproval, ApplyConstraint
<1>3. "pending" \in Outcomes
  BY DEF Outcomes
<1>4. QED
  BY <1>1, <1>2, <1>3, DraftTypes, DecideKeeps

\* The intent is drafted at once.
LEMMA ProceedKeeps ==
  ASSUME IInv, NEW p \in Proc, NEW pl \in Plans, Proceed(p, pl)
  PROVE  IInv'
<1>1. pl \in AllPlans /\ Decide(p, "phaseA", pl, Draft(p, "pending", pl))
  BY PlansAssumption DEF Proceed
<1>2. Authorised(pl, Null)
  BY DEF Proceed, Authorised
<1>3. "pending" \in Outcomes
  BY DEF Outcomes
<1>4. QED
  BY <1>1, <1>2, <1>3, DraftTypes, DecideKeeps

\* Only an approval leads to phase A.
LEMMA ObtainApprovalKeeps ==
  ASSUME IInv, NEW p \in Proc, NEW answer \in {"approved", "rejected"},
         ObtainApproval(p, answer)
  PROVE  IInv'
<1> DEFINE label == IF answer = "approved" THEN "phaseA" ELSE "deny"
           out   == IF answer = "approved" THEN "pending" ELSE "denied_by_approval"
           body  == [job[p].body EXCEPT !.approval = answer, !.outcome = out]
<1>1. /\ pc[p] = "approval" /\ pc' = [pc EXCEPT ![p] = label]
      /\ job' = [job EXCEPT ![p].body.approval = answer, ![p].body.outcome = out]
      /\ UNCHANGED <<chain, torn, ids, wiped, cut, writer, effects, calls, records, crashes, ended,
                     overlapped>>
  BY DEF ObtainApproval, Goto, fileVars
<1>2. /\ pc \in [Proc -> PCs] /\ calls \in Nat
      /\ job \in [Proc -> [call : 0..MaxCalls, action : Actions \cup {Null}, since : Nat,
                           plan : AllPlans, body : Body]]
  BY DEF IInv, TypeOK
<1>3. writer # p
  BY <1>1, WritersAppend DEF Appending
<1>4. /\ body \in Body
      /\ body.approval = answer /\ body.outcome = out
      /\ body.call = job[p].body.call /\ body.ref = job[p].body.ref
      /\ body.result = job[p].body.result
  <2>1. job[p].body \in Body
    BY <1>2
  <2>2. QED
    BY <2>1 DEF Body, Outcomes, Denials
<1>5. /\ job'[p].call = job[p].call /\ job'[p].plan = job[p].plan /\ job'[p].body = body
      /\ pc'[p] = label
      /\ job' \in [Proc -> [call : 0..MaxCalls, action : Actions \cup {Null}, since : Nat,
                            plan : AllPlans, body : Body]]
      /\ \A q \in Proc \ {p} : pc'[q] = pc[q] /\ job'[q] = job[q]
  <2>1. pc'[p] = label
    BY <1>1, <1>2
  <2>2. job[p] \in [call : 0..MaxCalls, action : Actions \cup {Null}, since : Nat,
                    plan : AllPlans, body : Body]
    BY <1>2
  <2>3. job'[p] = [[job[p] EXCEPT !.body.approval = answer] EXCEPT !.body.outcome = out]
    BY <1>1, <1>2
  <2>4. /\ job'[p].call = job[p].call /\ job'[p].plan = job[p].plan
        /\ job'[p].action = job[p].action
        /\ job'[p].body = [[job[p].body EXCEPT !.approval = answer] EXCEPT !.outcome = out]
    BY <2>2, <2>3
  <2>5. job'[p].body = body
    BY <2>4 DEF body
  <2>6. job'[p] \in [call : 0..MaxCalls, action : Actions \cup {Null}, since : Nat,
                     plan : AllPlans, body : Body]
    BY <1>4, <2>2, <2>3, <2>4, <2>5
  <2>7. \A q \in Proc \ {p} : pc'[q] = pc[q] /\ job'[q] = job[q]
    BY <1>1, <1>2
  <2>8. job' = [job EXCEPT ![p] = job'[p]]
    BY <1>1, <1>2, <2>3
  <2>9. QED
    BY <1>2, <2>1, <2>4, <2>5, <2>6, <2>7, <2>8
<1> HIDE DEF body
<1>6. TypeOK'
  <2>1. pc' \in [Proc -> PCs]
    BY <1>1, <1>2 DEF PCs, Appending
  <2>2. QED
    BY <1>1, <1>5, <2>1 DEF IInv, TypeOK
<1>7. /\ job[p].call \in 0..calls /\ job[p].call # 0 /\ job[p].body.call = job[p].call
      /\ job[p].body.ref = NoRef /\ job[p].body.result = Null
      /\ job[p].plan.packs /\ ~ApplyConstraint(job[p].plan)
  BY <1>1 DEF IInv, StagesFit, StageFits, Deciding
<1>8. answer = "approved" => Authorised(job[p].plan, answer)
  BY <1>7 DEF Authorised
<1>9. StageFits(p)'
  BY <1>1, <1>4, <1>5, <1>7, <1>8 DEF StageFits, Deciding, Acting
<1>10. pc[p] \notin Acting /\ pc'[p] \notin Acting
  BY <1>1, <1>5 DEF Acting
<1>11. QED
  BY <1>1, <1>2, <1>3, <1>5, <1>6, <1>9, <1>10, JobStep

\* The outcome is computed from what the call knew when it let the action run.
LEMMA ReturnsKeeps ==
  ASSUME IInv, NEW p \in Proc, NEW result \in {"ok", "error"}, Returns(p, result)
  PROVE  IInv'
<1> DEFINE out  == ComputeOutcome(job[p].plan, job[p].body.approval # Null)
           body == [job[p].body EXCEPT !.outcome = out, !.result = result]
<1>1. /\ pc[p] = "running" /\ pc' = [pc EXCEPT ![p] = "phaseB"]
      /\ job' = [job EXCEPT ![p].body.outcome = out, ![p].body.result = result]
      /\ UNCHANGED <<chain, torn, ids, wiped, cut, writer, effects, calls, records, crashes, ended,
                     overlapped>>
  BY DEF Returns, Goto, fileVars
<1>2. /\ pc \in [Proc -> PCs] /\ calls \in Nat
      /\ job \in [Proc -> [call : 0..MaxCalls, action : Actions \cup {Null}, since : Nat,
                           plan : AllPlans, body : Body]]
  BY DEF IInv, TypeOK
<1>3. writer # p
  BY <1>1, WritersAppend DEF Appending
<1>4. out \in Outcomes
  BY DEF ComputeOutcome, Outcomes, Denials
<1> HIDE DEF out
<1>5. /\ body \in Body
      /\ body.approval = job[p].body.approval /\ body.outcome = out
      /\ body.call = job[p].body.call /\ body.ref = job[p].body.ref
      /\ body.result = result
  <2>1. job[p].body \in Body
    BY <1>2
  <2>2. QED
    BY <1>4, <2>1 DEF Body, Outcomes, Denials
<1>6. /\ job'[p].call = job[p].call /\ job'[p].plan = job[p].plan /\ job'[p].body = body
      /\ pc'[p] = "phaseB"
      /\ job' \in [Proc -> [call : 0..MaxCalls, action : Actions \cup {Null}, since : Nat,
                            plan : AllPlans, body : Body]]
      /\ \A q \in Proc \ {p} : pc'[q] = pc[q] /\ job'[q] = job[q]
  <2>1. pc'[p] = "phaseB"
    BY <1>1, <1>2
  <2>2. job[p] \in [call : 0..MaxCalls, action : Actions \cup {Null}, since : Nat,
                    plan : AllPlans, body : Body]
    BY <1>2
  <2>3. job'[p] = [[job[p] EXCEPT !.body.outcome = out] EXCEPT !.body.result = result]
    BY <1>1, <1>2
  <2>4. /\ job'[p].call = job[p].call /\ job'[p].plan = job[p].plan
        /\ job'[p].action = job[p].action
        /\ job'[p].body = [[job[p].body EXCEPT !.outcome = out] EXCEPT !.result = result]
    BY <2>2, <2>3
  <2>5. job'[p].body = body
    BY <2>4 DEF body
  <2>6. job'[p] \in [call : 0..MaxCalls, action : Actions \cup {Null}, since : Nat,
                     plan : AllPlans, body : Body]
    BY <1>5, <2>2, <2>3, <2>4, <2>5
  <2>7. \A q \in Proc \ {p} : pc'[q] = pc[q] /\ job'[q] = job[q]
    BY <1>1, <1>2
  <2>8. job' = [job EXCEPT ![p] = job'[p]]
    BY <1>1, <1>2, <2>3
  <2>9. QED
    BY <1>2, <2>1, <2>4, <2>5, <2>6, <2>7, <2>8
<1> HIDE DEF body
<1>7. TypeOK'
  <2>1. pc' \in [Proc -> PCs]
    BY <1>1, <1>2 DEF PCs, Appending
  <2>2. QED
    BY <1>1, <1>6, <2>1 DEF IInv, TypeOK
<1>8. /\ job[p].call \in 0..calls /\ job[p].call # 0 /\ job[p].body.call = job[p].call
      /\ Authorised(job[p].plan, job[p].body.approval) /\ Backed(job[p].body, Returned)
  BY <1>1 DEF IInv, StagesFit, StageFits, Acting
<1>9. Backed(body, Returned) /\ Returned' = Returned
  BY <1>1, <1>5, <1>8 DEF Backed, Returned, Logged
<1>10. StageFits(p)'
  <2>1. out = ComputeOutcome(job'[p].plan, job'[p].body.approval # Null)
    BY <1>5, <1>6 DEF out
  <2>2. result # Null
    BY DEF Null
  <2>3. QED
    BY <1>1, <1>5, <1>6, <1>8, <1>9, <2>1, <2>2 DEF StageFits, Deciding, Acting
<1>11. QED
  BY <1>1, <1>2, <1>3, <1>6, <1>7, <1>10, JobStep

\* An observed execution belongs to no call.
LEMMA RecordKeeps ==
  ASSUME IInv, NEW p \in Proc, NEW pl \in Plans, NEW result \in {"ok", "error"},
         Record(p, pl, result)
  PROVE  IInv'
<1> DEFINE out  == IF ~pl.packs THEN "no_policy_configured"
                   ELSE IF pl.decision = "allow" THEN "allowed_executed"
                   ELSE "witnessed_executed"
           dec  == IF pl.packs THEN pl.decision ELSE "deny"
           body == [NoBody EXCEPT !.result = result, !.decision = dec, !.outcome = out]
           j    == [NoJob EXCEPT !.body = body]
<1>1. /\ pc[p] = "idle" /\ pc' = [pc EXCEPT ![p] = "observe"]
      /\ job' = [job EXCEPT ![p] = j]
      /\ records < MaxRecords /\ records' = records + 1 /\ overlapped' \in BOOLEAN
      /\ UNCHANGED <<chain, torn, ids, wiped, cut, writer, effects, calls, crashes, ended>>
  BY DEF Record, Begin, Goto, fileVars
<1>2. /\ pc \in [Proc -> PCs] /\ calls \in Nat
      /\ job \in [Proc -> [call : 0..MaxCalls, action : Actions \cup {Null}, since : Nat,
                           plan : AllPlans, body : Body]]
  BY DEF IInv, TypeOK
<1>3. writer # p
  BY <1>1, WritersAppend DEF Appending
<1>4. out \in Outcomes \ {"pending", "execution_lost"}
  BY DEF Outcomes
<1>5. dec \in {"allow", "deny", "require-approval"}
  BY PlansAssumption DEF AllPlans
<1> HIDE DEF out, dec
<1>6. /\ body \in Body /\ body.call = 0 /\ body.ref = NoRef /\ body.result = result
      /\ body.outcome = out
  BY <1>4, <1>5 DEF NoBody, Body, NoRef, Null
<1> HIDE DEF body
<1>7. /\ j.call = 0 /\ j.body = body
      /\ j \in [call : 0..MaxCalls, action : Actions \cup {Null}, since : Nat, plan : AllPlans, body : Body]
  <2>1. NoPlan \in AllPlans
    BY DEF NoPlan, AllPlans
  <2>2. 0 \in 0..MaxCalls
    BY BoundAssumption
  <2>3. QED
    BY <1>6, <2>1, <2>2 DEF NoJob
<1> HIDE DEF j
<1>8. job'[p] = j /\ pc'[p] = "observe"
  BY <1>1, <1>2
<1>9. TypeOK'
  <2>1. job' \in [Proc -> [call : 0..MaxCalls, action : Actions \cup {Null}, since : Nat,
                           plan : AllPlans, body : Body]]
    BY <1>1, <1>2, <1>7
  <2>2. pc' \in [Proc -> PCs]
    BY <1>1, <1>2 DEF PCs, Appending
  <2>3. records' \in 0..MaxRecords
    BY <1>1, BoundAssumption DEF IInv, TypeOK
  <2>4. QED
    BY <1>1, <2>1, <2>2, <2>3 DEF IInv, TypeOK
<1>10. StageFits(p)'
  BY <1>1, <1>2, <1>4, <1>6, <1>7, <1>8 DEF StageFits, Deciding, Acting, Null
<1>11. \A q \in Proc \ {p} : pc'[q] = pc[q] /\ job'[q] = job[q]
  BY <1>1, <1>2
<1>12. QED
  BY <1>1, <1>2, <1>3, <1>7, <1>8, <1>9, <1>10, <1>11, JobStep

\* A death frees the lock and leaves the bytes.
LEMMA DieKeeps ==
  ASSUME IInv, NEW p \in Proc, Die(p)
  PROVE  IInv'
<1>1. /\ pc[p] # "idle" /\ Abort(p)
      /\ crashes < MaxCrashes /\ crashes' = crashes + 1
      /\ writer' = IF writer = p THEN NoProc ELSE writer
      /\ UNCHANGED <<chain, torn, ids, wiped, cut, effects, calls, records, overlapped>>
  BY DEF Die
<1>2. crashes' \in 0..MaxCrashes /\ writer' \in Proc \cup {NoProc} /\ calls \in Nat
  BY <1>1, BoundAssumption DEF IInv, TypeOK
<1>3. /\ pc' = [pc EXCEPT ![p] = "idle"] /\ job' = [job EXCEPT ![p] = NoJob]
      /\ job'[p].call = 0 /\ pc'[p] = "idle"
      /\ ended \subseteq ended' /\ (job[p].call # 0 => job[p].call \in ended')
      /\ TypeOK' /\ StageFits(p)'
  BY <1>1, <1>2, AbortFits
<1>4. \A q \in Proc \ {p} : pc'[q] = pc[q] /\ job'[q] = job[q]
  BY <1>3 DEF IInv, TypeOK
<1>5. CASE writer = p
  BY <1>1, <1>2, <1>3, <1>4, <1>5, JobStep
<1>6. CASE writer # p
  BY <1>1, <1>2, <1>3, <1>4, <1>6, JobStep
<1>7. QED
  BY <1>5, <1>6

-----------------------------------------------------------------------------
(* The action itself *)

\* The intent is in the chain, the action was authorised, and it is the only one
\* of its call.
LEMMA MediateKeeps ==
  ASSUME IInv, NEW p \in Proc, Mediate(p)
  PROVE  IInv'
<1> DEFINE f0 == [call |-> job[p].call, plan |-> job[p].plan,
                  approval |-> job[p].body.approval]
<1>1. /\ pc[p] = "mediate" /\ pc' = [pc EXCEPT ![p] = "running"]
      /\ effects' = effects \cup {f0}
      /\ UNCHANGED <<chain, torn, ids, wiped, cut, writer, job, calls, records, crashes, ended,
                     overlapped>>
  BY DEF Mediate, Goto, fileVars
<1>2. /\ pc \in [Proc -> PCs] /\ calls \in Nat /\ calls \in 0..MaxCalls
      /\ job \in [Proc -> [call : 0..MaxCalls, action : Actions \cup {Null}, since : Nat,
                           plan : AllPlans, body : Body]]
  BY DEF IInv, TypeOK
<1>3. /\ f0.call = job[p].call /\ f0.plan = job[p].plan
      /\ f0.approval = job[p].body.approval
  OBVIOUS
<1>4. /\ job[p].call \in 1..calls /\ job[p].body.call = job[p].call
      /\ Authorised(job[p].plan, job[p].body.approval) /\ Backed(job[p].body, Returned)
  BY <1>1, <1>2 DEF IInv, StagesFit, StageFits, Acting
<1>5. /\ Logged' = Logged /\ Written' = Written /\ TornEvents' = TornEvents
      /\ Readable' = Readable /\ Returned' = Returned
      /\ HashesFit' /\ KindsFit' /\ OncePerCall'
  BY <1>1, <1>2, FileKept
<1>6. TypeOK'
  <2>1. pc' \in [Proc -> PCs]
    BY <1>1, <1>2 DEF PCs
  <2>2. QED
    BY <1>1, <2>1 DEF IInv, TypeOK
<1>7. Shapes'
  <2>1. job[p] \in [call : 0..MaxCalls, action : Actions \cup {Null}, since : Nat,
                    plan : AllPlans, body : Body]
    BY <1>2
  <2>2. job[p].plan \in AllPlans /\ job[p].body.approval \in Answers
    BY <2>1 DEF Body, Answers
  <2>3. job[p].call \in 1..MaxCalls
    BY <1>2, <1>4, BoundAssumption
  <2>4. f0 \in [call : 1..MaxCalls, plan : AllPlans, approval : Answers]
    BY <2>2, <2>3
  <2>5. QED
    BY <1>1, <1>5, <2>4 DEF IInv, Shapes
<1> HIDE DEF f0
<1>8. StagesFit'
  <2>1. ASSUME NEW q \in Proc, q # p
        PROVE  StageFits(q)'
    BY <1>1, <1>2, <1>5, <2>1 DEF IInv, StagesFit, StageFits
  <2>2. StageFits(p)'
    BY <1>1, <1>2, <1>5 DEF IInv, StagesFit, StageFits, Deciding, Acting
  <2>3. QED
    BY <2>1, <2>2 DEF StagesFit
<1>9. CallsApart' /\ DraftFits'
  <2>1. writer # p
    BY <1>1, WritersAppend DEF Appending
  <2>2. QED
    BY <1>1, <1>2, <2>1 DEF IInv, CallsApart, DraftFits
<1>10. LiveCallsFit'
  BY <1>1, <1>2, <1>5 DEF IInv, LiveCallsFit, Acting, Lost, Pending
<1>11. TruncatedEnded'
  BY <1>1, <1>5 DEF IInv, TruncatedEnded, Pending
<1>12. EffectsFit'
  <2>1. \A f \in effects : f.call # job[p].call
    BY <1>1 DEF IInv, EffectsFit
  <2>2. \E e \in Returned : Pending(e) /\ e.body.call = f0.call /\ e.body.approval = f0.approval
    BY <1>3, <1>4 DEF Backed
  <2>3. \A q \in Proc : job[q].call = job[p].call => q = p
    BY <1>4 DEF IInv, CallsApart
  <2>4. ASSUME NEW f \in effects'
        PROVE  /\ f.call \in 1..calls
               /\ Authorised(f.plan, f.approval)
               /\ \E e \in Returned : /\ Pending(e) /\ e.body.call = f.call
                                      /\ e.body.approval = f.approval
               /\ \A g \in effects' : f.call = g.call => f = g
               /\ \A q \in Proc : f.call = job[q].call =>
                    pc'[q] \in {"running", "phaseB"} /\ f.plan = job[q].plan
    <3>1. CASE f = f0
      BY <1>1, <1>2, <1>3, <1>4, <2>1, <2>2, <2>3, <3>1
    <3>2. CASE f \in effects
      <4>1. \A q \in Proc : f.call = job[q].call => q # p
        BY <2>1, <3>2
      <4>2. QED
        BY <1>1, <1>2, <1>3, <2>1, <3>2, <4>1 DEF IInv, EffectsFit
    <3>3. QED
      BY <1>1, <3>1, <3>2
  <2>5. ASSUME NEW q \in Proc, pc'[q] \in {"running", "phaseB"}
        PROVE  \E f \in effects' : f.call = job[q].call
    BY <1>1, <1>2, <1>3, <2>5 DEF IInv, EffectsFit
  <2>6. QED
    BY <1>1, <1>5, <2>4, <2>5 DEF EffectsFit, Pending
<1>13. CompletionsFit'
  BY <1>1, <1>5 DEF IInv, CompletionsFit, Complete, Lost
<1>14. QED
  BY <1>5, <1>6, <1>7, <1>8, <1>9, <1>10, <1>11, <1>12, <1>13 DEF IInv

-----------------------------------------------------------------------------
(* Appending *)

\* What a draft knows before it is written.
LEMMA DraftKnown ==
  ASSUME IInv, NEW p \in Proc, pc[p] \in Appending
  PROVE  /\ job[p].body \in Body /\ job[p].body.ref \in 0..ids
         /\ job[p].body.call \in 0..calls
<1>1. /\ calls \in Nat /\ ids \in Nat
      /\ job \in [Proc -> [call : 0..MaxCalls, action : Actions \cup {Null}, since : Nat,
                           plan : AllPlans, body : Body]]
  BY DEF IInv, TypeOK
<1>2. job[p].body \in Body
  BY <1>1
<1>3. Readable \subseteq Written /\ Returned \subseteq Written
  BY DEF Readable, Written, TornEvents, Returned, IInv, Shapes
<1>4. CASE pc[p] = "lost"
  <2>1. PICK e \in Written : e.hash = job[p].body.ref /\ e.body.call = job[p].body.call
    BY <1>3, <1>4 DEF IInv, StagesFit, StageFits, Backed
  <2>2. e.hash \in 1..ids /\ e.body.call \in 0..calls
    BY DEF IInv, HashesFit, KindsFit
  <2>3. QED
    BY <1>1, <1>2, <2>1, <2>2
<1>5. CASE pc[p] = "phaseB"
  <2>1. PICK e \in Written : e.hash = job[p].body.ref /\ e.body.call = job[p].body.call
    BY <1>3, <1>5 DEF IInv, StagesFit, StageFits, Backed, Acting
  <2>2. e.hash \in 1..ids /\ e.body.call \in 0..calls
    BY DEF IInv, HashesFit, KindsFit
  <2>3. QED
    BY <1>1, <1>2, <2>1, <2>2
<1>6. CASE pc[p] \in {"deny", "phaseA"}
  BY <1>1, <1>2, <1>6 DEF IInv, StagesFit, StageFits, Deciding, NoRef
<1>7. CASE pc[p] = "observe"
  BY <1>1, <1>2, <1>7 DEF IInv, StagesFit, StageFits, NoRef
<1>8. QED
  BY <1>4, <1>5, <1>6, <1>7 DEF Appending

\* A line under way is a new event of one of the four kinds, and what it
\* replaces at the end of the file is remembered.
LEMMA BeginAppendKeeps ==
  ASSUME IInv, NEW p \in Proc, NEW kind \in TornKinds, BeginAppend(p, kind)
  PROVE  IInv'
<1> DEFINE ne == Ledger!NextEvent(chain, ids + 1, Null, job[p].body)
<1>1. /\ pc[p] \in Appending /\ writer = NoProc /\ writer' = p
      /\ ids' = ids + 1
      /\ wiped' = wiped \cup TornEvents
      /\ torn' = [kind |-> kind, event |-> ne]
      /\ UNCHANGED <<chain, pc, job, cut, calls, records, crashes, effects, ended, overlapped>>
  BY DEF BeginAppend
<1>2. /\ ids \in Nat /\ calls \in Nat /\ pc \in [Proc -> PCs]
      /\ chain \in Seq(Event)
      /\ job \in [Proc -> [call : 0..MaxCalls, action : Actions \cup {Null}, since : Nat,
                           plan : AllPlans, body : Body]]
  BY DEF IInv, TypeOK, Shapes
<1>3. /\ job[p].body \in Body /\ job[p].body.ref \in 0..ids
      /\ job[p].body.call \in 0..calls
  BY <1>1, DraftKnown
<1>4. ne.hash = ids + 1 /\ ne.body = job[p].body /\ ne \in Event
  <2>1. Ledger!HeadHash(chain) \in Nat
    <3>1. CASE chain = <<>>
      BY <3>1 DEF Ledger!HeadHash, Ledger!Genesis
    <3>2. CASE chain # <<>>
      <4>1. Len(chain) \in DOMAIN chain /\ chain[Len(chain)] \in Event
        BY <1>2, <3>2
      <4>2. Ledger!HeadHash(chain) = chain[Len(chain)].hash
        BY <3>2 DEF Ledger!HeadHash, Ledger!Last
      <4>3. chain[Len(chain)].hash \in Nat
        BY <4>1 DEF Event
      <4>4. QED
        BY <4>2, <4>3
    <3>3. QED
      BY <3>1, <3>2
  <2>2. Len(chain) \in Nat /\ ids + 1 \in Nat \ {0}
    BY <1>2
  <2>3. QED
    BY <1>3, <2>1, <2>2 DEF Ledger!NextEvent, Event
<1>5. /\ kind # "none" /\ torn'.kind = kind /\ torn'.event = ne
      /\ kind \in {"partial", "whole"}
  BY <1>1, TornAssumption
<1>6. torn'.event = Ledger!NextEvent(chain', torn'.event.hash, Null, job'[p].body)
  BY <1>1, <1>4, <1>5
<1> HIDE DEF ne
<1>7. /\ Logged' = Logged /\ TornEvents' = {ne}
      /\ Readable \subseteq Logged' \cup wiped'
      /\ Written' \subseteq Written \cup {ne} /\ ne \in Written'
      /\ Readable' \in SUBSET (Written \cup {ne}) /\ Readable \subseteq Readable'
      /\ Returned' = Returned /\ Returned \subseteq Written
  BY <1>1, <1>5 DEF Logged, TornEvents, Readable, Written, Returned, IInv, Shapes
<1>8. TypeOK'
  BY <1>1, <1>2, <1>5 DEF IInv, TypeOK
<1>9. Shapes'
  <2>1. wiped' \subseteq Event
    BY <1>1 DEF IInv, Shapes, TornEvents
  <2>2. cut' \subseteq wiped' \cup TornEvents'
    BY <1>1 DEF IInv, Shapes
  <2>3. QED
    BY <1>1, <1>4, <1>5, <2>1, <2>2 DEF IInv, Shapes
<1>10. StagesFit'
  <2>1. \A body : Backed(body, Readable) => Backed(body, Readable')
    BY <1>7 DEF Backed
  <2>2. QED
    BY <1>1, <1>7, <2>1 DEF IInv, StagesFit, StageFits
<1>11. CallsApart'
  BY <1>1 DEF IInv, CallsApart
<1>12. DraftFits'
  <2>1. ne \notin cut
    <3>1. \A e \in Written : e.hash \in 1..ids
      BY DEF IInv, HashesFit
    <3>2. QED
      BY <1>2, <1>4, <1>7, <3>1 DEF Returned
  <2>2. QED
    BY <1>1, <1>5, <1>6, <2>1 DEF DraftFits
<1>13. HashesFit'
  <2>1. ASSUME NEW e \in Written'
        PROVE  e.hash \in 1..ids' /\ e.body.ref < e.hash
    <3>1. CASE e \in Written
      BY <1>1, <1>2, <3>1 DEF IInv, HashesFit
    <3>2. CASE e = ne
      BY <1>1, <1>2, <1>3, <1>4, <3>2
    <3>3. QED
      BY <1>7, <3>1, <3>2
  <2>2. \A i \in DOMAIN chain : chain[i] \in Written
    BY DEF Written, Logged
  <2>3. \A i \in DOMAIN chain : chain[i].hash < ids + 1
    BY <1>2, <2>2 DEF IInv, HashesFit
  <2>4. \A e \in wiped' : e.hash < ids + 1
    <3>1. ASSUME NEW e \in Written PROVE e.hash < ids + 1
      BY <1>2 DEF IInv, HashesFit
    <3>2. QED
      BY <1>1, <3>1 DEF Written
  <2>5. \A e, f \in Written' : e.hash = f.hash => e = f
    <3>1. \A e \in Written : e.hash # ne.hash
      BY <1>2, <1>4 DEF IInv, HashesFit
    <3>2. QED
      BY <1>7, <3>1 DEF IInv, HashesFit
  <2>6. QED
    BY <1>1, <1>4, <1>5, <2>1, <2>3, <2>4, <2>5 DEF HashesFit, IInv
<1>14. KindsFit'
  <2>1. \A body : Backed(body, Logged \cup wiped) => Backed(body, Logged' \cup wiped')
    BY <1>1, <1>7 DEF Backed
  <2>2. ASSUME NEW e \in Written' 
        PROVE  /\ e.body.call \in 0..calls
               /\ Pending(e) => e.body.ref = NoRef /\ e.body.result = Null /\ e.body.call # 0
               /\ Denied(e) => e.body.ref = NoRef /\ e.body.call # 0
               /\ Lost(e) => e.body.call # 0 /\ Backed(e.body, Logged' \cup wiped')
               /\ Complete(e) =>
                    e.body.call # 0 /\ e.body.result # Null /\ Backed(e.body, Returned')
               /\ ~Pending(e) /\ ~Denied(e) /\ ~Lost(e) /\ ~Complete(e) => e.body.call = 0
    <3>1. CASE e \in Written
      BY <1>7, <2>1, <3>1 DEF IInv, KindsFit
    <3>2. CASE e = ne
      <4>1. StageFits(p) /\ e.body = job[p].body
        BY <1>4, <3>2 DEF IInv, StagesFit
      <4>2. CASE pc[p] = "lost"
        <5>1. Backed(e.body, Logged' \cup wiped')
          BY <1>7, <4>1, <4>2 DEF StageFits, Backed
        <5>2. QED
          BY <1>3, <4>1, <4>2, <5>1 DEF StageFits, Pending, Denied, Lost, Complete
      <4>3. CASE pc[p] \in {"deny", "phaseA"}
        BY <1>3, <4>1, <4>3 DEF StageFits, Deciding, Pending, Denied, Lost, Complete, NoRef
      <4>4. CASE pc[p] = "phaseB"
        <5>1. Backed(e.body, Returned') /\ e.body.outcome \notin {"pending", "execution_lost"}
          BY <1>7, <4>1, <4>4 DEF StageFits, Acting, ComputeOutcome
        <5>2. e.body.result # Null /\ e.body.call # 0
          BY <4>1, <4>4 DEF StageFits, Acting
        <5>3. e.body.ref # NoRef
          <6>1. PICK i \in Returned : i.hash = e.body.ref
            BY <1>7, <5>1 DEF Backed
          <6>2. i.hash \in 1..ids
            BY <1>7 DEF IInv, HashesFit
          <6>3. QED
            BY <6>1, <6>2 DEF NoRef
        <5>4. QED
          BY <1>3, <4>1, <5>1, <5>2, <5>3 DEF Pending, Denied, Lost, Complete
      <4>5. CASE pc[p] = "observe"
        BY <1>3, <4>1, <4>5 DEF StageFits, Pending, Denied, Lost, Complete
      <4>6. QED
        BY <1>1, <4>2, <4>3, <4>4, <4>5 DEF Appending
    <3>3. QED
      BY <1>7, <3>1, <3>2
  <2>3. QED
    BY <1>1, <2>2 DEF KindsFit, Pending, Denied, Lost, Complete
<1>15. ASSUME NEW e \in Written, ~Lost(e), ~Lost(ne), e.body.call = ne.body.call,
              e.body.call # 0
       PROVE  Pending(e) /\ pc[p] = "phaseB"
  <2>1. job[p].body.call = job[p].call /\ pc[p] \in {"deny", "phaseA", "phaseB"}
    BY <1>1, <1>4, <1>15
       DEF IInv, StagesFit, StageFits, Appending, Deciding, Acting, Lost
  <2>2. Pending(e) /\ pc[p] \in Acting
    BY <1>1, <1>4, <1>15, <2>1, ProcAssumption DEF IInv, LiveCallsFit
  <2>3. QED
    BY <2>1, <2>2 DEF Acting
<1>16. LiveCallsFit'
  <2>1. SUFFICES ASSUME NEW e \in Written', NEW q \in Proc,
                        e.body.call = job[q].call, job[q].call # 0, ~Lost(e)
                 PROVE  \/ e \in TornEvents' /\ writer' = q
                        \/ Pending(e) /\ pc[q] \in Acting
    BY <1>1 DEF LiveCallsFit, Lost, Pending
  <2>2. CASE e \in Written
    BY <1>1, <2>1, <2>2, ProcAssumption DEF IInv, LiveCallsFit
  <2>3. CASE e = ne
    <3>1. job[p].body.call = job[p].call
      BY <1>1, <1>4, <2>1, <2>3
         DEF IInv, StagesFit, StageFits, Appending, Deciding, Acting, Lost
    <3>2. q = p
      BY <1>4, <2>1, <2>3, <3>1 DEF IInv, CallsApart
    <3>3. QED
      BY <1>1, <1>7, <2>3, <3>2
  <2>4. QED
    BY <1>7, <2>2, <2>3
<1>17. OncePerCall'
  <2>1. pc[p] = "phaseB" => ~Pending(ne) /\ ~Denied(ne)
    BY <1>4 DEF IInv, StagesFit, StageFits, ComputeOutcome, Pending, Denied
  <2>2. SUFFICES ASSUME NEW e \in Written', NEW f \in Written',
                        e.body.call = f.body.call, e.body.call # 0, ~Lost(e), ~Lost(f),
                        (Pending(e) <=> Pending(f)) \/ Denied(e)
                 PROVE  e = f
    BY DEF OncePerCall, Lost, Pending, Denied
  <2>3. CASE e \in Written /\ f \in Written
    BY <2>2, <2>3 DEF IInv, OncePerCall
  <2>4. CASE e = ne /\ f \in Written
    BY <1>15, <2>1, <2>2, <2>4
  <2>5. CASE e \in Written /\ f = ne
    BY <1>15, <2>1, <2>2, <2>5 DEF Denied
  <2>6. QED
    BY <1>7, <2>3, <2>4, <2>5
<1>18. TruncatedEnded'
  BY <1>1, <1>7, ProcAssumption DEF IInv, TruncatedEnded, Pending
<1>19. EffectsFit'
  BY <1>1, <1>7 DEF IInv, EffectsFit, Pending
<1>20. CompletionsFit'
  <2>1. ASSUME NEW e \in Written', Complete(e)
        PROVE  \E f \in effects :
                 /\ f.call = e.body.call
                 /\ e.body.outcome = ComputeOutcome(f.plan, f.approval # Null)
    <3>1. CASE e \in Written
      BY <2>1, <3>1 DEF IInv, CompletionsFit
    <3>2. CASE e = ne
      <4>1. pc[p] = "phaseB"
        BY <1>1, <1>4, <2>1, <3>2
           DEF IInv, StagesFit, StageFits, Appending, Deciding, Complete, Lost
      <4>2. /\ e.body = job[p].body /\ job[p].body.call = job[p].call /\ job[p].call # 0
            /\ Backed(job[p].body, Returned)
            /\ job[p].body.outcome = ComputeOutcome(job[p].plan, job[p].body.approval # Null)
        BY <1>4, <3>2, <4>1 DEF IInv, StagesFit, StageFits, Acting
      <4>3. PICK f \in effects : f.call = job[p].call
        BY <4>1 DEF IInv, EffectsFit
      <4>4. f.plan = job[p].plan
        BY <4>3 DEF IInv, EffectsFit
      <4>5. f.approval = job[p].body.approval
        <5>1. PICK i \in Returned : /\ Pending(i) /\ i.body.call = job[p].call
                                    /\ i.body.approval = f.approval
          BY <4>3 DEF IInv, EffectsFit
        <5>2. PICK k \in Returned : /\ Pending(k) /\ k.body.call = job[p].call
                                    /\ k.body.approval = job[p].body.approval
          BY <4>2 DEF Backed
        <5>3. i = k
          BY <1>7, <4>2, <5>1, <5>2 DEF IInv, OncePerCall, Pending, Lost
        <5>4. QED
          BY <5>1, <5>2, <5>3
      <4>6. QED
        BY <4>2, <4>3, <4>4, <4>5
    <3>3. QED
      BY <1>7, <3>1, <3>2
  <2>2. QED
    BY <1>1, <2>1 DEF CompletionsFit, Complete, Lost
<1>21. QED
  BY <1>8, <1>9, <1>10, <1>11, <1>12, <1>13, <1>14, <1>16, <1>17, <1>18, <1>19, <1>20 DEF IInv

\* The append returns: its event moves from the end of the file to the chain, or
\* stays there for want of bytes, and the call goes on with its hash.
LEMMA AppendedKeeps ==
  ASSUME IInv, NEW p \in Proc, EndAppend(p) \/ EndShort(p)
  PROVE  IInv'
<1> DEFINE ev == torn.event
<1>1. /\ writer = p /\ writer' = NoProc
      /\ \/ chain' = Append(chain, ev) /\ torn' = NotTorn /\ cut' = cut
         \/ chain' = chain /\ torn' = torn /\ cut' = cut \cup {ev}
      /\ pc' = [pc EXCEPT ![p] = AfterAppend(p)]
      /\ job' = [job EXCEPT ![p] = JobAfterAppend(p)]
      /\ UNCHANGED <<ids, calls, records, crashes, effects, ended, wiped, overlapped>>
  BY DEF EndAppend, EndShort, Appended, Goto
<1>2. /\ ids \in Nat /\ calls \in Nat /\ pc \in [Proc -> PCs]
      /\ chain \in Seq(Event)
      /\ job \in [Proc -> [call : 0..MaxCalls, action : Actions \cup {Null}, since : Nat,
                           plan : AllPlans, body : Body]]
  BY DEF IInv, TypeOK, Shapes
<1>3. /\ pc[p] \in Appending /\ torn.kind # "none" /\ ev.body = job[p].body
      /\ ev \in Event /\ StageFits(p)
  BY <1>1, WritersLine DEF IInv, Shapes, StagesFit
<1>4. ev.hash = ids /\ ids # 0 /\ \A i \in DOMAIN chain : chain[i].hash < ids
  BY <1>3 DEF IInv, HashesFit, Event
<1> HIDE DEF ev
<1>5. ASSUME chain' = Append(chain, ev)
      PROVE  /\ DOMAIN chain' = 1..(Len(chain) + 1) /\ DOMAIN chain = 1..Len(chain)
             /\ Len(chain) \in Nat
             /\ \A i \in DOMAIN chain : chain'[i] = chain[i]
             /\ chain'[Len(chain) + 1] = ev
             /\ chain' \in Seq(Event)
  BY <1>2, <1>3, <1>5
<1>6. TornEvents = {ev}
  BY <1>3 DEF TornEvents, ev
<1>7. /\ Returned' = Returned \cup {ev} /\ chain' \in Seq(Event)
      /\ Logged' \cup TornEvents' = Logged \cup {ev} /\ Logged \subseteq Logged'
      /\ TornEvents' \ cut' = {}
      /\ cut' \subseteq wiped \cup TornEvents'
      /\ Readable \subseteq Readable'
  <2>1. CASE chain' = Append(chain, ev) /\ torn' = NotTorn /\ cut' = cut
    <3>1. Logged' = Logged \cup {ev}
      BY <1>5, <2>1 DEF Logged
    <3>2. TornEvents' = {} /\ ev \notin cut
      BY <1>1, <2>1, ProcAssumption DEF IInv, DraftFits, TornEvents, NotTorn, ev
    <3>3. QED
      BY <1>1, <1>5, <1>6, <2>1, <3>1, <3>2 DEF Returned, Readable, IInv, Shapes, ev
  <2>2. CASE chain' = chain /\ torn' = torn /\ cut' = cut \cup {ev}
    <3>1. Logged' = Logged /\ TornEvents' = {ev}
      BY <1>6, <2>2 DEF Logged, TornEvents
    <3>2. QED
      BY <1>1, <1>2, <1>6, <2>2, <3>1 DEF Returned, Readable, IInv, Shapes
  <2>3. QED
    BY <1>1, <2>1, <2>2
<1>8. Written' = Written /\ Returned \subseteq Returned'
  BY <1>1, <1>6, <1>7 DEF Written
<1>9. \/ pc[p] = "lost" /\ pc'[p] = "decide"
      \/ pc[p] = "phaseA" /\ pc'[p] = "mediate"
      \/ pc[p] \in {"deny", "phaseB", "observe"} /\ pc'[p] = "idle"
  BY <1>1, <1>2, <1>3 DEF AfterAppend, Appending
<1>10. /\ job'[p] = JobAfterAppend(p)
       /\ \A q \in Proc \ {p} : pc'[q] = pc[q] /\ job'[q] = job[q]
  BY <1>1, <1>2
<1>11. ASSUME pc'[p] = "idle"
       PROVE  job'[p] = NoJob /\ job'[p].call = 0
  BY <1>9, <1>10, <1>11 DEF JobAfterAppend, AfterAppend, NoJob
<1>12. ASSUME pc'[p] # "idle"
       PROVE  /\ job'[p].call = job[p].call /\ job'[p].plan = job[p].plan
              /\ job'[p].action = job[p].action
              /\ job'[p].body.call = job[p].body.call /\ job'[p].body.ref = ids
              /\ job'[p].body.outcome = job[p].body.outcome
              /\ job'[p].body.result = job[p].body.result
              /\ job'[p].body.approval = job[p].body.approval
              /\ job'[p].body \in Body
              /\ job'[p] \in [call : 0..MaxCalls, action : Actions \cup {Null}, since : Nat,
                              plan : AllPlans, body : Body]
  <2>1. job'[p] = [job[p] EXCEPT !.body.ref = ids]
    BY <1>4, <1>9, <1>10, <1>12 DEF JobAfterAppend, AfterAppend, ev
  <2>2. job[p] \in [call : 0..MaxCalls, action : Actions \cup {Null}, since : Nat,
                    plan : AllPlans, body : Body]
    BY <1>2
  <2>3. /\ job'[p].call = job[p].call /\ job'[p].plan = job[p].plan
        /\ job'[p].action = job[p].action
        /\ job'[p].body = [job[p].body EXCEPT !.ref = ids]
    BY <2>1, <2>2
  <2>4. job[p].body \in Body
    BY <2>2
  <2>5. /\ job'[p].body \in Body
        /\ job'[p].body.call = job[p].body.call /\ job'[p].body.ref = ids
        /\ job'[p].body.outcome = job[p].body.outcome
        /\ job'[p].body.result = job[p].body.result
        /\ job'[p].body.approval = job[p].body.approval
    BY <1>2, <2>3, <2>4 DEF Body
  <2>6. job'[p] \in [call : 0..MaxCalls, action : Actions \cup {Null}, since : Nat,
                     plan : AllPlans, body : Body]
    BY <2>1, <2>2, <2>3, <2>5
  <2>7. QED
    BY <2>3, <2>5, <2>6
<1>13. TypeOK'
  <2>1. pc' \in [Proc -> PCs]
    BY <1>1, <1>2, <1>9, <1>10 DEF PCs, Appending
  <2>2. job'[p] \in [call : 0..MaxCalls, action : Actions \cup {Null}, since : Nat,
                     plan : AllPlans, body : Body]
    <3>1. NoPlan \in AllPlans /\ NoBody \in Body
      BY DEF NoPlan, AllPlans, NoBody, Body, Outcomes, Denials, NoRef, Null
    <3>2. 0 \in 0..MaxCalls
      BY BoundAssumption
    <3>3. NoJob \in [call : 0..MaxCalls, action : Actions \cup {Null}, since : Nat,
                     plan : AllPlans, body : Body]
      BY <3>1, <3>2 DEF NoJob
    <3>4. QED
      BY <1>11, <1>12, <3>3
  <2>3. job' \in [Proc -> [call : 0..MaxCalls, action : Actions \cup {Null}, since : Nat,
                           plan : AllPlans, body : Body]]
    <3>1. job' = [job EXCEPT ![p] = job'[p]]
      BY <1>1, <1>2, <1>10
    <3>2. QED
      BY <1>2, <2>2, <3>1
  <2>4. \A e \in Logged' : e.hash \in 1..ids /\ e.body \in Body
    <3>1. ev.hash \in 1..ids /\ ev.body \in Body
      BY <1>2, <1>3, <1>4 DEF Event
    <3>2. \A e \in Logged : e.hash \in 1..ids /\ e.body \in Body
      BY DEF Logged, IInv, TypeOK
    <3>3. QED
      BY <1>7, <3>1, <3>2
  <2>5. torn'.kind \in TornKinds \cup {"none"}
    BY <1>1 DEF NotTorn, IInv, TypeOK
  <2>6. QED
    BY <1>1, <2>1, <2>3, <2>4, <2>5 DEF IInv, TypeOK, Logged
<1>14. Shapes'
  <2>1. /\ torn' \in [kind : {"none", "partial", "whole"}, event : Event \cup {NoEvent}]
        /\ torn'.kind # "none" => torn'.event \in Event
    BY <1>1 DEF NotTorn, IInv, Shapes
  <2>2. QED
    BY <1>1, <1>7, <2>1 DEF IInv, Shapes
<1>15. StagesFit'
  <2>1. ASSUME NEW q \in Proc, q # p
        PROVE  StageFits(q)'
    <3>1. \A body : /\ Backed(body, Readable) => Backed(body, Readable')
                    /\ Backed(body, Returned) => Backed(body, Returned')
      BY <1>7, <1>8 DEF Backed
    <3>2. StageFits(q) /\ pc'[q] = pc[q] /\ job'[q] = job[q]
      BY <1>10, <2>1 DEF IInv, StagesFit
    <3>3. QED
      BY <1>1, <3>1, <3>2 DEF StageFits
  <2>2. StageFits(p)'
    <3>1. CASE pc'[p] = "idle"
      BY <1>1, <1>2, <1>11, <3>1 DEF StageFits, Deciding, Acting
    <3>2. CASE pc'[p] = "decide"
      BY <1>1, <1>3, <1>9, <1>12, <3>2 DEF StageFits, Deciding, Acting
    <3>3. CASE pc'[p] = "mediate"
      <4>1. pc[p] = "phaseA"
        BY <1>9, <3>3
      <4>2. Backed(job'[p].body, Returned')
        <5>1. Pending(ev) /\ ev.hash = job'[p].body.ref
              /\ ev.body.call = job'[p].body.call /\ ev.body.approval = job'[p].body.approval
          BY <1>3, <1>4, <1>12, <3>3, <4>1 DEF StageFits, Pending
        <5>2. QED
          BY <1>7, <5>1 DEF Backed
      <4>3. QED
        BY <1>1, <1>3, <1>12, <3>3, <4>1, <4>2 DEF StageFits, Deciding, Acting
    <3>4. QED
      BY <1>9, <3>1, <3>2, <3>3
  <2>3. QED
    BY <2>1, <2>2 DEF StagesFit
<1>16. \A q \in Proc : job'[q].call # 0 => job'[q].call = job[q].call
  BY <1>10, <1>11, <1>12
<1>17. CallsApart'
  BY <1>16 DEF IInv, CallsApart
<1>18. DraftFits'
  BY <1>1 DEF DraftFits
<1>19. HashesFit'
  <2>1. \A i, j \in DOMAIN chain' : i < j => chain'[i].hash < chain'[j].hash
    <3>1. CASE chain' = Append(chain, ev)
      BY <1>4, <1>5, <3>1 DEF IInv, HashesFit
    <3>2. CASE chain' = chain
      BY <3>2 DEF IInv, HashesFit
    <3>3. QED
      BY <1>1, <3>1, <3>2
  <2>2. torn'.kind # "none" => torn' = torn /\ chain' = chain
    BY <1>1 DEF NotTorn
  <2>3. QED
    BY <1>1, <1>8, <2>1, <2>2 DEF IInv, HashesFit
<1>20. KindsFit'
  <2>1. \A body : /\ Backed(body, Logged \cup wiped) => Backed(body, Logged' \cup wiped')
                  /\ Backed(body, Returned) => Backed(body, Returned')
    BY <1>1, <1>7, <1>8 DEF Backed
  <2>2. QED
    BY <1>1, <1>8, <2>1 DEF IInv, KindsFit, Pending, Denied, Lost, Complete
<1>21. LiveCallsFit'
  <2>1. SUFFICES ASSUME NEW e \in Written, NEW q \in Proc,
                        e.body.call = job'[q].call, job'[q].call # 0, ~Lost(e)
                 PROVE  Pending(e) /\ pc'[q] \in Acting
    BY <1>8 DEF LiveCallsFit, Lost, Pending
  <2>2. e.body.call = job[q].call /\ job[q].call # 0
    BY <1>16, <2>1
  <2>3. CASE q # p
    BY <1>1, <1>10, <2>1, <2>2, <2>3 DEF IInv, LiveCallsFit
  <2>4. CASE q = p /\ e = ev
    <3>1. pc'[p] # "idle"
      BY <1>11, <2>1, <2>4
    <3>2. pc[p] # "lost"
      BY <1>3, <2>1, <2>4 DEF StageFits, Lost
    <3>3. pc[p] = "phaseA" /\ pc'[p] = "mediate"
      BY <1>9, <3>1, <3>2
    <3>4. QED
      BY <1>3, <2>4, <3>3 DEF StageFits, Pending, Acting
  <2>5. CASE q = p /\ e # ev
    <3>1. pc[p] \in Acting
      BY <1>6, <2>1, <2>2, <2>5 DEF IInv, LiveCallsFit
    <3>2. pc'[p] = "idle"
      BY <1>9, <3>1 DEF Acting
    <3>3. QED
      BY <1>11, <2>1, <2>5, <3>2
  <2>6. QED
    BY <2>3, <2>4, <2>5
<1>22. OncePerCall'
  BY <1>8 DEF IInv, OncePerCall, Pending, Denied, Lost
<1>23. TruncatedEnded'
  <2>1. cut \subseteq cut'
    BY <1>1
  <2>2. QED
    BY <1>1, <1>7, <2>1 DEF IInv, TruncatedEnded, Pending
<1>24. EffectsFit'
  <2>1. ASSUME NEW f \in effects
        PROVE  \A q \in Proc : f.call = job'[q].call =>
                 pc'[q] \in {"running", "phaseB"} /\ f.plan = job'[q].plan
    <3>1. SUFFICES ASSUME NEW q \in Proc, f.call = job'[q].call
                   PROVE  pc'[q] \in {"running", "phaseB"} /\ f.plan = job'[q].plan
      OBVIOUS
    <3>2. f.call \in 1..calls /\ f.call = job[q].call
      BY <1>2, <1>16, <3>1 DEF IInv, EffectsFit
    <3>3. pc[q] \in {"running", "phaseB"} /\ f.plan = job[q].plan
      BY <3>2 DEF IInv, EffectsFit
    <3>4. q # p
      <4>1. SUFFICES ASSUME q = p PROVE FALSE
        OBVIOUS
      <4>2. job'[p].call # 0
        <5>1. f.call # 0
          BY <1>2, <3>2
        <5>2. f.call = job'[p].call
          BY <3>1, <4>1
        <5>3. QED
          BY <5>1, <5>2
      <4>3. pc[p] = "phaseB"
        BY <1>9, <3>3, <4>1
      <4>4. QED
        BY <1>9, <1>11, <4>2, <4>3
    <3>5. QED
      BY <1>10, <3>3, <3>4
  <2>2. ASSUME NEW q \in Proc, pc'[q] \in {"running", "phaseB"}
        PROVE  \E f \in effects : f.call = job'[q].call
    <3>1. q # p
      BY <1>9, <2>2
    <3>2. QED
      BY <1>10, <2>2, <3>1 DEF IInv, EffectsFit
  <2>3. ASSUME NEW f \in effects
        PROVE  \E e \in Returned' : Pending(e) /\ e.body.call = f.call
                                      /\ e.body.approval = f.approval
    BY <1>8 DEF IInv, EffectsFit
  <2>4. QED
    BY <1>1, <2>1, <2>2, <2>3 DEF IInv, EffectsFit, Pending
<1>25. CompletionsFit'
  BY <1>1, <1>8 DEF IInv, CompletionsFit, Complete, Lost
<1>26. QED
  BY <1>13, <1>14, <1>15, <1>17, <1>18, <1>19, <1>20, <1>21, <1>22, <1>23, <1>24, <1>25
     DEF IInv

\* Another's unfinished line is truncated and nothing comes in its place.
LEMMA DieHealedKeeps ==
  ASSUME IInv, NEW p \in Proc, DieHealed(p)
  PROVE  IInv'
<1>1. /\ pc[p] \in Appending /\ writer = NoProc /\ writer' = NoProc
      /\ crashes < MaxCrashes /\ crashes' = crashes + 1
      /\ ids' = ids + 1 /\ wiped' = wiped \cup TornEvents /\ torn' = NotTorn /\ Abort(p)
      /\ UNCHANGED <<chain, cut, calls, records, effects, overlapped>>
  BY DEF DieHealed
<1>2. /\ calls \in Nat /\ ids \in Nat /\ ids' \in Nat
      /\ crashes' \in 0..MaxCrashes /\ pc[p] # "idle"
      /\ \A i \in DOMAIN chain : chain[i].hash \in 1..ids'
  BY <1>1, BoundAssumption DEF IInv, TypeOK, Appending
<1>3. torn'.kind = "none" /\ TornEvents' = {}
  BY <1>1 DEF NotTorn, TornEvents
<1>4. /\ Logged' = Logged /\ Returned' = Returned /\ Written' = Written
      /\ Readable \subseteq Readable'
  BY <1>1, <1>3 DEF Logged, Returned, Written, Readable, TornEvents
<1>5. /\ pc' = [pc EXCEPT ![p] = "idle"] /\ job' = [job EXCEPT ![p] = NoJob]
      /\ ended' = ended \cup ({job[p].call} \ {0})
      /\ job'[p].call = 0 /\ pc'[p] = "idle"
      /\ \A q \in Proc \ {p} : pc'[q] = pc[q] /\ job'[q] = job[q]
      /\ \A q \in Proc : job'[q].call # 0 => q # p
  BY <1>1 DEF Abort, Goto, NoJob, IInv, TypeOK
<1>6. TypeOK'
  <2>1. /\ pc' \in [Proc -> PCs] /\ ended' \subseteq 1..MaxCalls
        /\ job' \in [Proc -> [call : 0..MaxCalls, action : Actions \cup {Null}, since : Nat,
                              plan : AllPlans, body : Body]]
    BY <1>1, <1>5, AbortTypes
  <2>2. QED
    BY <1>1, <1>2, <1>3, <2>1 DEF IInv, TypeOK
<1>7. Shapes'
  BY <1>1, <1>3, <1>4 DEF IInv, Shapes, TornEvents, NotTorn
<1>8. StagesFit'
  <2>1. \A body : Backed(body, Readable) => Backed(body, Readable')
    BY <1>4 DEF Backed
  <2>2. ASSUME NEW q \in Proc, q # p
        PROVE  StageFits(q)'
    BY <1>1, <1>4, <1>5, <2>1, <2>2 DEF IInv, StagesFit, StageFits
  <2>3. StageFits(p)'
    BY <1>1, <1>2, <1>5 DEF StageFits, Deciding, Acting
  <2>4. QED
    BY <2>2, <2>3 DEF StagesFit
<1>9. CallsApart' /\ DraftFits'
  BY <1>1, <1>5 DEF IInv, CallsApart, DraftFits
<1>10. HashesFit'
  <2>1. \A e \in Written : e.hash \in 1..ids /\ e.hash < ids'
    BY <1>1, <1>2 DEF IInv, HashesFit
  <2>2. wiped' \subseteq Written
    BY <1>1 DEF Written
  <2>3. QED
    BY <1>1, <1>2, <1>3, <1>4, <2>1, <2>2 DEF IInv, HashesFit
<1>11. KindsFit'
  <2>1. \A body : Backed(body, Logged \cup wiped) => Backed(body, Logged' \cup wiped')
    BY <1>1, <1>4 DEF Backed
  <2>2. QED
    BY <1>1, <1>4, <2>1 DEF IInv, KindsFit, Pending, Denied, Lost, Complete
<1>12. LiveCallsFit'
  BY <1>1, <1>4, <1>5, ProcAssumption DEF IInv, LiveCallsFit, Lost, Pending
<1>13. OncePerCall'
  BY <1>4 DEF IInv, OncePerCall, Pending, Denied, Lost
<1>14. TruncatedEnded'
  BY <1>1, <1>3, <1>5 DEF IInv, TruncatedEnded, Pending
<1>15. EffectsFit'
  <2>1. ASSUME NEW q \in Proc, pc'[q] \in {"running", "phaseB"}
        PROVE  \E f \in effects : f.call = job'[q].call
    BY <1>5, <2>1 DEF IInv, EffectsFit
  <2>2. ASSUME NEW f \in effects, NEW q \in Proc, f.call = job'[q].call
        PROVE  pc'[q] \in {"running", "phaseB"} /\ f.plan = job'[q].plan
    <3>1. f.call # 0
      BY <1>2 DEF IInv, EffectsFit
    <3>2. QED
      BY <1>5, <2>2, <3>1 DEF IInv, EffectsFit
  <2>3. QED
    BY <1>1, <1>4, <2>1, <2>2 DEF IInv, EffectsFit, Pending
<1>16. CompletionsFit'
  BY <1>1, <1>4 DEF IInv, CompletionsFit, Complete, Lost
<1>17. QED
  BY <1>6, <1>7, <1>8, <1>9, <1>10, <1>11, <1>12, <1>13, <1>14, <1>15, <1>16 DEF IInv

-----------------------------------------------------------------------------
(* The theorems *)

\* Nothing has happened yet.
LEMMA InitFits == ASSUME Init PROVE IInv
<1>1. TypeOK
  <2>1. NoPlan \in AllPlans /\ NoBody \in Body
    BY DEF NoPlan, AllPlans, NoBody, Body, Outcomes, Denials, NoRef, Null
  <2>2. MaxCalls \in Nat /\ MaxRecords \in Nat /\ MaxCrashes \in Nat
    BY BoundAssumption
  <2>3. NoJob \in [call : 0..MaxCalls, action : Actions \cup {Null}, since : Nat,
                   plan : AllPlans, body : Body]
    BY <2>1, <2>2 DEF NoJob
  <2>4. job \in [Proc -> [call : 0..MaxCalls, action : Actions \cup {Null}, since : Nat,
                          plan : AllPlans, body : Body]]
    BY <2>3 DEF Init
  <2>5. pc \in [Proc -> PCs]
    BY DEF Init, PCs
  <2>6. chain = <<>> /\ DOMAIN chain = {} /\ torn.kind = "none" /\ writer = NoProc
    BY DEF Init, NotTorn
  <2>7. /\ ids = 0 /\ calls = 0 /\ records = 0 /\ crashes = 0
        /\ effects = {} /\ ended = {} /\ wiped = {} /\ cut = {} /\ overlapped = FALSE
    BY DEF Init
  <2>8. /\ ids \in Nat /\ calls \in 0..MaxCalls
        /\ records \in 0..MaxRecords /\ crashes \in 0..MaxCrashes
        /\ ended \subseteq 1..MaxCalls
    BY <2>2, <2>7
  <2>9. \A i \in DOMAIN chain : chain[i].hash \in 1..ids /\ chain[i].body \in Body
    BY <2>6
  <2>10. torn.kind \in TornKinds \cup {"none"} /\ writer \in Proc \cup {NoProc}
    BY <2>6
  <2>11. overlapped \in BOOLEAN
    BY <2>7
  <2>12. QED
    BY <2>4, <2>5, <2>8, <2>9, <2>10, <2>11 DEF TypeOK
<1>2. Written = {} /\ chain = <<>> /\ torn.kind = "none" /\ writer = NoProc
  BY DEF Init, Written, Logged, TornEvents, NotTorn
<1>3. Shapes
  BY DEF Init, Shapes, NotTorn
<1>4. StagesFit /\ CallsApart /\ EffectsFit
  BY DEF Init, StagesFit, StageFits, CallsApart, EffectsFit, NoJob, Deciding, Acting
<1>5. HashesFit
  <2>1. wiped = {} /\ DOMAIN chain = {}
    BY <1>2 DEF Init
  <2>2. QED
    BY <1>2, <2>1 DEF HashesFit
<1>6. TruncatedEnded
  BY DEF Init, TruncatedEnded, TornEvents, NotTorn
<1>7. QED
  BY <1>1, <1>2, <1>3, <1>4, <1>5, <1>6
     DEF IInv, DraftFits, KindsFit, LiveCallsFit, OncePerCall, CompletionsFit

\* Every step of a call, and every step of its environment.
LEMMA NextKeeps == ASSUME IInv, [Next]_vars PROVE IInv'
<1>1. CASE UNCHANGED vars
  <2>1. /\ UNCHANGED <<chain, torn, writer, pc, job, ids, calls, records, crashes>>
        /\ UNCHANGED <<effects, ended, wiped, cut, overlapped>>
    BY <1>1 DEF vars
  <2>2. /\ Written' = Written /\ Logged' = Logged
        /\ Readable' = Readable /\ TornEvents' = TornEvents /\ Returned' = Returned
    BY <2>1 DEF Written, Logged, Readable, TornEvents, Returned
  <2>3. TypeOK' /\ Shapes'
    BY <2>1, <2>2 DEF IInv, TypeOK, Shapes
  <2>4. StagesFit'
    BY <2>1, <2>2 DEF IInv, StagesFit, StageFits, Backed
  <2>5. CallsApart' /\ DraftFits'
    BY <2>1 DEF IInv, CallsApart, DraftFits
  <2>6. HashesFit' /\ TruncatedEnded'
    BY <2>1, <2>2 DEF IInv, HashesFit, TruncatedEnded
  <2>7. KindsFit'
    BY <2>1, <2>2 DEF IInv, KindsFit, Backed
  <2>8. LiveCallsFit' /\ OncePerCall'
    BY <2>1, <2>2 DEF IInv, LiveCallsFit, OncePerCall
  <2>9. EffectsFit' /\ CompletionsFit'
    BY <2>1, <2>2 DEF IInv, EffectsFit, CompletionsFit
  <2>10. QED
    BY <2>3, <2>4, <2>5, <2>6, <2>7, <2>8, <2>9 DEF IInv
<1>2. ASSUME NEW p \in Proc, Run(p)
      PROVE  IInv'
  <2>1. CASE RecoveryFinds(p)
    BY <2>1, RecoveryFindsKeeps
  <2>2. CASE RecoveryNotNeeded(p)
    BY <2>2, RecoveryNotNeededKeeps
  <2>3. CASE RecoveryThrows(p)
    BY <2>3, RecoveryThrowsKeeps
  <2>4. CASE \E pl \in Plans : FailClosedNoPolicy(p, pl)
    BY <2>4, FailClosedNoPolicyKeeps
  <2>5. CASE \E pl \in Plans : BlockByPolicy(p, pl)
    BY <2>5, BlockByPolicyKeeps
  <2>6. CASE \E pl \in Plans : AskApproval(p, pl)
    BY <2>6, AskApprovalKeeps
  <2>7. CASE \E pl \in Plans : Proceed(p, pl)
    BY <2>7, ProceedKeeps
  <2>8. CASE Mediate(p)
    BY <2>8, MediateKeeps
  <2>9. CASE \E result \in {"ok", "error"} : MediateFileReturns(p, result)
    BY <2>9, ReturnsKeeps DEF MediateFileReturns
  <2>10. CASE \E kind \in TornKinds : BeginAppend(p, kind)
    BY <2>10, BeginAppendKeeps
  <2>11. CASE EndAppend(p) \/ EndShort(p)
    BY <2>11, AppendedKeeps
  <2>12. CASE AcquireTimeout(p)
    BY <2>12, AcquireTimeoutKeeps
  <2>13. QED
    BY <1>2, <2>1, <2>2, <2>3, <2>4, <2>5, <2>6, <2>7, <2>8, <2>9, <2>10, <2>11, <2>12
       DEF Run
<1>3. ASSUME NEW p \in Proc, Environment(p)
      PROVE  IInv'
  <2>1. CASE \E action \in Actions : StartExec(p, action)
    BY <2>1, StartExecKeeps
  <2>2. CASE \E pl \in Plans, result \in {"ok", "error"} : Record(p, pl, result)
    BY <2>2, RecordKeeps
  <2>3. CASE \E answer \in {"approved", "rejected"} : ObtainApproval(p, answer)
    BY <2>3, ObtainApprovalKeeps
  <2>4. CASE \E result \in {"ok", "error"} : MediateShellReturns(p, result)
    BY <2>4, ReturnsKeeps DEF MediateShellReturns
  <2>5. CASE Die(p)
    BY <2>5, DieKeeps
  <2>6. CASE DieHealed(p)
    BY <2>6, DieHealedKeeps
  <2>7. QED
    BY <1>3, <2>1, <2>2, <2>3, <2>4, <2>5, <2>6 DEF Environment
<1>4. QED
  BY <1>1, <1>2, <1>3 DEF Next

\* The conjunction of what the properties rest on holds for ever.
THEOREM Invariance == Spec => []IInv
<1>1. Init => IInv
  BY InitFits
<1>2. IInv /\ [Next]_vars => IInv'
  BY NextKeeps
<1>3. QED
  BY <1>1, <1>2, PTL DEF Spec

\* Every variable of the pipeline keeps its type.
THEOREM TypeCorrect == Spec => []TypeOK
<1>1. IInv => TypeOK
  BY DEF IInv
<1>2. QED
  BY <1>1, Invariance, PTL

\* The intent of an action, with its approval, is in the chain before the action
\* runs and for ever after, or its write came back short (runExec phase A).
THEOREM IntentsComeFirst == Spec => []IntentBeforeEffect
<1>1. IInv => IntentBeforeEffect
  BY DEF IInv, EffectsFit, IntentBeforeEffect, Returned
<1>2. QED
  BY <1>1, Invariance, PTL

\* In gate mode an action runs only if the policy allows it, a principal approved
\* it, or the operator opted out of a policy (applyConstraint, obtainApproval,
\* the fail-closed branch).
THEOREM OnlyAuthorisedActionsRun == Spec => []EffectsAuthorised
<1>1. ASSUME IInv, NEW f \in effects
      PROVE  \/ f.plan.mode = "witness"
             \/ f.plan.packs /\ f.plan.decision = "allow"
             \/ f.plan.packs /\ f.plan.decision = "require-approval" /\ f.approval = "approved"
             \/ ~f.plan.packs /\ f.plan.escape
  <2>1. f.plan \in AllPlans /\ Authorised(f.plan, f.approval)
    BY <1>1 DEF IInv, Shapes, EffectsFit
  <2>2. /\ f.plan.mode \in {"gate", "witness"}
        /\ f.plan.decision \in {"allow", "deny", "require-approval"}
    BY <2>1 DEF AllPlans
  <2>3. QED
    BY <2>1, <2>2 DEF Authorised, NoPolicyProceed, ApplyConstraint, NeedsApproval
<1>2. IInv => EffectsAuthorised
  BY <1>1 DEF EffectsAuthorised
<1>3. QED
  BY <1>2, Invariance, PTL

\* Two places of the chain never hold the same event.
LEMMA EventsOnce ==
  ASSUME IInv, NEW i \in DOMAIN chain, NEW j \in DOMAIN chain, chain[i].hash = chain[j].hash
  PROVE  i = j
<1>1. i \in Nat /\ j \in Nat /\ chain[i].hash \in Nat /\ chain[j].hash \in Nat
  BY DEF IInv, Shapes, TypeOK
<1>2. QED
  BY <1>1 DEF IInv, HashesFit

\* An event that says its action was denied is alone with its call, and the
\* action never runs.
THEOREM DenialsAreFinal == Spec => []DenialIsFinal
<1>1. ASSUME IInv, NEW i \in DOMAIN chain, Denied(chain[i])
      PROVE  /\ \A f \in effects : f.call # chain[i].body.call
             /\ \A j \in DOMAIN chain : chain[j].body.call = chain[i].body.call => j = i
  <2>1. chain[i] \in Written /\ chain[i].body.call # 0
    BY <1>1 DEF IInv, KindsFit, Written, Logged
  <2>2. ASSUME NEW e \in Written, e.body.call = chain[i].body.call, ~Lost(e)
        PROVE  e = chain[i]
    BY <1>1, <2>1, <2>2 DEF IInv, OncePerCall, Denied
  <2>3. ASSUME NEW e \in Written, e.body.call = chain[i].body.call
        PROVE  ~Pending(e) /\ ~Lost(e)
    <3>1. ~Pending(e)
      BY <1>1, <2>2, <2>3 DEF Pending, Lost, Denied
    <3>2. ASSUME Lost(e)
          PROVE  FALSE
      <4>1. Backed(e.body, Logged \cup wiped)
        BY <1>1, <3>2 DEF IInv, KindsFit
      <4>2. PICK d \in Written : Pending(d) /\ d.body.call = e.body.call
        BY <4>1 DEF Backed, Written
      <4>3. QED
        BY <1>1, <2>2, <2>3, <4>2 DEF Pending, Lost, Denied
    <3>3. QED
      BY <3>1, <3>2
  <2>4. ASSUME NEW f \in effects, f.call = chain[i].body.call
        PROVE  FALSE
    <3>1. PICK e \in Returned : Pending(e) /\ e.body.call = f.call
      BY <1>1 DEF IInv, EffectsFit
    <3>2. e \in Written
      BY <1>1 DEF Returned, Written, IInv, Shapes
    <3>3. QED
      BY <2>3, <2>4, <3>1, <3>2
  <2>5. ASSUME NEW j \in DOMAIN chain, chain[j].body.call = chain[i].body.call
        PROVE  j = i
    <3>1. chain[j] \in Written
      BY DEF Written, Logged
    <3>2. chain[j] = chain[i]
      BY <2>2, <2>3, <2>5, <3>1
    <3>3. QED
      BY <1>1, <3>2, EventsOnce
  <2>6. QED
    BY <2>4, <2>5
<1>2. IInv => DenialIsFinal
  BY <1>1 DEF DenialIsFinal
<1>3. QED
  BY <1>2, Invariance, PTL

\* What an event of the chain refers to stands before it, or was written short
\* and is truncated by now.
LEMMA BackedBefore ==
  ASSUME IInv, NEW i \in DOMAIN chain, Backed(chain[i].body, Logged)
  PROVE  \E j \in 1..(i - 1) : IntentOf(chain[i].body, chain[j])
<1>1. PICK j \in DOMAIN chain : IntentOf(chain[i].body, chain[j])
  BY DEF Backed, Logged, IntentOf
<1>2. chain[i].body.ref < chain[i].hash
  BY DEF IInv, HashesFit, Written, Logged
<1>3. /\ i \in Nat /\ j \in Nat /\ j >= 1 /\ chain[i].hash \in Nat /\ chain[j].hash \in Nat
  BY DEF IInv, Shapes, TypeOK
<1>4. j < i
  <2>1. ~(i < j) /\ i # j
    BY <1>1, <1>2, <1>3 DEF IInv, HashesFit, IntentOf
  <2>2. QED
    BY <1>3, <2>1
<1>5. QED
  BY <1>1, <1>3, <1>4

\* The line after the last newline is that of the newest event, which nothing in
\* the chain refers to.
LEMMA TornIsNews ==
  ASSUME IInv, NEW i \in DOMAIN chain, torn.kind # "none"
  PROVE  chain[i].body.ref # torn.event.hash
<1>1. chain[i].body.ref < chain[i].hash /\ chain[i].body.ref \in Nat
  <2>1. chain[i] \in Written /\ chain[i] \in Event
    BY DEF Written, Logged, IInv, Shapes
  <2>2. QED
    BY <2>1 DEF IInv, HashesFit, Event, Body
<1>2. chain[i].hash < torn.event.hash /\ chain[i].hash \in Nat /\ torn.event.hash \in Nat
  BY DEF IInv, HashesFit, TypeOK
<1>3. QED
  BY <1>1, <1>2

\* A completion refers to the one earlier intent of its call, or to one that its
\* own append truncated because its write had come back short; no other
\* completion does, and the action did run (runExec phase B).
THEOREM CompletionsAreBacked == Spec => []CompletionBacked
<1>1. ASSUME IInv, NEW i \in DOMAIN chain, Complete(chain[i])
      PROVE  /\ \/ \E j \in 1..(i - 1) : IntentOf(chain[i].body, chain[j])
                \/ \E e \in cut \cap wiped : IntentOf(chain[i].body, e)
             /\ \A j \in DOMAIN chain :
                  Complete(chain[j]) /\ chain[j].body.ref = chain[i].body.ref => j = i
             /\ \E f \in effects : f.call = chain[i].body.call
  <2>1. \A j \in DOMAIN chain : chain[j] \in Written
    BY DEF Written, Logged
  <2>2. Backed(chain[i].body, Returned) /\ chain[i].body.call # 0
    BY <1>1, <2>1 DEF IInv, KindsFit
  <2>3. Returned \subseteq Written
    BY <1>1 DEF Returned, Written, IInv, Shapes
  <2>4. ASSUME NEW j \in DOMAIN chain, Complete(chain[j]),
               chain[j].body.ref = chain[i].body.ref
        PROVE  j = i
    <3>1. PICK a \in Written : /\ a.hash = chain[i].body.ref
                               /\ a.body.call = chain[i].body.call
      BY <2>2, <2>3 DEF Backed
    <3>2. Backed(chain[j].body, Returned)
      BY <1>1, <2>1, <2>4 DEF IInv, KindsFit
    <3>3. PICK b \in Written : /\ b.hash = chain[j].body.ref
                               /\ b.body.call = chain[j].body.call
      BY <2>3, <3>2 DEF Backed
    <3>4. a = b
      BY <1>1, <2>4, <3>1, <3>3 DEF IInv, HashesFit
    <3>5. ~Pending(chain[i]) /\ ~Pending(chain[j])
      BY <1>1, <2>1, <2>4 DEF IInv, KindsFit, Complete
    <3>6. chain[j] = chain[i]
      BY <1>1, <2>1, <2>2, <2>4, <3>1, <3>3, <3>4, <3>5 DEF IInv, OncePerCall, Complete
    <3>7. QED
      BY <1>1, <3>6, EventsOnce
  <2>5. \E f \in effects : f.call = chain[i].body.call
    BY <1>1, <2>1 DEF IInv, CompletionsFit
  <2>6. ASSUME ~Backed(chain[i].body, Logged)
        PROVE  \E e \in cut \cap wiped : IntentOf(chain[i].body, e)
    <3>1. PICK e \in cut : IntentOf(chain[i].body, e)
      BY <2>2, <2>6 DEF Backed, Returned, IntentOf
    <3>2. e \notin TornEvents
      BY <1>1, <3>1, TornIsNews DEF TornEvents, IntentOf
    <3>3. QED
      BY <1>1, <3>1, <3>2 DEF IInv, Shapes
  <2>7. QED
    BY <1>1, <2>4, <2>5, <2>6, BackedBefore
<1>2. IInv => CompletionBacked
  BY <1>1 DEF CompletionBacked
<1>3. QED
  BY <1>2, Invariance, PTL

\* A lost event refers to an earlier intent of its call, or to one truncated since
\* it was read: either its action never ran, or its write had come back short
\* (runRecoveryIfNeeded).
THEOREM LossesAreBacked == Spec => []LostBacked
<1>1. ASSUME IInv, NEW i \in DOMAIN chain, Lost(chain[i])
      PROVE  \/ \E j \in 1..(i - 1) : IntentOf(chain[i].body, chain[j])
             \/ \E e \in wiped :
                  /\ IntentOf(chain[i].body, e)
                  /\ \/ e \in cut
                     \/ e.body.call \in ended /\ \A f \in effects : f.call # e.body.call
  <2>1. chain[i] \in Written
    BY DEF Written, Logged
  <2>2. Backed(chain[i].body, Logged \cup wiped) /\ chain[i].body.call # 0
    BY <1>1, <2>1 DEF IInv, KindsFit
  <2>3. CASE Backed(chain[i].body, Logged)
    BY <1>1, <2>3, BackedBefore
  <2>4. CASE ~Backed(chain[i].body, Logged)
    <3>1. PICK w \in wiped : /\ IntentOf(chain[i].body, w)
                             /\ w.body.approval = chain[i].body.approval
      BY <2>2, <2>4 DEF Backed, IntentOf
    <3>2. CASE w \in cut
      BY <3>1, <3>2
    <3>3. CASE w \notin cut
      <4>1. w.body.call \in ended
        BY <1>1, <3>1, <3>3 DEF IInv, TruncatedEnded, IntentOf
      <4>2. ASSUME NEW f \in effects, f.call = w.body.call
            PROVE  FALSE
        <5>1. PICK e \in Returned : Pending(e) /\ e.body.call = f.call
          BY <1>1 DEF IInv, EffectsFit
        <5>2. e \in Written /\ w \in Written
          BY <1>1 DEF Returned, Written, IInv, Shapes
        <5>3. e = w
          BY <1>1, <2>2, <3>1, <4>2, <5>1, <5>2
             DEF IInv, OncePerCall, Pending, Lost, IntentOf
        <5>4. QED
          BY <2>4, <3>1, <3>3, <5>1, <5>3 DEF Backed, Returned, IntentOf
      <4>3. QED
        BY <3>1, <4>1, <4>2
    <3>4. QED
      BY <3>2, <3>3
  <2>5. QED
    BY <2>3, <2>4
<1>2. IInv => LostBacked
  BY <1>1 DEF LostBacked
<1>3. QED
  BY <1>2, Invariance, PTL

\* The outcome of a completion tells how its action came to run (computeOutcome).
THEOREM OutcomesTellEnforcement == Spec => []OutcomeTellsEnforcement
<1>1. ASSUME IInv, NEW i \in DOMAIN chain, NEW f \in effects,
             Complete(chain[i]), chain[i].body.call = f.call
      PROVE  chain[i].body.outcome =
               IF ~f.plan.packs THEN "no_policy_configured"
               ELSE IF f.plan.decision = "allow" THEN "allowed_executed"
               ELSE IF f.plan.mode = "gate" THEN "approved_executed"
               ELSE "witnessed_executed"
  <2>1. chain[i] \in Written
    BY DEF Written, Logged
  <2>2. PICK g \in effects :
          /\ g.call = chain[i].body.call
          /\ chain[i].body.outcome = ComputeOutcome(g.plan, g.approval # Null)
    BY <1>1, <2>1 DEF IInv, CompletionsFit
  <2>3. f = g
    BY <1>1, <2>2 DEF IInv, EffectsFit
  <2>4. f.plan \in AllPlans /\ Authorised(f.plan, f.approval)
    BY <1>1 DEF IInv, Shapes, EffectsFit
  <2>5. /\ f.plan.mode \in {"gate", "witness"}
        /\ f.plan.decision \in {"allow", "deny", "require-approval"}
    BY <2>4 DEF AllPlans
  <2>6. QED
    BY <2>2, <2>3, <2>4, <2>5
       DEF ComputeOutcome, Authorised, NoPolicyProceed, ApplyConstraint, NeedsApproval, Null
<1>2. IInv => OutcomeTellsEnforcement
  BY <1>1 DEF OutcomeTellsEnforcement
<1>3. QED
  BY <1>2, Invariance, PTL

\* The chain is written by the end of an append alone.
LEMMA OnlyEndAppendExtends ==
  ASSUME NEW p \in Proc, Run(p) \/ Environment(p)
  PROVE  EndAppend(p) \/ UNCHANGED chain
<1>1. CASE RecoveryFinds(p) \/ RecoveryNotNeeded(p) \/ RecoveryThrows(p)
  BY <1>1 DEF RecoveryFinds, RecoveryNotNeeded, RecoveryThrows, Recovered, fileVars
<1>2. ASSUME NEW pl \in Plans,
             \/ FailClosedNoPolicy(p, pl) \/ BlockByPolicy(p, pl)
             \/ AskApproval(p, pl) \/ Proceed(p, pl)
      PROVE  UNCHANGED chain
  BY <1>2 DEF FailClosedNoPolicy, BlockByPolicy, AskApproval, Proceed, Decide, fileVars
<1>3. CASE Mediate(p)
  BY <1>3 DEF Mediate, fileVars
<1>4. ASSUME NEW result, MediateFileReturns(p, result) \/ MediateShellReturns(p, result)
      PROVE  UNCHANGED chain
  BY <1>4 DEF MediateFileReturns, MediateShellReturns, Returns, fileVars
<1>5. ASSUME NEW kind, BeginAppend(p, kind)
      PROVE  UNCHANGED chain
  BY <1>5 DEF BeginAppend
<1>6. CASE AcquireTimeout(p)
  BY <1>6 DEF AcquireTimeout, fileVars
<1>7. ASSUME NEW action, StartExec(p, action)
      PROVE  UNCHANGED chain
  BY <1>7 DEF StartExec, fileVars
<1>8. ASSUME NEW pl, NEW result, Record(p, pl, result)
      PROVE  UNCHANGED chain
  BY <1>8 DEF Record, fileVars
<1>9. ASSUME NEW answer, ObtainApproval(p, answer)
      PROVE  UNCHANGED chain
  BY <1>9 DEF ObtainApproval, fileVars
<1>10. CASE Die(p) \/ DieHealed(p) \/ EndShort(p)
  BY <1>10 DEF Die, DieHealed, EndShort
<1>11. QED
  BY <1>1, <1>2, <1>3, <1>4, <1>5, <1>6, <1>7, <1>8, <1>9, <1>10 DEF Run, Environment

\* Every change of the chain is a step of the ledger EventLog implements, whatever
\* crashes, times out or recovers.
THEOREM PipelineImplementsLedger == Spec => ImplementsLedger
<1>1. Init => Ledger!Init
  BY DEF Init, Ledger!Init
<1>2. ASSUME IInv, [Next]_vars
      PROVE  [Ledger!Extend(torn.event.hash, Null, torn.event.body)]_chain
  <2>1. CASE \E p \in Proc : EndAppend(p)
    <3>1. PICK p \in Proc : EndAppend(p)
      BY <2>1
    <3>2. /\ torn.event = Ledger!NextEvent(chain, torn.event.hash, Null, job[p].body)
          /\ torn.kind # "none" /\ writer = p
      BY <1>2, <3>1, ProcAssumption DEF IInv, DraftFits, EndAppend, Appended
    <3>3. torn.event.body = job[p].body
      BY <1>2, <3>2, WritersLine
    <3>4. Ledger!FreshHash(chain, torn.event.hash)
      <4>1. \A i \in DOMAIN chain : chain[i].hash \in Nat /\ chain[i].hash < torn.event.hash
        BY <1>2, <3>2 DEF IInv, HashesFit, TypeOK
      <4>2. QED
        BY <4>1 DEF Ledger!FreshHash
    <3>5. QED
      BY <3>1, <3>2, <3>3, <3>4 DEF EndAppend, Ledger!Extend
  <2>2. CASE UNCHANGED chain
    BY <2>2
  <2>3. (\E p \in Proc : EndAppend(p)) \/ UNCHANGED chain
    BY <1>2, OnlyEndAppendExtends DEF Next, vars
  <2>4. QED
    BY <2>1, <2>2, <2>3
<1>3. QED
  BY <1>1, <1>2, Invariance, PTL DEF Spec, ImplementsLedger

-----------------------------------------------------------------------------
(* One call at a time *)

OneAtATime == \A p, q \in Proc : pc[p] # "idle" /\ pc[q] # "idle" => p = q

\* While no two calls overlap, nothing is truncated under a recovery that reads.
AloneInv ==
  ~overlapped => /\ OneAtATime
                 /\ \A p \in Proc : pc[p] = "recover" => Overtaken(p) = {}

\* A call under way goes on, or ends, and what it reads stays.
LEMMA AloneMove ==
  ASSUME AloneInv, NEW p \in Proc, pc[p] # "idle", UNCHANGED overlapped,
         \A q \in Proc \ {p} : pc'[q] = pc[q] /\ job'[q] = job[q],
         pc'[p] # "recover"
  PROVE  AloneInv'
<1>1. SUFFICES ASSUME ~overlapped
               PROVE  OneAtATime' /\ \A q \in Proc : pc'[q] = "recover" => Overtaken(q)' = {}
  BY DEF AloneInv
<1>2. \A q \in Proc \ {p} : pc'[q] = "idle"
  BY <1>1 DEF AloneInv, OneAtATime
<1>3. QED
  BY <1>2 DEF OneAtATime

\* What begins alone finds every other process idle, and nothing truncated since.
LEMMA AloneBegins ==
  ASSUME IInv, NEW p \in Proc, NEW label, NEW j, Begin(p, label, j), UNCHANGED wiped,
         label # "recover" \/ j.since = ids
  PROVE  AloneInv'
<1>1. /\ pc' = [pc EXCEPT ![p] = label] /\ job' = [job EXCEPT ![p] = j]
      /\ pc \in [Proc -> PCs] /\ DOMAIN job = Proc /\ overlapped \in BOOLEAN
      /\ overlapped' = (overlapped \/ \E q \in Proc : pc[q] # "idle")
  BY DEF Begin, Goto, IInv, TypeOK
<1>2. pc'[p] = label /\ job'[p] = j
  BY <1>1
<1>3. SUFFICES ASSUME ~overlapped'
               PROVE  OneAtATime' /\ \A q \in Proc : pc'[q] = "recover" => Overtaken(q)' = {}
  BY DEF AloneInv
<1>4. \A q \in Proc \ {p} : pc'[q] = "idle"
  BY <1>1, <1>3
<1>5. label = "recover" => Overtaken(p)' = {}
  <2>1. SUFFICES ASSUME label = "recover", NEW e \in wiped, e.hash >= ids
                 PROVE  FALSE
    BY <1>2 DEF Overtaken
  <2>2. e.hash < ids /\ e.hash \in Nat /\ ids \in Nat
    BY DEF IInv, HashesFit, TypeOK, Shapes, Event
  <2>3. QED
    BY <2>1, <2>2
<1>6. QED
  BY <1>2, <1>4, <1>5 DEF OneAtATime

\* Every step of a call, and every step of its environment.
LEMMA AloneKeeps == ASSUME IInv, AloneInv, [Next]_vars PROVE AloneInv'
<1>1. /\ pc \in [Proc -> PCs] /\ DOMAIN job = Proc
      /\ "idle" \notin Appending /\ "recover" \notin Appending
  BY DEF IInv, TypeOK, Appending
<1>2. CASE UNCHANGED vars
  BY <1>2 DEF vars, AloneInv, OneAtATime, Overtaken
<1>3. ASSUME NEW p \in Proc, NEW action \in Actions, StartExec(p, action)
      PROVE  AloneInv'
  <2> DEFINE j == [NoJob EXCEPT !.call = calls + 1, !.action = action, !.since = ids]
  <2>1. Begin(p, "recover", j) /\ UNCHANGED wiped /\ j.since = ids
    BY <1>3 DEF StartExec, fileVars, NoJob
  <2> HIDE DEF j
  <2>2. QED
    BY <2>1, AloneBegins
<1>4. ASSUME NEW p \in Proc, NEW pl, NEW res, Record(p, pl, res)
      PROVE  AloneInv'
  <2>1. PICK j : Begin(p, "observe", j)
    BY <1>4 DEF Record
  <2>2. UNCHANGED wiped
    BY <1>4 DEF Record, fileVars
  <2>3. QED
    BY <2>1, <2>2, AloneBegins
<1>5. ASSUME NEW p \in Proc, NEW label, NEW body, label # "recover", Recovered(p, label, body)
      PROVE  AloneInv'
  BY <1>1, <1>5, AloneMove DEF Recovered, Goto
<1>6. ASSUME NEW p \in Proc,
             RecoveryThrows(p) \/ AcquireTimeout(p) \/ Die(p) \/ DieHealed(p)
      PROVE  AloneInv'
  BY <1>1, <1>6, AloneMove
     DEF RecoveryThrows, AcquireTimeout, Die, DieHealed, Abort, Goto
<1>7. ASSUME NEW p \in Proc, NEW label \in Deciding, NEW pl, NEW body, Decide(p, label, pl, body)
      PROVE  AloneInv'
  BY <1>1, <1>7, AloneMove DEF Decide, Goto, Deciding
<1>8. ASSUME NEW p \in Proc, NEW answer, ObtainApproval(p, answer)
      PROVE  AloneInv'
  BY <1>1, <1>8, AloneMove DEF ObtainApproval, Goto
<1>9. ASSUME NEW p \in Proc, Mediate(p)
      PROVE  AloneInv'
  BY <1>1, <1>9, AloneMove DEF Mediate, Goto
<1>10. ASSUME NEW p \in Proc, NEW res, MediateFileReturns(p, res) \/ MediateShellReturns(p, res)
       PROVE  AloneInv'
  BY <1>1, <1>10, AloneMove DEF MediateFileReturns, MediateShellReturns, Returns, Goto
<1>11. ASSUME NEW p \in Proc, NEW kind, BeginAppend(p, kind)
       PROVE  AloneInv'
  <2>1. pc[p] \in Appending /\ UNCHANGED <<pc, job, overlapped>>
    BY <1>11 DEF BeginAppend
  <2>2. pc[p] # "idle" /\ pc'[p] # "recover"
    BY <1>1, <2>1
  <2>3. QED
    BY <2>1, <2>2, AloneMove
<1>12. ASSUME NEW p \in Proc, EndAppend(p) \/ EndShort(p)
       PROVE  AloneInv'
  <2>1. /\ pc[p] \in Appending /\ UNCHANGED overlapped
        /\ pc' = [pc EXCEPT ![p] = AfterAppend(p)] /\ job' = [job EXCEPT ![p] = JobAfterAppend(p)]
    BY <1>12, WritersLine DEF EndAppend, EndShort, Appended, Goto
  <2>2. AfterAppend(p) # "recover" /\ pc[p] # "idle"
    BY <1>1, <2>1 DEF AfterAppend
  <2>3. QED
    BY <1>1, <2>1, <2>2, AloneMove
<1>13. ASSUME NEW p \in Proc, RecoveryFinds(p) \/ RecoveryNotNeeded(p)
       PROVE  AloneInv'
  BY <1>5, <1>13 DEF RecoveryFinds, RecoveryNotNeeded
<1>14. ASSUME NEW p \in Proc, NEW pl,
              \/ FailClosedNoPolicy(p, pl) \/ BlockByPolicy(p, pl)
              \/ AskApproval(p, pl) \/ Proceed(p, pl)
       PROVE  AloneInv'
  BY <1>7, <1>14 DEF FailClosedNoPolicy, BlockByPolicy, AskApproval, Proceed, Deciding
<1>15. QED
  BY <1>2, <1>3, <1>4, <1>6, <1>8, <1>9, <1>10, <1>11, <1>12, <1>13, <1>14
     DEF Next, Run, Environment

\* It holds from the start.
LEMMA AloneInvariance == Spec => []AloneInv
<1>1. Init => AloneInv
  BY DEF Init, AloneInv, OneAtATime
<1>2. IInv /\ AloneInv /\ [Next]_vars => AloneInv'
  BY AloneKeeps
<1>3. QED
  BY <1>1, <1>2, Invariance, PTL DEF Spec

\* The last line that a call alone reads.
LEMMA AloneReads ==
  ASSUME AloneInv, ~overlapped, NEW p \in Proc, pc[p] = "recover"
  PROVE  /\ TailsRead(p) # {} => torn.kind # "partial" /\ Lines # <<>>
         /\ TailsRead(p) \subseteq {Last(Lines)}
BY DEF AloneInv, TailsRead

-----------------------------------------------------------------------------
(* Calls one at a time *)

Serial == ~overlapped /\ records = 0

\* One of S is the sequel of the tail, if the tail is an intent.
TailResolvedBy(S) ==
  chain # <<>> /\ Pending(Last(chain)) => \E e \in S : e.body.ref = Last(chain).hash

\* Events whose lines are truncated or will be.
Truncated == wiped \cup TornEvents

\* From the decision to the end of phase A the tail is settled.  A call that
\* recovers, or has acted, brings what settles it.
StageSettled(p) ==
  /\ pc[p] # "observe"
  /\ pc[p] = "decide" \/ pc[p] \in Deciding => TailResolvedBy(Truncated)
  /\ pc[p] = "lost" \/ pc[p] \in Acting =>
       TailResolvedBy(Truncated) \/ TailResolvedBy({job[p]})

TornSettles == torn.kind # "none" => TailResolvedBy(wiped \cup {torn.event})

IntentsSettled ==
  \A i \in 1..(Len(chain) - 1) : Pending(chain[i]) =>
    \E e \in {chain[i + 1]} \cup wiped : e.body.ref = chain[i].hash

SerialInv ==
  Serial => /\ TornSettles
            /\ \A p \in Proc : StageSettled(p)
            /\ IntentsSettled

\* Nothing is written, and the one process that moves knows what it claims.
LEMMA SerialMove ==
  ASSUME SerialInv, Serial, NEW p \in Proc, UNCHANGED <<chain, torn, wiped>>,
         \A q \in Proc \ {p} : pc'[q] = pc[q] /\ job'[q] = job[q],
         StageSettled(p)'
  PROVE  SerialInv'
<1>2. TornSettles' /\ IntentsSettled'
  BY DEF SerialInv, TornSettles, IntentsSettled, TailResolvedBy, Pending
<1>3. ASSUME NEW q \in Proc, q # p
      PROVE  StageSettled(q)'
  <2>1. pc'[q] = pc[q] /\ job'[q] = job[q] /\ StageSettled(q)
    BY <1>3 DEF SerialInv
  <2>2. QED
    BY <2>1 DEF StageSettled, TailResolvedBy, Truncated, TornEvents, Pending
<1>4. QED
  BY <1>2, <1>3 DEF SerialInv

\* What is about to be written settles the tail, and what it truncates is kept
\* in mind.
LEMMA SerialBegins ==
  ASSUME IInv, SerialInv, Serial, NEW p \in Proc, NEW kind \in TornKinds, BeginAppend(p, kind)
  PROVE  SerialInv'
<1>1. /\ pc[p] \in Appending /\ torn'.kind = kind /\ kind # "none"
      /\ torn'.event.body = job[p].body
      /\ wiped' = Truncated
      /\ UNCHANGED <<chain, pc, job>>
  BY TornAssumption DEF BeginAppend, Truncated, Ledger!NextEvent
<1>2. TailResolvedBy(Truncated) \/ TailResolvedBy({job[p]})
  BY <1>1 DEF SerialInv, StageSettled, Appending, Deciding, Acting
<1>3. TornSettles'
  BY <1>1, <1>2 DEF TornSettles, TailResolvedBy, Pending
<1>4. wiped \subseteq wiped' /\ Truncated \subseteq Truncated'
  BY <1>1 DEF Truncated
<1>5. ASSUME NEW q \in Proc
      PROVE  StageSettled(q)'
  BY <1>1, <1>4 DEF SerialInv, StageSettled, TailResolvedBy, Pending
<1>6. IntentsSettled'
  BY <1>1, <1>4 DEF SerialInv, IntentsSettled, Pending
<1>7. QED
  BY <1>1, <1>3, <1>5, <1>6 DEF SerialInv

\* The line cut short is no part of the chain, but settles what it settles.
LEMMA SerialCutShort ==
  ASSUME IInv, AloneInv, SerialInv, Serial, NEW p \in Proc, EndShort(p)
  PROVE  SerialInv'
<1>1. /\ pc[p] \in Appending /\ torn.kind # "none" /\ torn.event.body = job[p].body
      /\ UNCHANGED <<chain, torn, wiped>>
      /\ pc' = [pc EXCEPT ![p] = AfterAppend(p)]
      /\ job' = [job EXCEPT ![p] = JobAfterAppend(p)]
  BY WritersLine DEF EndShort, Appended, Goto
<1>2. pc \in [Proc -> PCs] /\ DOMAIN job = Proc
  BY DEF IInv, TypeOK
<1>3. \A q \in Proc \ {p} : pc'[q] = pc[q] /\ job'[q] = job[q]
  BY <1>1, <1>2
<1>4. Truncated' = Truncated /\ torn.event \in Truncated
  BY <1>1 DEF Truncated, TornEvents
<1>5. pc[p] \in {"lost", "phaseA"} => TailResolvedBy(Truncated)
  BY <1>1, <1>4 DEF SerialInv, StageSettled, TailResolvedBy, Deciding
<1>6. pc[p] \in {"lost", "phaseA"} => TailResolvedBy(Truncated)'
  BY <1>1, <1>4, <1>5 DEF TailResolvedBy, Pending
<1>7. pc[p] \in {"lost", "phaseA"} \/ pc'[p] = "idle"
  BY <1>1, <1>2 DEF AfterAppend
<1>8. pc'[p] # "observe"
  BY <1>1, <1>2 DEF AfterAppend
<1>9. StageSettled(p)'
  BY <1>6, <1>7, <1>8 DEF StageSettled, Deciding, Acting
<1>10. QED
  BY <1>1, <1>3, <1>9, SerialMove

\* Nothing is written any more, and what is truncated is kept in mind.
LEMMA SerialHeals ==
  ASSUME IInv, AloneInv, SerialInv, Serial, NEW p \in Proc, DieHealed(p)
  PROVE  SerialInv'
<1>1. /\ pc[p] # "idle" /\ torn' = NotTorn /\ wiped' = wiped \cup TornEvents
      /\ chain' = chain /\ pc' = [pc EXCEPT ![p] = "idle"] /\ pc \in [Proc -> PCs]
  BY DEF DieHealed, Abort, Goto, Appending, IInv, TypeOK
<1>2. \A q \in Proc : pc'[q] = "idle"
  BY <1>1 DEF AloneInv, OneAtATime, Serial
<1>3. TornSettles' /\ \A q \in Proc : StageSettled(q)'
  BY <1>1, <1>2 DEF TornSettles, NotTorn, StageSettled, Deciding, Acting
<1>4. wiped \subseteq wiped'
  BY <1>1
<1>5. IntentsSettled'
  BY <1>1, <1>4 DEF SerialInv, IntentsSettled, Pending
<1>6. QED
  BY <1>3, <1>5 DEF SerialInv

\* The line completed follows what it settles; only an intent leaves the tail open.
LEMMA SerialEnds ==
  ASSUME IInv, AloneInv, SerialInv, Serial, NEW p \in Proc, EndAppend(p)
  PROVE  SerialInv'
<1>1. /\ pc[p] \in Appending /\ torn.kind # "none" /\ torn.event.body = job[p].body
      /\ chain' = Append(chain, torn.event) /\ torn' = NotTorn /\ wiped' = wiped
      /\ pc' = [pc EXCEPT ![p] = AfterAppend(p)]
      /\ job' = [job EXCEPT ![p] = JobAfterAppend(p)]
  BY WritersLine DEF EndAppend, Appended, Goto
<1>2. /\ chain \in Seq(Event) /\ torn.event \in Event /\ Len(chain) \in Nat
      /\ pc \in [Proc -> PCs] /\ DOMAIN job = Proc /\ DOMAIN job[p] = DOMAIN NoJob
      /\ DOMAIN job[p].body = DOMAIN NoBody
  BY <1>1 DEF IInv, Shapes, TypeOK, NoJob, NoBody, Body
<1>3. /\ chain' \in Seq(Event) /\ Len(chain') = Len(chain) + 1 /\ chain' # <<>>
      /\ Last(chain') = torn.event
      /\ \A i \in 1..Len(chain) : chain'[i] = chain[i]
      /\ chain'[Len(chain) + 1] = torn.event
  BY <1>1, <1>2 DEF Last
<1>4. TornSettles'
  BY <1>1 DEF TornSettles, NotTorn
<1>5. ASSUME NEW q \in Proc, q # p
      PROVE  StageSettled(q)' /\ pc'[q] = "idle"
  <2>1. pc[q] = "idle"
    BY <1>1, <1>5 DEF AloneInv, OneAtATime, Serial, Appending
  <2>2. pc'[q] = "idle"
    BY <1>1, <1>2, <1>5, <2>1
  <2>3. QED
    BY <2>2 DEF StageSettled, Deciding, Acting
<1>6. StageSettled(p)'
  <2>1. CASE pc[p] = "lost"
    <3>1. ~Pending(torn.event) /\ pc'[p] = "decide"
      BY <1>1, <1>2, <2>1 DEF IInv, StagesFit, StageFits, Pending, AfterAppend
    <3>2. TailResolvedBy(Truncated)'
      BY <1>3, <3>1 DEF TailResolvedBy, Pending
    <3>3. QED
      BY <3>1, <3>2 DEF StageSettled, Acting
  <2>2. CASE pc[p] = "phaseA"
    <3>1. pc'[p] = "mediate" /\ job'[p].body.ref = torn.event.hash
      BY <1>1, <1>2, <2>2 DEF AfterAppend, JobAfterAppend, NoBody, NoJob
    <3>2. TailResolvedBy({job[p]})'
      BY <1>3, <3>1 DEF TailResolvedBy
    <3>3. QED
      BY <3>1, <3>2 DEF StageSettled, Deciding
  <2>3. CASE pc[p] \notin {"lost", "phaseA"}
    <3>1. pc'[p] = "idle"
      BY <1>1, <1>2, <2>3 DEF AfterAppend
    <3>2. QED
      BY <3>1 DEF StageSettled, Deciding, Acting
  <2>4. QED
    BY <2>1, <2>2, <2>3
<1>7. IntentsSettled'
  <2>1. SUFFICES ASSUME NEW i \in 1..Len(chain), Pending(chain[i])
                 PROVE  \E e \in {chain'[i + 1]} \cup wiped : e.body.ref = chain[i].hash
    BY <1>1, <1>3 DEF IntentsSettled, Pending
  <2>2. CASE i = Len(chain)
    <3>1. chain # <<>> /\ Last(chain) = chain[i]
      BY <1>2, <2>2 DEF Last
    <3>2. TailResolvedBy(wiped \cup {torn.event})
      BY <1>1 DEF SerialInv, TornSettles
    <3>3. QED
      BY <1>3, <2>1, <2>2, <3>1, <3>2 DEF TailResolvedBy
  <2>3. CASE i # Len(chain)
    <3>1. i \in 1..(Len(chain) - 1) /\ i + 1 \in 1..Len(chain)
      BY <1>2, <2>3
    <3>2. QED
      BY <1>3, <2>1, <3>1 DEF SerialInv, IntentsSettled
  <2>4. QED
    BY <2>2, <2>3
<1>8. QED
  BY <1>4, <1>5, <1>6, <1>7 DEF SerialInv

\* Recovery looks at the last line there is, which is the tail or what will be
\* truncated for want of a newline.
LEMMA SerialRecovers ==
  ASSUME IInv, AloneInv, SerialInv, Serial, NEW p \in Proc,
         RecoveryFinds(p) \/ RecoveryNotNeeded(p)
  PROVE  SerialInv'
<1>1. /\ pc[p] = "recover" /\ pc \in [Proc -> PCs]
      /\ chain \in Seq(Event) /\ DOMAIN job = Proc
      /\ job[p] \in [call : 0..MaxCalls, action : Actions \cup {Null}, since : Nat,
                     plan : AllPlans, body : Body]
      /\ UNCHANGED <<chain, torn, wiped>>
  BY DEF RecoveryFinds, RecoveryNotNeeded, Recovered, IInv, Shapes, TypeOK, fileVars
<1>2. /\ TailsRead(p) # {} => torn.kind # "partial" /\ Lines # <<>>
      /\ TailsRead(p) \subseteq {Last(Lines)}
  BY <1>1, AloneReads DEF Serial
<1>3. torn.kind # "none" => TailResolvedBy(Truncated)
  BY DEF SerialInv, TornSettles, Truncated, TornEvents
<1>4. torn.kind = "none" => Lines = chain
  BY DEF Lines
<1>5. Truncated' = Truncated
  BY <1>1 DEF Truncated, TornEvents
<1>6. torn.kind # "none" => TailResolvedBy(Truncated)'
  BY <1>1, <1>3, <1>5 DEF TailResolvedBy, Pending
<1>7. CASE RecoveryFinds(p)
  <2>1. PICK e \in TailsRead(p) : Recovered(p, "lost", LostBody(e))
    BY <1>7 DEF RecoveryFinds
  <2>2. e = Last(Lines) /\ Lines # <<>>
    BY <1>2, <2>1
  <2>3. /\ job' = [job EXCEPT ![p].since = 0, ![p].body = LostBody(e)]
        /\ pc' = [pc EXCEPT ![p] = "lost"]
    BY <2>1 DEF Recovered, Goto
  <2>4. /\ pc'[p] = "lost" /\ job'[p].body = LostBody(e)
        /\ \A q \in Proc \ {p} : pc'[q] = pc[q] /\ job'[q] = job[q]
    BY <1>1, <2>3
  <2>5. torn.kind = "none" => TailResolvedBy({job[p]})'
    <3>1. SUFFICES ASSUME torn.kind = "none", chain # <<>>
                   PROVE  job'[p].body.ref = Last(chain).hash
      BY <1>1 DEF TailResolvedBy
    <3>2. e = Last(chain) /\ e \in Event
      BY <1>1, <1>4, <2>2, <3>1 DEF Last
    <3>3. LostBody(e).ref = e.hash
      BY <3>2 DEF LostBody, Body, Event
    <3>4. QED
      BY <2>4, <3>2, <3>3
  <2>6. StageSettled(p)'
    BY <1>6, <2>4, <2>5 DEF StageSettled, Deciding
  <2>7. QED
    BY <1>1, <2>4, <2>6, SerialMove
<1>8. CASE RecoveryNotNeeded(p)
  <2>1. /\ pc' = [pc EXCEPT ![p] = "decide"]
        /\ job' = [job EXCEPT ![p].since = 0, ![p].body = NoBody]
    BY <1>8 DEF RecoveryNotNeeded, Recovered, Goto
  <2>2. pc'[p] = "decide" /\ \A q \in Proc \ {p} : pc'[q] = pc[q] /\ job'[q] = job[q]
    BY <1>1, <2>1
  <2>3. torn.kind = "none" => chain = <<>> \/ ~Pending(Last(chain))
    BY <1>2, <1>4, <1>8 DEF RecoveryNotNeeded
  <2>4. torn.kind = "none" => TailResolvedBy(Truncated)'
    BY <1>1, <2>3 DEF TailResolvedBy, Pending
  <2>5. StageSettled(p)'
    BY <1>6, <2>2, <2>4 DEF StageSettled, Acting
  <2>6. QED
    BY <1>1, <2>2, <2>5, SerialMove
<1>9. QED
  BY <1>7, <1>8

\* Whatever a process does without the file between two appends, it still knows
\* of the tail what it knew.
LEMMA SerialGoesOn ==
  ASSUME SerialInv, Serial, NEW p \in Proc, UNCHANGED <<chain, torn, wiped>>,
         \A q \in Proc \ {p} : pc'[q] = pc[q] /\ job'[q] = job[q],
         pc[p] # "idle",
         \/ pc'[p] = "idle"
         \/ pc[p] \in {"decide"} \cup Deciding /\ pc'[p] \in Deciding
         \/ /\ pc[p] \in Acting /\ pc'[p] \in Acting
            /\ job'[p].body.ref = job[p].body.ref
  PROVE  SerialInv'
<1>1. StageSettled(p)
  BY DEF SerialInv
<1>2. Truncated' = Truncated
  BY DEF Truncated, TornEvents
<1>3. CASE pc'[p] = "idle"
  BY <1>3, SerialMove DEF StageSettled, Deciding, Acting
<1>4. CASE pc[p] \in {"decide"} \cup Deciding /\ pc'[p] \in Deciding
  <2>1. TailResolvedBy(Truncated)'
    BY <1>1, <1>2, <1>4 DEF StageSettled, TailResolvedBy, Pending
  <2>2. StageSettled(p)'
    BY <1>4, <2>1 DEF StageSettled, Deciding, Acting
  <2>3. QED
    BY <2>2, SerialMove
<1>5. CASE /\ pc[p] \in Acting /\ pc'[p] \in Acting
           /\ job'[p].body.ref = job[p].body.ref
  <2>1. TailResolvedBy(Truncated)' \/ TailResolvedBy({job[p]})'
    BY <1>1, <1>2, <1>5 DEF StageSettled, TailResolvedBy, Pending
  <2>2. StageSettled(p)'
    BY <1>5, <2>1 DEF StageSettled, Deciding, Acting
  <2>3. QED
    BY <2>2, SerialMove
<1>6. QED
  BY <1>3, <1>4, <1>5

\* Calls stay serial only if each begins when no other is under way.
LEMMA SerialStarts ==
  ASSUME IInv, SerialInv, Serial', NEW p \in Proc, NEW action \in Actions,
         StartExec(p, action)
  PROVE  SerialInv'
<1>1. /\ pc[p] = "idle" /\ pc' = [pc EXCEPT ![p] = "recover"]
      /\ job' = [job EXCEPT ![p] = [NoJob EXCEPT !.call = calls + 1, !.action = action,
                                                !.since = ids]]
      /\ UNCHANGED <<chain, torn, wiped, records>> /\ pc \in [Proc -> PCs] /\ DOMAIN job = Proc
      /\ overlapped' = (overlapped \/ \E q \in Proc : pc[q] # "idle")
  BY DEF StartExec, Begin, Goto, fileVars, IInv, TypeOK
<1>2. Serial /\ \A q \in Proc : pc[q] = "idle"
  BY <1>1 DEF Serial
<1>3. \A q \in Proc \ {p} : pc'[q] = pc[q] /\ job'[q] = job[q]
  BY <1>1
<1>4. pc'[p] = "recover"
  BY <1>1
<1>5. StageSettled(p)'
  BY <1>4 DEF StageSettled, Deciding, Acting
<1>6. QED
  BY <1>1, <1>2, <1>3, <1>5, SerialMove

\* The invariant of serial use is kept by every step.
LEMMA SerialKeeps == ASSUME IInv, AloneInv, SerialInv, [Next]_vars PROVE SerialInv'
<1>1. /\ pc \in [Proc -> PCs] /\ records \in Nat /\ overlapped \in BOOLEAN
      /\ \A p \in Proc : job[p].body \in Body
      /\ job \in [Proc -> [call : 0..MaxCalls, action : Actions \cup {Null}, since : Nat,
                           plan : AllPlans, body : Body]]
  BY BoundAssumption DEF IInv, TypeOK
<1>2. SUFFICES ASSUME Serial'
               PROVE  SerialInv'
  BY DEF SerialInv
<1>3. CASE UNCHANGED vars
  BY <1>3 DEF vars, SerialInv, Serial, TornSettles, StageSettled, IntentsSettled,
              TailResolvedBy, Truncated, TornEvents, Pending
<1>4. ASSUME NEW p \in Proc, NEW action \in Actions, StartExec(p, action)
      PROVE  SerialInv'
  BY <1>2, <1>4, SerialStarts
<1>5. ASSUME NEW p \in Proc, NEW pl, NEW res, Record(p, pl, res)
      PROVE  SerialInv'
  <2>1. records' # 0
    BY <1>1, <1>5 DEF Record
  <2>2. QED
    BY <1>2, <2>1 DEF Serial
<1>6. ASSUME NEW p \in Proc, RecoveryFinds(p) \/ RecoveryNotNeeded(p)
      PROVE  SerialInv'
  <2>1. Serial
    BY <1>2, <1>6 DEF RecoveryFinds, RecoveryNotNeeded, Recovered, Serial
  <2>2. QED
    BY <1>6, <2>1, SerialRecovers
<1>7. ASSUME NEW p \in Proc, RecoveryThrows(p) \/ AcquireTimeout(p) \/ Die(p)
      PROVE  SerialInv'
  <2>1. /\ Serial /\ UNCHANGED <<chain, torn, wiped>> /\ pc[p] # "idle"
        /\ pc' = [pc EXCEPT ![p] = "idle"] /\ job' = [job EXCEPT ![p] = NoJob]
    BY <1>2, <1>7 DEF RecoveryThrows, AcquireTimeout, Die, Abort, Goto, Serial, fileVars, Appending
  <2>2. pc'[p] = "idle" /\ \A q \in Proc \ {p} : pc'[q] = pc[q] /\ job'[q] = job[q]
    BY <1>1, <2>1
  <2>3. QED
    BY <2>1, <2>2, SerialGoesOn
<1>8. ASSUME NEW p \in Proc, NEW pl,
             \/ FailClosedNoPolicy(p, pl) \/ BlockByPolicy(p, pl)
             \/ AskApproval(p, pl) \/ Proceed(p, pl)
      PROVE  SerialInv'
  <2>1. PICK label, body : label \in Deciding /\ Decide(p, label, pl, body)
    BY <1>8 DEF FailClosedNoPolicy, BlockByPolicy, AskApproval, Proceed, Deciding
  <2>2. /\ Serial /\ UNCHANGED <<chain, torn, wiped>> /\ pc[p] = "decide" /\ pc'[p] \in Deciding
        /\ \A q \in Proc \ {p} : pc'[q] = pc[q] /\ job'[q] = job[q]
    BY <1>1, <1>2, <2>1 DEF Decide, Goto, Serial, fileVars
  <2>3. QED
    BY <2>2, SerialGoesOn
<1>9. ASSUME NEW p \in Proc, NEW answer, ObtainApproval(p, answer)
      PROVE  SerialInv'
  <2>1. /\ Serial /\ UNCHANGED <<chain, torn, wiped>> /\ pc[p] = "approval" /\ pc'[p] \in Deciding
        /\ \A q \in Proc \ {p} : pc'[q] = pc[q] /\ job'[q] = job[q]
    BY <1>1, <1>2, <1>9 DEF ObtainApproval, Goto, Serial, fileVars, Deciding
  <2>2. QED
    BY <2>1, SerialGoesOn DEF Deciding
<1>10. ASSUME NEW p \in Proc, Mediate(p)
       PROVE  SerialInv'
  <2>1. /\ Serial /\ UNCHANGED <<chain, torn, wiped>> /\ pc[p] = "mediate" /\ pc'[p] = "running"
        /\ job' = job /\ \A q \in Proc \ {p} : pc'[q] = pc[q]
    BY <1>1, <1>2, <1>10 DEF Mediate, Goto, Serial, fileVars
  <2>2. QED
    BY <2>1, SerialGoesOn DEF Acting
<1>11. ASSUME NEW p \in Proc, NEW res, MediateFileReturns(p, res) \/ MediateShellReturns(p, res)
       PROVE  SerialInv'
  <2>1. /\ Serial /\ UNCHANGED <<chain, torn, wiped>> /\ pc[p] = "running" /\ pc'[p] = "phaseB"
        /\ \A q \in Proc \ {p} : pc'[q] = pc[q] /\ job'[q] = job[q]
    BY <1>1, <1>2, <1>11 DEF MediateFileReturns, MediateShellReturns, Returns, Goto, Serial, fileVars
  <2>2. job'[p].body.ref = job[p].body.ref
    BY <1>1, <1>11 DEF MediateFileReturns, MediateShellReturns, Returns, Body
  <2>3. QED
    BY <2>1, <2>2, SerialGoesOn DEF Acting
<1>12. ASSUME NEW p \in Proc, NEW kind \in TornKinds, BeginAppend(p, kind)
       PROVE  SerialInv'
  <2>1. Serial
    BY <1>2, <1>12 DEF BeginAppend, Serial
  <2>2. QED
    BY <1>12, <2>1, SerialBegins
<1>13. ASSUME NEW p \in Proc, EndAppend(p)
       PROVE  SerialInv'
  <2>1. Serial
    BY <1>2, <1>13 DEF EndAppend, Appended, Serial
  <2>2. QED
    BY <1>13, <2>1, SerialEnds
<1>14. ASSUME NEW p \in Proc, EndShort(p)
       PROVE  SerialInv'
  <2>1. Serial
    BY <1>2, <1>14 DEF EndShort, Appended, Serial
  <2>2. QED
    BY <1>14, <2>1, SerialCutShort
<1>15. ASSUME NEW p \in Proc, DieHealed(p)
       PROVE  SerialInv'
  <2>1. Serial
    BY <1>2, <1>15 DEF DieHealed, Serial
  <2>2. QED
    BY <1>15, <2>1, SerialHeals
<1>16. QED
  BY <1>3, <1>4, <1>5, <1>6, <1>7, <1>8, <1>9, <1>10, <1>11, <1>12, <1>13, <1>14, <1>15
     DEF Next, Run, Environment

\* It holds from the start.
LEMMA SerialInvariance == Spec => []SerialInv
<1>1. Init => SerialInv
  BY DEF Init, SerialInv, TornSettles, StageSettled, IntentsSettled, NotTorn,
         TailResolvedBy, Deciding, Acting
<1>2. IInv /\ AloneInv /\ SerialInv /\ [Next]_vars => SerialInv'
  BY SerialKeeps
<1>3. QED
  BY <1>1, <1>2, Invariance, AloneInvariance, PTL DEF Spec

\* Used one call at a time, with no events but exec's: whatever crashes and
\* whatever bytes it leaves, the event after an intent is its completion or says
\* that it was lost (runRecoveryIfNeeded, runExec).
THEOREM SerialCallsArePaired == Spec => []SerialCallsPairUp
<1>1. SerialInv => SerialCallsPairUp
  BY DEF SerialInv, Serial, IntentsSettled, SerialCallsPairUp
<1>2. QED
  BY <1>1, SerialInvariance, PTL

\* A call that gets to its decision, used one at a time, has no intent before it
\* without a sequel, be it one whose line was seen but never finished
\* (runRecoveryIfNeeded).
THEOREM SerialCallsRecover ==
  Spec => [](Serial => \A p \in Proc : pc[p] = "decide" =>
               \A i \in DOMAIN chain : Pending(chain[i]) =>
                 \E e \in Logged \cup Truncated : e.body.ref = chain[i].hash)
<1>1. ASSUME IInv, SerialInv, Serial, NEW p \in Proc, pc[p] = "decide",
             NEW i \in DOMAIN chain, Pending(chain[i])
      PROVE  \E e \in Logged \cup Truncated : e.body.ref = chain[i].hash
  <2>1. DOMAIN chain = 1..Len(chain) /\ Len(chain) \in Nat /\ chain # <<>>
    BY <1>1 DEF IInv, Shapes
  <2>2. CASE i = Len(chain)
    <3>1. Last(chain) = chain[i]
      BY <2>2 DEF Last
    <3>2. TailResolvedBy(Truncated)
      BY <1>1 DEF SerialInv, StageSettled
    <3>3. QED
      BY <1>1, <2>1, <3>1, <3>2 DEF TailResolvedBy
  <2>3. CASE i # Len(chain)
    <3>1. i \in 1..(Len(chain) - 1) /\ i + 1 \in DOMAIN chain
      BY <2>1, <2>3
    <3>2. PICK e \in {chain[i + 1]} \cup wiped : e.body.ref = chain[i].hash
      BY <1>1, <3>1 DEF SerialInv, IntentsSettled
    <3>3. e \in Logged \cup Truncated
      BY <3>1 DEF Logged, Truncated
    <3>4. QED
      BY <3>2, <3>3
  <2>4. QED
    BY <2>2, <2>3
<1>2. IInv /\ SerialInv =>
        (Serial => \A p \in Proc : pc[p] = "decide" =>
           \A i \in DOMAIN chain : Pending(chain[i]) =>
             \E e \in Logged \cup Truncated : e.body.ref = chain[i].hash)
  BY <1>1
<1>3. QED
  BY <1>2, Invariance, SerialInvariance, PTL

-----------------------------------------------------------------------------
(* Losses, while no two calls overlap *)

\* The call died or rejected, or its result was cut short.
BrokenOff(c) == c \in ended \/ \E e \in cut : Complete(e) /\ e.body.call = c

Known(c) == BrokenOff(c) \/ \E p \in Proc : pc[p] \in Acting /\ job[p].call = c

LostMeansBroken == \A i \in DOMAIN chain : Lost(chain[i]) => BrokenOff(chain[i].body.call)

\* An intent at the tail, or one cut short after it, is that of a call that broke
\* off or is acting on it.
OpenTailIsKnown ==
  /\ chain # <<>> /\ Pending(Last(chain)) => Known(Last(chain).body.call)
  /\ \A e \in TornEvents \cap cut : Pending(e) => Known(e.body.call)

\* The loss a call is about to record is news, and of a call that broke off.
LossKnown(p) ==
  pc[p] = "lost" =>
    /\ BrokenOff(job[p].body.call)
    /\ \A i \in DOMAIN chain : Lost(chain[i]) => chain[i].body.ref # job[p].body.ref

LossInv ==
  /\ OpenTailIsKnown
  /\ ~overlapped => /\ OneLostPerIntent
                    /\ LostMeansBroken
                    /\ \A p \in Proc : LossKnown(p)

\* What is known of a call stays known: it goes on acting, or breaks off.
LEMMA KnownStays ==
  ASSUME NEW c, Known(c), NEW p \in Proc, ended \subseteq ended', cut \subseteq cut',
         \A q \in Proc \ {p} : pc'[q] = pc[q] /\ job'[q] = job[q],
         pc[p] \in Acting /\ job[p].call = c =>
           (pc'[p] \in Acting /\ job'[p].call = job[p].call) \/ BrokenOff(c)'
  PROVE  Known(c)'
<1>1. ASSUME BrokenOff(c)
      PROVE  Known(c)'
  <2>1. BrokenOff(c)'
    BY <1>1 DEF BrokenOff, Complete, Lost
  <2>2. QED
    BY <2>1 DEF Known
<1>2. ASSUME NEW q \in Proc, pc[q] \in Acting, job[q].call = c
      PROVE  Known(c)'
  <2>1. (pc'[q] \in Acting /\ job'[q].call = c) \/ BrokenOff(c)'
    BY <1>2
  <2>2. QED
    BY <2>1 DEF Known
<1>3. QED
  BY <1>1, <1>2 DEF Known

\* A call that leaves the chain alone, and takes up no loss, spoils nothing as
\* long as it goes on acting or ends, and nothing new is cut short.
LEMMA LossQuiet ==
  ASSUME LossInv, NEW p \in Proc, UNCHANGED <<chain, cut, overlapped>>, ended \subseteq ended',
         torn' = torn \/ TornEvents' \cap cut = {},
         \A q \in Proc \ {p} : pc'[q] = pc[q] /\ job'[q] = job[q],
         pc'[p] # "lost" \/ (pc[p] = "lost" /\ job'[p] = job[p]),
         \/ pc[p] \notin Acting
         \/ pc'[p] \in Acting /\ job'[p].call = job[p].call
         \/ job[p].call \in ended'
  PROVE  LossInv'
<1>1. ASSUME NEW c, Known(c)
      PROVE  Known(c)'
  <2>1. c \in ended' => BrokenOff(c)'
    BY DEF BrokenOff
  <2>2. QED
    BY <1>1, <2>1, KnownStays
<1>2. \A c : BrokenOff(c) => BrokenOff(c)'
  BY DEF BrokenOff, Complete, Lost
<1>3. OpenTailIsKnown'
  <2>1. TornEvents' \cap cut \subseteq TornEvents \cap cut
    BY DEF TornEvents
  <2>2. \A d : Known(d) => Known(d)'
    BY <1>1
  <2>3. QED
    BY <2>1, <2>2 DEF LossInv, OpenTailIsKnown, Pending
<1>4. ASSUME ~overlapped
      PROVE  OneLostPerIntent' /\ LostMeansBroken' /\ \A q \in Proc : LossKnown(q)'
  <2>1. OneLostPerIntent' /\ LostMeansBroken'
    BY <1>2, <1>4 DEF LossInv, OneLostPerIntent, LostMeansBroken, Lost
  <2>2. ASSUME NEW q \in Proc
        PROVE  LossKnown(q)'
    <3>1. LossKnown(q)
      BY <1>4 DEF LossInv
    <3>2. pc'[q] = "lost" => pc[q] = "lost" /\ job'[q] = job[q]
      BY <2>2
    <3>3. QED
      BY <1>2, <3>1, <3>2 DEF LossKnown, Lost
  <2>3. QED
    BY <2>1, <2>2
<1>5. QED
  BY <1>3, <1>4 DEF LossInv

\* What begins alone finds every other process idle.
LEMMA LossBegins ==
  ASSUME IInv, LossInv, NEW p \in Proc, NEW label \in {"recover", "observe"}, NEW j,
         Begin(p, label, j), UNCHANGED <<chain, torn, cut, ended>>
  PROVE  LossInv'
<1>1. /\ pc[p] = "idle" /\ pc' = [pc EXCEPT ![p] = label] /\ job' = [job EXCEPT ![p] = j]
      /\ pc \in [Proc -> PCs] /\ DOMAIN job = Proc /\ overlapped \in BOOLEAN
      /\ overlapped' = (overlapped \/ \E q \in Proc : pc[q] # "idle")
  BY DEF Begin, Goto, IInv, TypeOK
<1>2. \A q \in Proc \ {p} : pc'[q] = pc[q] /\ job'[q] = job[q]
  BY <1>1
<1>3. pc'[p] = label /\ label # "lost" /\ pc[p] \notin Acting
  BY <1>1 DEF Acting
<1>4. \A c : Known(c) => Known(c)'
  BY <1>2, <1>3, KnownStays
<1>5. OpenTailIsKnown'
  BY <1>4 DEF LossInv, OpenTailIsKnown, Pending, TornEvents
<1>6. ASSUME ~overlapped'
      PROVE  OneLostPerIntent' /\ LostMeansBroken' /\ \A q \in Proc : LossKnown(q)'
  <2>1. ~overlapped /\ \A q \in Proc : pc[q] = "idle"
    BY <1>1, <1>6
  <2>2. OneLostPerIntent' /\ LostMeansBroken'
    BY <2>1 DEF LossInv, OneLostPerIntent, LostMeansBroken, BrokenOff, Complete, Lost
  <2>3. \A q \in Proc : pc'[q] # "lost"
    BY <1>2, <1>3, <2>1
  <2>4. QED
    BY <2>2, <2>3 DEF LossKnown
<1>7. QED
  BY <1>5, <1>6 DEF LossInv

\* What a call alone takes for lost is, and nobody has recorded it.
LEMMA LossFound ==
  ASSUME IInv, AloneInv, LossInv, NEW p \in Proc, RecoveryFinds(p)
  PROVE  LossInv'
<1>1. PICK e \in TailsRead(p) : Pending(e) /\ Recovered(p, "lost", LostBody(e))
  BY DEF RecoveryFinds
<1>2. e \in Readable /\ e \in Written /\ e \in Event
  BY <1>1, TailsKnown DEF Readable, Written, Logged, TornEvents, IInv, Shapes
<1>3. LostBody(e) \in Body /\ LostBody(e).ref = e.hash /\ LostBody(e).call = e.body.call
  BY <1>2 DEF Event, Body, LostBody, Outcomes
<1>4. "lost" \in PCs
  BY DEF PCs, Appending
<1>5. /\ pc[p] = "recover" /\ pc'[p] = "lost" /\ job'[p].body = LostBody(e)
      /\ \A q \in Proc \ {p} : pc'[q] = pc[q] /\ job'[q] = job[q]
      /\ UNCHANGED <<chain, torn, cut, ended, overlapped>>
  BY <1>1, <1>3, <1>4, RecoveredTypes
<1>6. \A c : Known(c) => Known(c)'
  BY <1>5, KnownStays DEF Acting
<1>7. OpenTailIsKnown'
  BY <1>5, <1>6 DEF LossInv, OpenTailIsKnown, Pending, TornEvents
<1>8. /\ chain \in Seq(Event) /\ torn.kind \in {"none", "partial", "whole"}
      /\ DOMAIN chain = 1..Len(chain) /\ Len(chain) \in Nat
  BY DEF IInv, Shapes
<1>9. ASSUME ~overlapped
      PROVE  BrokenOff(e.body.call)' /\ \A i \in DOMAIN chain : chain[i].body.ref # e.hash
  <2>1. torn.kind # "partial" /\ Lines # <<>> /\ e = Last(Lines)
    BY <1>1, <1>5, <1>9, AloneReads
  <2>2. torn.kind = "whole" => e = torn.event /\ e \in TornEvents
    BY <1>8, <2>1 DEF Lines, Last, TornEvents
  <2>3. torn.kind # "whole" => chain # <<>> /\ e = Last(chain)
    BY <2>1 DEF Lines
  <2>4. \A q \in Proc : pc[q] # "idle" => q = p
    BY <1>5, <1>9 DEF AloneInv, OneAtATime
  <2>5. \A q \in Proc : pc[q] \notin Acting
    BY <1>5, <2>4 DEF Acting
  <2>6. Known(e.body.call) => BrokenOff(e.body.call)'
    BY <1>5, <2>5 DEF Known, BrokenOff, Complete, Lost
  <2>7. torn.kind # "whole" => Known(e.body.call)
    BY <1>1, <2>3 DEF LossInv, OpenTailIsKnown
  <2>8. torn.kind = "whole" /\ e \in cut => Known(e.body.call)
    BY <1>1, <2>2 DEF LossInv, OpenTailIsKnown
  <2>9. torn.kind = "whole" /\ e \notin cut => Known(e.body.call)
    <3>1. writer = NoProc
      BY <1>5, <2>4 DEF IInv, DraftFits, Appending
    <3>2. QED
      BY <1>1, <2>2, <3>1 DEF IInv, TruncatedEnded, Known, BrokenOff
  <2>10. ASSUME NEW i \in DOMAIN chain
         PROVE  chain[i].body.ref # e.hash
    <3>1. chain[i] \in Written /\ chain[i] \in Event
      BY <1>8 DEF Written, Logged
    <3>2. chain[i].body.ref < chain[i].hash
      BY <3>1 DEF IInv, HashesFit
    <3>3. torn.kind = "whole" => chain[i].hash < e.hash
      BY <2>2 DEF IInv, HashesFit
    <3>4. torn.kind # "whole" => chain[i].hash <= e.hash
      <4>1. SUFFICES ASSUME torn.kind # "whole"
                     PROVE  chain[i].hash <= e.hash
        OBVIOUS
      <4>2. e = chain[Len(chain)] /\ Len(chain) \in DOMAIN chain
        BY <1>8, <2>3, <4>1 DEF Last
      <4>3. i = Len(chain) \/ i < Len(chain)
        BY <1>8
      <4>4. i < Len(chain) => chain[i].hash < chain[Len(chain)].hash
        BY <4>2 DEF IInv, HashesFit
      <4>5. chain[i].hash \in Nat
        BY <3>1 DEF Event
      <4>6. QED
        BY <1>2, <4>2, <4>3, <4>4, <4>5 DEF Event
    <3>5. chain[i].body.ref \in Nat /\ chain[i].hash \in Nat /\ e.hash \in Nat
      BY <1>2, <3>1 DEF Event, Body
    <3>6. QED
      BY <3>2, <3>3, <3>4, <3>5
  <2>11. BrokenOff(e.body.call)'
    BY <2>6, <2>7, <2>8, <2>9
  <2>12. QED
    BY <2>10, <2>11
<1>10. ASSUME ~overlapped
       PROVE  OneLostPerIntent' /\ LostMeansBroken' /\ \A q \in Proc : LossKnown(q)'
  <2>1. \A q \in Proc \ {p} : pc'[q] = "idle"
    BY <1>5, <1>10 DEF AloneInv, OneAtATime
  <2>2. OneLostPerIntent' /\ LostMeansBroken'
    BY <1>5, <1>10 DEF LossInv, OneLostPerIntent, LostMeansBroken, BrokenOff, Complete, Lost
  <2>3. LossKnown(p)'
    BY <1>3, <1>5, <1>9, <1>10 DEF LossKnown
  <2>4. QED
    BY <2>1, <2>2, <2>3 DEF LossKnown
<1>11. QED
  BY <1>5, <1>7, <1>10 DEF LossInv

\* Of the events that get into the chain only one of recovery says lost.
LEMMA LossWritten ==
  ASSUME IInv, AloneInv, LossInv, NEW p \in Proc, EndAppend(p)
  PROVE  LossInv'
<1>1. /\ pc[p] \in Appending /\ torn.kind # "none" /\ torn.event.body = job[p].body
      /\ chain' = Append(chain, torn.event) /\ torn' = NotTorn
      /\ pc' = [pc EXCEPT ![p] = AfterAppend(p)]
      /\ job' = [job EXCEPT ![p] = JobAfterAppend(p)]
      /\ UNCHANGED <<cut, ended, overlapped>>
  BY WritersLine DEF EndAppend, Appended, Goto
<1>2. /\ pc \in [Proc -> PCs] /\ chain \in Seq(Event) /\ torn.event \in Event
      /\ job \in [Proc -> [call : 0..MaxCalls, action : Actions \cup {Null}, since : Nat,
                           plan : AllPlans, body : Body]]
  BY <1>1 DEF IInv, TypeOK, Shapes
<1>3. \A q \in Proc \ {p} : pc'[q] = pc[q] /\ job'[q] = job[q]
  BY <1>1, <1>2
<1>4. pc'[p] = AfterAppend(p) /\ job'[p] = JobAfterAppend(p) /\ pc'[p] # "lost"
  BY <1>1, <1>2 DEF AfterAppend
<1>5. /\ chain' \in Seq(Event) /\ Len(chain') = Len(chain) + 1 /\ chain' # <<>>
      /\ Last(chain') = torn.event /\ Len(chain) \in Nat
      /\ DOMAIN chain = 1..Len(chain) /\ DOMAIN chain' = 1..(Len(chain) + 1)
      /\ \A i \in DOMAIN chain : chain'[i] = chain[i]
      /\ chain'[Len(chain) + 1] = torn.event
  BY <1>1, <1>2 DEF Last
<1>6. OpenTailIsKnown'
  <2>1. TornEvents' = {}
    BY <1>1 DEF TornEvents, NotTorn
  <2>2. ASSUME Pending(torn.event), NEW c, c = torn.event.body.call
        PROVE  Known(c)'
    <3>1. pc[p] = "phaseA" /\ job[p].body.call = job[p].call
      BY <1>1, <2>2, IntentsDrafted DEF Pending
    <3>2. AfterAppend(p) = "mediate"
      BY <3>1 DEF AfterAppend
    <3>3. job'[p].call = job[p].call
      BY <1>2, <1>4, <3>2 DEF JobAfterAppend
    <3>4. QED
      BY <1>1, <1>4, <2>2, <3>1, <3>2, <3>3 DEF Acting, Known
  <2>3. QED
    BY <1>5, <2>1, <2>2 DEF OpenTailIsKnown, Pending
<1>7. Lost(torn.event) => pc[p] = "lost"
  <2>1. pc[p] = "deny" \/ pc[p] = "phaseA" \/ pc[p] = "phaseB" \/ pc[p] = "observe" =>
          job[p].body.outcome # "execution_lost"
    BY DEF IInv, StagesFit, StageFits, ComputeOutcome
  <2>2. QED
    BY <1>1, <2>1 DEF Lost, Appending
<1>8. ASSUME ~overlapped
      PROVE  OneLostPerIntent' /\ LostMeansBroken' /\ \A q \in Proc : LossKnown(q)'
  <2>1. \A q \in Proc \ {p} : pc[q] = "idle"
    BY <1>1, <1>8 DEF AloneInv, OneAtATime, Appending
  <2>2. \A q \in Proc : LossKnown(q)'
    BY <1>3, <1>4, <2>1 DEF LossKnown
  <2>3. Lost(torn.event) =>
          /\ BrokenOff(torn.event.body.call)
          /\ \A i \in DOMAIN chain : Lost(chain[i]) => chain[i].body.ref # torn.event.body.ref
    BY <1>1, <1>7, <1>8 DEF LossInv, LossKnown
  <2>4. \A i \in DOMAIN chain' : i \in DOMAIN chain \/ i = Len(chain) + 1
    BY <1>5
  <2>5. \A c : BrokenOff(c) => BrokenOff(c)'
    BY <1>1 DEF BrokenOff, Complete, Lost
  <2>6. LostMeansBroken'
    BY <1>5, <1>8, <2>3, <2>4, <2>5 DEF LossInv, LostMeansBroken, Lost
  <2>7. OneLostPerIntent'
    BY <1>5, <1>8, <2>3, <2>4 DEF LossInv, OneLostPerIntent, Lost
  <2>8. QED
    BY <2>2, <2>6, <2>7
<1>9. QED
  BY <1>1, <1>6, <1>8 DEF LossInv

\* A line cut short leaves the tail as it was: an intent there, or its own, is of a
\* call that acts on it, or whose result it was.
LEMMA LossCutShort ==
  ASSUME IInv, AloneInv, LossInv, NEW p \in Proc, EndShort(p)
  PROVE  LossInv'
<1>1. /\ pc[p] \in Appending /\ torn.kind # "none" /\ torn.event.body = job[p].body
      /\ cut' = cut \cup {torn.event}
      /\ pc' = [pc EXCEPT ![p] = AfterAppend(p)]
      /\ job' = [job EXCEPT ![p] = JobAfterAppend(p)]
      /\ UNCHANGED <<chain, torn, ended, overlapped>>
  BY WritersLine DEF EndShort, Appended, Goto
<1>2. /\ pc \in [Proc -> PCs]
      /\ job \in [Proc -> [call : 0..MaxCalls, action : Actions \cup {Null}, since : Nat,
                           plan : AllPlans, body : Body]]
  BY DEF IInv, TypeOK
<1>3. \A q \in Proc \ {p} : pc'[q] = pc[q] /\ job'[q] = job[q]
  BY <1>1, <1>2
<1>4. pc'[p] = AfterAppend(p) /\ job'[p] = JobAfterAppend(p) /\ pc'[p] # "lost"
  BY <1>1, <1>2 DEF AfterAppend
<1>5. ASSUME pc[p] \in Acting, NEW c, c = job[p].call
      PROVE  BrokenOff(c)'
  <2>1. pc[p] = "phaseB"
    BY <1>1, <1>5 DEF Appending, Acting
  <2>2. /\ Backed(job[p].body, Returned) /\ job[p].body.call = job[p].call
        /\ job[p].body.outcome # "execution_lost"
    BY <2>1 DEF IInv, StagesFit, StageFits, Acting, ComputeOutcome
  <2>3. job[p].body.ref # NoRef
    <3>1. PICK e \in Returned : e.hash = job[p].body.ref
      BY <2>2 DEF Backed
    <3>2. e \in Event
      BY <3>1 DEF IInv, Shapes, Returned, Logged, TornEvents
    <3>3. QED
      BY <3>1, <3>2 DEF Event, NoRef
  <2>4. Complete(torn.event) /\ torn.event.body.call = c /\ torn.event \in cut'
    BY <1>1, <1>5, <2>2, <2>3 DEF Complete, Lost
  <2>5. QED
    BY <2>4 DEF BrokenOff, Complete, Lost
<1>6. \A c : Known(c) => Known(c)'
  BY <1>1, <1>3, <1>5, KnownStays
<1>7. ASSUME Pending(torn.event), NEW c, c = torn.event.body.call
      PROVE  Known(c)'
  <2>1. pc[p] = "phaseA" /\ job[p].body.call = job[p].call
    BY <1>1, <1>7, IntentsDrafted DEF Pending
  <2>2. AfterAppend(p) = "mediate"
    BY <2>1 DEF AfterAppend
  <2>3. job'[p].call = job[p].call
    BY <1>2, <1>4, <2>2 DEF JobAfterAppend
  <2>4. QED
    BY <1>1, <1>4, <1>7, <2>1, <2>2, <2>3 DEF Acting, Known
<1>8. OpenTailIsKnown'
  <2>1. TornEvents' = {torn.event} /\ chain' = chain
    BY <1>1 DEF TornEvents
  <2>2. Pending(torn.event) => \A c : c = torn.event.body.call => Known(c)'
    BY <1>7
  <2>3. (chain # <<>> /\ Pending(Last(chain)) => Known(Last(chain).body.call))'
    <3>1. chain # <<>> /\ Pending(Last(chain)) => Known(Last(chain).body.call)
      BY DEF LossInv, OpenTailIsKnown
    <3>2. QED
      BY <1>6, <2>1, <3>1 DEF Pending
  <2>4. (\A e \in TornEvents \cap cut : Pending(e) => Known(e.body.call))'
    BY <2>1, <2>2 DEF Pending
  <2>5. QED
    BY <2>3, <2>4 DEF OpenTailIsKnown
<1>9. ASSUME ~overlapped
      PROVE  OneLostPerIntent' /\ LostMeansBroken' /\ \A q \in Proc : LossKnown(q)'
  <2>1. \A q \in Proc \ {p} : pc[q] = "idle"
    BY <1>1, <1>9 DEF AloneInv, OneAtATime, Appending
  <2>2. \A q \in Proc : LossKnown(q)'
    BY <1>3, <1>4, <2>1 DEF LossKnown
  <2>3. OneLostPerIntent' /\ LostMeansBroken'
    BY <1>1, <1>9 DEF LossInv, OneLostPerIntent, LostMeansBroken, BrokenOff, Complete, Lost
  <2>4. QED
    BY <2>2, <2>3
<1>10. QED
  BY <1>1, <1>8, <1>9 DEF LossInv

\* What is known of losses is kept by every step.
LEMMA LossKeeps == ASSUME IInv, AloneInv, LossInv, [Next]_vars PROVE LossInv'
<1>1. /\ pc \in [Proc -> PCs]
      /\ job \in [Proc -> [call : 0..MaxCalls, action : Actions \cup {Null}, since : Nat,
                           plan : AllPlans, body : Body]]
  BY DEF IInv, TypeOK
<1>2. CASE UNCHANGED vars
  BY <1>2 DEF vars, LossInv, OpenTailIsKnown, OneLostPerIntent, LostMeansBroken,
              LossKnown, Known, BrokenOff, TornEvents, Pending, Complete, Lost
<1>3. ASSUME NEW p \in Proc, NEW action, StartExec(p, action)
      PROVE  LossInv'
  BY <1>3, LossBegins DEF StartExec, fileVars
<1>4. ASSUME NEW p \in Proc, NEW pl, NEW res, Record(p, pl, res)
      PROVE  LossInv'
  BY <1>4, LossBegins DEF Record, fileVars
<1>5. ASSUME NEW p \in Proc, RecoveryFinds(p)
      PROVE  LossInv'
  BY <1>5, LossFound
<1>6. ASSUME NEW p \in Proc, RecoveryNotNeeded(p)
      PROVE  LossInv'
  <2>1. /\ pc[p] = "recover" /\ pc'[p] = "decide"
        /\ UNCHANGED <<chain, torn, cut, ended, overlapped>>
        /\ \A q \in Proc \ {p} : pc'[q] = pc[q] /\ job'[q] = job[q]
    BY <1>1, <1>6 DEF RecoveryNotNeeded, Recovered, Goto, fileVars
  <2>2. QED
    BY <2>1, LossQuiet DEF Acting
<1>7. ASSUME NEW p \in Proc,
             RecoveryThrows(p) \/ AcquireTimeout(p) \/ Die(p) \/ DieHealed(p)
      PROVE  LossInv'
  <2>1. /\ pc[p] # "idle" /\ pc'[p] = "idle" /\ UNCHANGED <<chain, cut, overlapped>>
        /\ ended' = ended \cup ({job[p].call} \ {0})
        /\ \A q \in Proc \ {p} : pc'[q] = pc[q] /\ job'[q] = job[q]
        /\ torn' = torn \/ torn' = NotTorn
    BY <1>1, <1>7 DEF RecoveryThrows, AcquireTimeout, Die, DieHealed, Abort, Goto, fileVars,
                      Appending
  <2>2. pc[p] \in Acting => job[p].call # 0
    BY DEF IInv, StagesFit, StageFits, Acting
  <2>3. torn' = torn \/ TornEvents' \cap cut = {}
    BY <2>1 DEF TornEvents, NotTorn
  <2>4. QED
    BY <2>1, <2>2, <2>3, LossQuiet
<1>8. ASSUME NEW p \in Proc, NEW pl,
             \/ FailClosedNoPolicy(p, pl) \/ BlockByPolicy(p, pl)
             \/ AskApproval(p, pl) \/ Proceed(p, pl)
      PROVE  LossInv'
  <2>1. PICK label, body : label \in Deciding /\ Decide(p, label, pl, body)
    BY <1>8 DEF FailClosedNoPolicy, BlockByPolicy, AskApproval, Proceed, Deciding
  <2>2. /\ pc[p] = "decide" /\ pc'[p] \in Deciding
        /\ UNCHANGED <<chain, torn, cut, ended, overlapped>>
        /\ \A q \in Proc \ {p} : pc'[q] = pc[q] /\ job'[q] = job[q]
    BY <1>1, <2>1 DEF Decide, Goto, fileVars
  <2>3. QED
    BY <2>2, LossQuiet DEF Acting, Deciding
<1>9. ASSUME NEW p \in Proc, NEW answer, ObtainApproval(p, answer)
      PROVE  LossInv'
  <2>1. /\ pc[p] = "approval" /\ pc'[p] \in Deciding
        /\ UNCHANGED <<chain, torn, cut, ended, overlapped>>
        /\ \A q \in Proc \ {p} : pc'[q] = pc[q] /\ job'[q] = job[q]
    BY <1>1, <1>9 DEF ObtainApproval, Goto, fileVars, Deciding
  <2>2. QED
    BY <2>1, LossQuiet DEF Acting, Deciding
<1>10. ASSUME NEW p \in Proc, Mediate(p)
       PROVE  LossInv'
  <2>1. /\ pc[p] = "mediate" /\ pc'[p] = "running"
        /\ UNCHANGED <<chain, torn, cut, ended, overlapped, job>>
        /\ \A q \in Proc \ {p} : pc'[q] = pc[q]
    BY <1>1, <1>10 DEF Mediate, Goto, fileVars
  <2>2. QED
    BY <2>1, LossQuiet DEF Acting
<1>11. ASSUME NEW p \in Proc, NEW res, MediateFileReturns(p, res) \/ MediateShellReturns(p, res)
       PROVE  LossInv'
  <2>1. /\ pc[p] = "running" /\ pc'[p] = "phaseB"
        /\ UNCHANGED <<chain, torn, cut, ended, overlapped>>
        /\ \A q \in Proc \ {p} : pc'[q] = pc[q] /\ job'[q] = job[q]
        /\ job'[p].call = job[p].call
    BY <1>1, <1>11 DEF MediateFileReturns, MediateShellReturns, Returns, Goto, fileVars
  <2>2. QED
    BY <2>1, LossQuiet DEF Acting
<1>12. ASSUME NEW p \in Proc, NEW kind, BeginAppend(p, kind)
       PROVE  LossInv'
  <2>1. pc[p] \in Appending /\ UNCHANGED <<chain, cut, ended, overlapped, pc, job>>
    BY <1>12 DEF BeginAppend
  <2>2. torn'.event.hash = ids + 1 /\ ids \in Nat
    BY <1>12 DEF BeginAppend, Ledger!NextEvent, IInv, TypeOK
  <2>3. \A e \in cut : e.hash \in 1..ids
    BY DEF IInv, Shapes, HashesFit, Written
  <2>4. torn'.event \notin cut
    BY <2>2, <2>3
  <2>5. TornEvents' \cap cut = {}
    BY <2>4 DEF TornEvents
  <2>6. QED
    BY <2>1, <2>5, LossQuiet DEF Acting, Appending
<1>13. ASSUME NEW p \in Proc, EndAppend(p)
       PROVE  LossInv'
  BY <1>13, LossWritten
<1>14. ASSUME NEW p \in Proc, EndShort(p)
       PROVE  LossInv'
  BY <1>14, LossCutShort
<1>15. QED
  BY <1>2, <1>3, <1>4, <1>5, <1>6, <1>7, <1>8, <1>9, <1>10, <1>11, <1>12, <1>13, <1>14
     DEF Next, Run, Environment

\* As long as no two calls overlap, one call records an abandoned intent, and only
\* the intent of a call that did crash, or whose result was cut short: but for that,
\* what the comments say of recovery holds, and takes two processes to break
\* (runRecoveryIfNeeded).
THEOREM LossesAreSoundAlone ==
  Spec => [](~overlapped => /\ OneLostPerIntent
                            /\ LostMeansBroken
                            /\ cut = {} => LostMeansDead)
<1>1. Init => LossInv
  BY DEF Init, LossInv, OpenTailIsKnown, OneLostPerIntent, LostMeansBroken, LossKnown
<1>2. IInv /\ AloneInv /\ LossInv /\ [Next]_vars => LossInv'
  BY LossKeeps
<1>3. LossInv => (~overlapped => /\ OneLostPerIntent
                                 /\ LostMeansBroken
                                 /\ cut = {} => LostMeansDead)
  BY DEF LossInv, LostMeansBroken, BrokenOff, LostMeansDead
<1>4. QED
  BY <1>1, <1>2, <1>3, Invariance, AloneInvariance, PTL DEF Spec
=============================================================================
