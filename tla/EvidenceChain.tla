---------------------------- MODULE EvidenceChain ----------------------------
(***************************************************************************)
(* What is derived from the log and handed to others: receipts, evidence   *)
(* packages, and the commands that check and show them.  The log grows; a  *)
(* range of it is exported, with v0.1 or signed v0.2 receipts; the file    *)
(* may be altered in one place before `verify`, `replay`, `receipt show`   *)
(* or detectTampering reads it.                                            *)
(*                                                                         *)
(* A hash is its content, so equal hashes mean equal contents; a signature *)
(* is the key and what it signs.  Contents are numbers: everything event n *)
(* holds is n, and whatever is altered becomes Altered.                    *)
(*                                                                         *)
(* A file is read through the schemas.  They check shapes, and an          *)
(* alteration keeps the shape; they leave out of an event and of a v0.1    *)
(* receipt every field they do not know, and put the default in an event   *)
(* for a field that has one and is missing.  "unknown" stands for all the  *)
(* fields no schema knows, chain_segment_id for all those with a default;  *)
(* the contents within an event are as the schemas leave them.             *)
(***************************************************************************)
EXTENDS Integers, FiniteSets, SequencesExt

CONSTANTS MaxEvents,     \* bound: events recorded
          Key,           \* signing keys, of exporters and of builders
          Signers,       \* those of them that receipts are signed with
          Attestations   \* files that say how an artifact was built, and who says so

VARIABLES
  log,       \* the recorded events
  artifact,  \* the file a command is given: a package, a receipt, a chain
  issued,    \* history: what that file was when it was written
  signer     \* history: the key its receipts were signed with

vars == <<log, artifact, issued, signer>>

Hash(x) == [hashOf |-> x]
NoHash  == [none |-> TRUE]
Junk    == [junk |-> TRUE]
NoKey   == "no key"
BadKey  == "unreadable key"
NotGiven == [given |-> FALSE]
NoFile   == [exists |-> FALSE]
Absent  == 0
Altered == MaxEvents + 1

ASSUME EvidenceAssumption == MaxEvents \in Nat /\ Signers \subseteq Key
ASSUME KeyAssumption == NoKey \notin Key /\ BadKey \notin Key
ASSUME AttestationAssumption == \A a \in Attestations : a.subjects \in Seq(Nat)

Without(r, fields) == [f \in DOMAIN r \ fields |-> r[f]]
Plus(r, f, v) == [g \in DOMAIN r \cup {f} |-> IF g = f THEN v ELSE r[g]]

\* Any outcome without a result looks like a denial here.
Outcomes == {"allowed_executed", "denied_by_policy"}
NoArtifact == [kind |-> "missing"]

Init == log = <<>> /\ artifact = NoArtifact /\ issued = NoArtifact /\ signer = NoKey

-----------------------------------------------------------------------------
(* Events and their chain *)

FinalizeEvent(draft) == Plus(draft, "event_hash", Hash(draft))

VerifyEventHash(ev) == ev.event_hash = Hash(Without(ev, {"event_hash"}))

DefaultSegment == 1

\* One more event, as EventLog appends it; only a finished execution has a
\* result.  Sequences start at 0, contents at 1.
Draft(n, outcome, previous) ==
  [sequence |-> n, event_id |-> n + 1, receipt_id |-> n + 1, chain_segment_id |-> DefaultSegment,
   classified_intent |-> n + 1, policy_decision |-> n + 1,
   execution_result |-> IF outcome = "allowed_executed" THEN n + 1 ELSE Absent,
   outcome |-> outcome, previous_event_hash |-> previous]

Record(outcome) ==
  LET n == Len(log)
      previous == IF n = 0 THEN NoHash ELSE log[n].event_hash
  IN
  /\ n < MaxEvents
  /\ log' = Append(log, FinalizeEvent(Draft(n, outcome, previous)))
  /\ UNCHANGED <<artifact, issued, signer>>

\* The fields of an event, and the one of them the schema has a default for.
EventFields ==
  {"sequence", "event_id", "receipt_id", "chain_segment_id", "classified_intent",
   "policy_decision", "execution_result", "outcome", "previous_event_hash", "event_hash"}

\* What the schema makes of an event that was read.
ParseEvent(ev) ==
  [f \in EventFields |-> IF f = "chain_segment_id" /\ f \notin DOMAIN ev THEN DefaultSegment
                         ELSE ev[f]]

\* The events of a package or of the log's file, as every command sees them.
Events(file) == [i \in DOMAIN file.events |-> ParseEvent(file.events[i])]

\* What verifyChain finds wrong with event i, checked in this order.
BreakAt(events, before, i) ==
  IF events[i].previous_event_hash # (IF i = 1 THEN before ELSE events[i - 1].event_hash)
  THEN "previous_event_hash mismatch"
  ELSE IF ~VerifyEventHash(events[i]) THEN "event_hash invalid"
  ELSE IF i > 1 /\ events[i].sequence # events[i - 1].sequence + 1
  THEN "sequence non-monotonic"
  ELSE "none"

\* The verdict is about the first event that something is wrong with.
Verdict(events, before, broken) ==
  IF broken = {} THEN [valid |-> TRUE, brokenAt |-> 0, reason |-> "none"]
  ELSE [valid |-> FALSE, brokenAt |-> Min(broken),
        reason |-> BreakAt(events, before, Min(broken))]

\* A bug: the chain is not anchored at the head before the range.
VerifyUnanchored(events, before) ==
  Verdict(events, before, {i \in DOMAIN events : i > 1 /\ BreakAt(events, before, i) # "none"})

VerifyChain(events, before) ==
  Verdict(events, before, {i \in DOMAIN events : BreakAt(events, before, i) # "none"})

\* A bug: a broken link is taken for an altered event.
ClassifyEveryHash(reason) ==
  IF reason = "sequence non-monotonic" THEN "sequence" ELSE "content"

ClassifyBreak(reason) ==
  CASE reason = "previous_event_hash mismatch" -> "linkage"
    [] reason = "sequence non-monotonic" -> "sequence"
    [] OTHER -> "content"

DetectTampering(events, before) ==
  LET r == VerifyChain(events, before)
  IN [tampered |-> ~r.valid, atIndex |-> r.brokenAt,
      kind |-> IF r.valid THEN "none" ELSE ClassifyBreak(r.reason)]

-----------------------------------------------------------------------------
(* Receipts *)

HashOrNull(x) == IF x = Absent THEN NoHash ELSE Hash(x)

ReceiptDraft(ev, version) ==
  [schema_version |-> version, receipt_id |-> ev.receipt_id,
   witness_event_id |-> ev.event_id, chain_segment_id |-> ev.chain_segment_id,
   policy_decision_hash |-> Hash(ev.policy_decision),
   classified_intent_hash |-> Hash(ev.classified_intent),
   execution_result_hash |-> HashOrNull(ev.execution_result),
   outcome |-> ev.outcome]

GenerateReceipt(ev) ==
  LET draft == ReceiptDraft(ev, "v0.1") IN Plus(draft, "receipt_hash", Hash(draft))

\* The fields of a v0.1 receipt, and what its schema makes of one that was read.
V01Fields ==
  {"schema_version", "receipt_id", "witness_event_id", "chain_segment_id",
   "policy_decision_hash", "classified_intent_hash", "execution_result_hash", "outcome",
   "receipt_hash"}

ParseReceipt(r) == [f \in V01Fields |-> r[f]]

VerifySelfHash(r) == r.receipt_hash = Hash(Without(r, {"receipt_hash"}))

\* The hash cross-references of a receipt to its event.
Describes(r, ev) ==
  /\ r.classified_intent_hash = Hash(ev.classified_intent)
  /\ r.policy_decision_hash = Hash(ev.policy_decision)

VerifyReceipt(r, ev) ==
  /\ r.witness_event_id = ev.event_id
  /\ r.receipt_id = ev.receipt_id
  /\ Describes(r, ev)
  /\ r.execution_result_hash = HashOrNull(ev.execution_result)
  /\ VerifySelfHash(r)

\* signature and receipt_hash are cleared to their defaults: what is hashed
\* and signed is everything else.
SigningPreImage(r) == Without(r, {"signature", "receipt_hash"})

SignReceiptV02(draft, key) ==
  Plus(Plus(draft, "receipt_hash", Hash(draft)), "signature", [by |-> key, over |-> draft])

\* A bug: only the signature's key is looked at.
VerifyKeyOnly(r, key) == r.signature # Junk /\ r.signature.by = key

VerifyReceiptV02(r, key) ==
  /\ r.signature = [by |-> key, over |-> SigningPreImage(r)]
  /\ r.receipt_hash = Hash(SigningPreImage(r))

\* The export never says executionLost: a lost execution is signed as any other.
GenerateReceiptV02(ev, prev_hash, prov, key) ==
  LET draft == Plus(Plus(Plus(ReceiptDraft(ev, "v0.2"), "prev_hash", prev_hash),
                         "artifact_digest", prov.artifact_digest),
                    "attestation_digest", prov.attestation_digest)
  IN SignReceiptV02(draft, key)

\* Each receipt carries the hash of the one before it, the first of a range none.
GenerateV02Receipts(events, prov, key) ==
  LET receipts[i \in 1..Len(events)] ==
        GenerateReceiptV02(events[i],
                           IF i = 1 THEN NoHash ELSE receipts[i - 1].receipt_hash, prov, key)
  IN receipts

-----------------------------------------------------------------------------
(* Evidence packages and other files cut from the log *)

\* A bug: the head is looked up one event too late.
HeadAtStart(events, start) ==
  IF start = 0 \/ start >= Len(events) THEN NoHash ELSE events[start + 1].event_hash

FindHashBefore(events, start) ==
  LET prev == {i \in DOMAIN events : events[i].sequence = start - 1}
  IN IF start = 0 \/ prev = {} THEN NoHash ELSE events[CHOOSE i \in prev : TRUE].event_hash

\* The events of the log, in order, whose sequence is in the range.
InRange(start, end) ==
  LET kept[n \in 0..Len(log)] ==
        IF n = 0 THEN <<>>
        ELSE IF log[n].sequence \in start..end THEN Append(kept[n - 1], log[n])
        ELSE kept[n - 1]
  IN kept[Len(log)]

\* Neither an empty log nor a range without events is exported; an end of the
\* range that is not given is the log's own.
ExportEvidencePackage(start, end, receipts) ==
  LET events  == InRange(start, end)
      package == [kind |-> "package", chain_segment_id |-> Head(events).chain_segment_id,
                  start_sequence |-> start, end_sequence |-> end,
                  chain_head_before_range |-> FindHashBefore(log, start),
                  chain_head_after_range |-> Last(events).event_hash,
                  events |-> events, receipts |-> receipts]
  IN events # <<>> /\ artifact' = package /\ issued' = package

ExportV01 ==
  /\ artifact = NoArtifact
  /\ \E start, end \in 0..MaxEvents :
       LET events == InRange(start, end)
       IN ExportEvidencePackage(start, end,
                                [i \in DOMAIN events |-> GenerateReceipt(events[i])])
  /\ UNCHANGED <<log, signer>>

\* One block of build provenance serves every receipt of the package.
ExportV02(key, attestation) ==
  LET prov == [artifact_digest |-> 1, attestation_digest |-> Hash(attestation)]
  IN
  /\ artifact = NoArtifact
  /\ \E start, end \in 0..MaxEvents :
       ExportEvidencePackage(start, end, GenerateV02Receipts(InRange(start, end), prov, key))
  /\ signer' = key
  /\ UNCHANGED log

\* The log's own file, which `verify` without an argument reads.
CopyChain ==
  LET chain == [kind |-> "chain", events |-> log]
  IN
  /\ artifact = NoArtifact /\ log # <<>>
  /\ artifact' = chain /\ issued' = chain
  /\ UNCHANGED <<log, signer>>

\* `receipt show --json` prints a receipt by itself.
TakeReceipt(r) ==
  /\ artifact = issued
  /\ artifact' = [kind |-> "receipt", receipt |-> r] /\ issued' = artifact'
  /\ UNCHANGED <<log, signer>>

TakeReceiptOfLog ==
  artifact = NoArtifact /\ \E i \in DOMAIN log : TakeReceipt(GenerateReceipt(log[i]))

TakeReceiptOfPackage ==
  artifact.kind = "package" /\ \E i \in DOMAIN artifact.receipts : TakeReceipt(artifact.receipts[i])

-----------------------------------------------------------------------------
(* One alteration of the file, of the right shape *)

AlteredValue(f) ==
  CASE f \in {"outcome", "schema_version"} -> "altered"
    [] f \in {"sequence", "event_id", "receipt_id", "witness_event_id", "chain_segment_id",
              "classified_intent", "policy_decision", "execution_result", "artifact_digest",
              "start_sequence", "end_sequence"} -> Altered
    [] OTHER -> Junk

AlterFile(file) ==
  /\ artifact = issued
  /\ artifact' = file
  /\ UNCHANGED <<log, issued, signer>>

\* A field of an event altered or added, with its hash made to fit or not.
EditedEvent(event, f, rehash) ==
  LET ev == Plus(event, f, AlteredValue(f))
  IN IF rehash THEN FinalizeEvent(Without(ev, {"event_hash"})) ELSE ev

AlterEvent(i, f, rehash) ==
  AlterFile([artifact EXCEPT !.events[i] = EditedEvent(@, f, rehash)])

\* A field that has a default is left out.
DropDefault(i) == AlterFile([artifact EXCEPT !.events[i] = Without(@, {"chain_segment_id"})])

\* A field of a receipt altered or added; its hash can be made to fit, its
\* signature cannot.
EditedReceipt(receipt, f, rehash) ==
  LET r == Plus(receipt, f, AlteredValue(f))
  IN IF ~rehash THEN r
     ELSE [r EXCEPT !.receipt_hash = Hash(IF r.schema_version = "v0.2" THEN SigningPreImage(r)
                                          ELSE Without(r, {"receipt_hash"}))]

AlterReceiptAlone(f, rehash) ==
  AlterFile([artifact EXCEPT !.receipt = EditedReceipt(@, f, rehash)])

AlterReceipt(i, f, rehash) ==
  AlterFile([artifact EXCEPT !.receipts[i] = EditedReceipt(@, f, rehash)])

\* Entry i of the events or the receipts is left out, repeated or swapped with
\* the next one.
Swapped(entries, i) == [entries EXCEPT ![i] = entries[i + 1], ![i + 1] = entries[i]]

Rearrange(part, i) ==
  LET entries == artifact[part]
  IN \/ AlterFile([artifact EXCEPT ![part] = RemoveAt(entries, i)])
     \/ AlterFile([artifact EXCEPT ![part] = InsertAt(entries, i, entries[i])])
     \/ i < Len(entries) /\ AlterFile([artifact EXCEPT ![part] = Swapped(entries, i)])

Alter ==
  \/ /\ artifact.kind \in {"package", "chain"}
     /\ \E i \in DOMAIN artifact.events :
          \/ Rearrange("events", i)
          \/ DropDefault(i)
          \/ \E f \in DOMAIN artifact.events[i] \cup {"unknown"}, rehash \in BOOLEAN :
               AlterEvent(i, f, rehash)
  \/ /\ artifact.kind = "package"
     /\ \/ \E i \in DOMAIN artifact.receipts :
             \/ Rearrange("receipts", i)
             \/ \E f \in DOMAIN artifact.receipts[i] \cup {"unknown"}, rehash \in BOOLEAN :
                  AlterReceipt(i, f, rehash)
        \/ \E f \in DOMAIN artifact \ {"kind", "events", "receipts"} :
             AlterFile([artifact EXCEPT ![f] = AlteredValue(f)])
  \/ /\ artifact.kind = "receipt"
     /\ \E f \in DOMAIN artifact.receipt \cup {"unknown"}, rehash \in BOOLEAN :
          AlterReceiptAlone(f, rehash)
  \/ artifact.kind \in {"package", "receipt"} /\ AlterFile([kind |-> "unrecognized"])

Next ==
  \/ \E outcome \in Outcomes : Record(outcome)
  \/ ExportV01
  \/ \E key \in Signers, attestation \in Attestations : ExportV02(key, attestation)
  \/ CopyChain
  \/ TakeReceiptOfLog
  \/ TakeReceiptOfPackage
  \/ Alter

Spec == Init /\ [][Next]_vars

-----------------------------------------------------------------------------
(* witseal verify *)

\* A signed receipt without a result may stand for a lost execution, so that
\* the event's result is not asked for.
CrossCheckAgainstEvent(r, ev) ==
  /\ Describes(r, ev)
  /\ r.execution_result_hash \in {NoHash, HashOrNull(ev.execution_result)}

\* The companion of a receipt is the last event with the id it names.  What is
\* signed is the receipt as it was read, with whatever else it holds.
VerifyPackageReceipt(r, events, publicKey) ==
  LET companion == SelectLastInSeq(events, LAMBDA e : e.event_id = r.witness_event_id)
  IN /\ companion # 0
     /\ \/ /\ r.schema_version = "v0.2" /\ publicKey # NoKey
           /\ VerifyReceiptV02(r, publicKey)
           /\ CrossCheckAgainstEvent(r, events[companion])
        \/ r.schema_version = "v0.1" /\ VerifyReceipt(ParseReceipt(r), events[companion])

VerifyEvidencePackage(package, publicKey) ==
  LET events == Events(package)
  IN /\ VerifyChain(events, package.chain_head_before_range).valid
     /\ package.chain_head_after_range = IF events = <<>> THEN NoHash ELSE Last(events).event_hash
     /\ \A i \in DOMAIN package.receipts :
          VerifyPackageReceipt(package.receipts[i], events, publicKey)

VerifyArtifact(file, publicKey) ==
  \/ file.kind = "package" /\ VerifyEvidencePackage(file, publicKey)
  \/ /\ file.kind = "receipt" /\ file.receipt.schema_version = "v0.1"
     /\ VerifySelfHash(ParseReceipt(file.receipt))
  \/ /\ file.kind = "receipt" /\ file.receipt.schema_version = "v0.2"
     /\ publicKey # NoKey /\ VerifyReceiptV02(file.receipt, publicKey)

\* A bug: any attestation by the builder of that artifact will do.
CheckUnpinned(attestation, receipt, builderKey) ==
  /\ builderKey \in attestation.signers
  /\ Head(attestation.subjects) = receipt.artifact_digest

\* The attestation is the very file the receipt names, the builder signed it, it
\* is about provenance, and its first subject is the artifact.
CheckProvenance(attestation, receipt, builderKey) ==
  /\ receipt.attestation_digest = Hash(attestation)
  /\ attestation.payloadType = "in-toto"
  /\ builderKey \in attestation.signers
  /\ attestation.predicate = "provenance"
  /\ attestation.subjects # <<>> /\ Head(attestation.subjects) = receipt.artifact_digest

\* The exit code; without a builder's key the one the receipt was checked with
\* is used.
RunProvenanceCheck(file, args) ==
  LET builderKey == IF args.builderKey = NoKey THEN args.publicKey ELSE args.builderKey
      bindable == file.kind = "receipt" /\ file.receipt.schema_version = "v0.2"
  IN CASE args.attestation = NotGiven -> 2
       [] args.attestation # NotGiven /\ (~bindable \/ args.attestation = NoFile) -> 1
       [] OTHER -> IF builderKey = NoKey THEN 2
                   ELSE IF builderKey # BadKey
                           /\ CheckProvenance(args.attestation, file.receipt, builderKey)
                   THEN 0 ELSE 1

\* verify on the log's own file, which is anchored at nothing.
RunVerifyChain(file) == IF VerifyChain(Events(file), NoHash).valid THEN 0 ELSE 1

RunVerify(file, args) ==
  IF file.kind = "chain"
  THEN IF args.checkProvenance THEN 2 ELSE RunVerifyChain(file)
  ELSE IF file.kind = "missing" \/ args.publicKey = BadKey
          \/ ~VerifyArtifact(file, args.publicKey) THEN 1
  ELSE IF args.checkProvenance THEN RunProvenanceCheck(file, args) ELSE 0

-----------------------------------------------------------------------------
(* witseal replay and witseal receipt show *)

\* How an event may be named: its sequence, one of its ids, or the beginning of
\* one, which fits some ids.  Fewer than four letters fit every id of the kind.
Identifiers ==
  [by : {"sequence", "event_id", "receipt_id"}, fits : {{n} : n \in 0..MaxEvents},
   whole : {TRUE}, short : {FALSE}]
  \cup [by : {"event_id", "receipt_id"}, fits : SUBSET (1..MaxEvents),
        whole : {FALSE}, short : {FALSE}]
  \cup [by : {"event_id", "receipt_id"}, fits : {1..MaxEvents \cup {Altered}},
        whole : {FALSE}, short : {TRUE}]

Fits(ev, id, names) == id.by \in names /\ ev[id.by] \in id.fits

\* The first entry named in full by one of these names, tried in this order.
FirstNamed(events, id, names) ==
  IF id.whole /\ id.by \in names THEN SelectInSeq(events, LAMBDA e : Fits(e, id, names)) ELSE 0

\* The only entry that the beginning of a name fits.
OnlyFit(events, id, names) ==
  LET fits == {i \in DOMAIN events : Fits(events[i], id, names)}
  IN IF ~id.whole /\ Cardinality(fits) = 1 THEN CHOOSE i \in fits : TRUE ELSE 0

\* replay knows nothing of receipt ids.
FindToReplay(events, id) ==
  LET named == FirstNamed(events, id, {"sequence", "event_id"})
  IN IF named # 0 THEN named ELSE OnlyFit(events, id, {"event_id"})

FindToShow(events, id) ==
  LET named == FirstNamed(events, id, {"sequence", "event_id", "receipt_id"})
  IN IF named # 0 THEN named
     ELSE IF id.short THEN 0 ELSE OnlyFit(events, id, {"event_id", "receipt_id"})

\* A package is searched by the ids of its receipts; a receipt of an unknown
\* version is not shown, even when it is the one found.
FindInPackage(receipts, id) ==
  LET ids == [i \in DOMAIN receipts |-> [receipt_id |-> receipts[i].receipt_id,
                                         event_id |-> receipts[i].witness_event_id]]
      both == {"event_id", "receipt_id"}
      named == FirstNamed(ids, id, both)
      found == IF named # 0 THEN named ELSE IF id.short THEN 0 ELSE OnlyFit(ids, id, both)
  IN IF found # 0 /\ receipts[found].schema_version \in {"v0.1", "v0.2"} THEN found ELSE 0

\* A bug: the event's own number is taken for the index of the one before.
PredecessorBySlot(events, ev) ==
  IF ev.sequence + 1 \in DOMAIN events THEN ev.sequence + 1 ELSE 0

Predecessor(events, ev) == SelectInSeq(events, LAMBDA e : e.sequence = ev.sequence - 1)

\* The exit code of `witseal replay`.
RunReplay(events, id) ==
  LET i == FindToReplay(events, id)
      ev == events[i]
      prev == Predecessor(events, ev)
  IN IF /\ i # 0
        /\ VerifyEventHash(ev)
        /\ IF ev.sequence = 0 THEN ev.previous_event_hash = NoHash
           ELSE prev # 0 /\ ev.previous_event_hash = events[prev].event_hash
        /\ VerifyReceipt(GenerateReceipt(ev), ev)
     THEN 0 ELSE 1

-----------------------------------------------------------------------------
(* Properties *)

KeyArgs == Key \cup {NoKey, BadKey}
Plainly(key) == [checkProvenance |-> FALSE, publicKey |-> key]
Unaltered == artifact # NoArtifact /\ artifact = issued
Valid(key) == artifact # NoArtifact /\ RunVerify(artifact, Plainly(key)) = 0

\* Whatever range of whatever log is exported, with receipts of either version,
\* and whatever receipt is taken by itself: left alone, it verifies under the
\* key it was signed with, however far the log has gone on since.
HonestVerifies == Unaltered => Valid(signer)

\* What a verdict of VALID rules out.  The events of a package, as the schema
\* reads them, are those that were exported, and so are the heads around them: what
\* goes unseen of one change is a field no schema knows that was added to an
\* event, and a field left out whose value was the default.  A signed receipt is
\* one that was issued, to the last field; an unsigned one, as the schema reads
\* it, says what was issued of its event, except that its outcome and segment are
\* not looked at again when its hash is made to fit.  (Receipts left out or
\* repeated, the range and the package's segment are not looked at.)
ValidIsFaithful ==
  \A key \in KeyArgs : Valid(key) =>
    /\ artifact.kind = "package" =>
         /\ Events(artifact) = issued.events
         /\ artifact.chain_head_before_range = issued.chain_head_before_range
         /\ artifact.chain_head_after_range = issued.chain_head_after_range
         /\ \A i \in DOMAIN artifact.receipts : \E j \in DOMAIN issued.receipts :
              LET r == artifact.receipts[i]
                  unread == {"outcome", "chain_segment_id", "receipt_hash"}
              IN IF r.schema_version = "v0.2" THEN r = issued.receipts[j] /\ key = signer
                 ELSE Without(ParseReceipt(r), unread) = Without(issued.receipts[j], unread)
    /\ (artifact.kind = "receipt" /\ artifact.receipt.schema_version = "v0.2") =>
         artifact = issued /\ key = signer

\* Tampering with one place of a log is reported at the first event that does not
\* read as recorded or the one after it.  Reported as content or as sequence, it
\* is that one event that was rewritten; events left out, repeated or swapped are
\* always broken links.  What goes unreported is that the last event was
\* rewritten with its hash, or left out, and a change the schema undoes: a field
\* it does not know, or a default that was left out.
TamperLocated ==
  (artifact.kind = "chain" /\ ~Unaltered) =>
    LET events == Events(artifact)
        was == issued.events
        differ == {i \in DOMAIN events : i > Len(was) \/ events[i] # was[i]}
        first == IF differ = {} THEN Len(events) + 1 ELSE Min(differ)
        found == DetectTampering(events, NoHash)
    IN IF found.tampered
       THEN /\ found.atIndex \in {first, first + 1}
            /\ found.kind # "linkage" =>
                 /\ found.atIndex = first
                 /\ found.kind = "sequence" => events[first].sequence # was[first].sequence
                 /\ \A i \in DOMAIN was : i # first => i \in DOMAIN events /\ events[i] = was[i]
       ELSE \/ events \in {was, Front(was)}
            \/ Len(events) = Len(was) /\ first = Len(events)

\* The commands agree: in a log from its beginning that verifies, every event
\* replay finds replays, and receipt show finds the same one; and the receipt
\* shown from a package that verifies is shown beside the event it describes.
\* (A log that does not begin at sequence 0 verifies, but does not replay; and
\* fewer than four letters of an id are enough for replay, but not for receipt
\* show.)
InspectorsAgree ==
  /\ (artifact.kind = "chain" /\ Valid(NoKey)) =>
       LET events == Events(artifact)
       IN \A id \in Identifiers :
            LET i == FindToReplay(events, id)
            IN (i # 0 /\ events[1].sequence = 0) =>
                 /\ RunReplay(events, id) = 0
                 /\ id.short \/ FindToShow(events, id) = i
  /\ (artifact.kind = "package" /\ Valid(signer)) =>
       \A id \in Identifiers :
         LET found == FindInPackage(artifact.receipts, id)
             r == artifact.receipts[found]
             events == Events(artifact)
             i == SelectInSeq(events, LAMBDA e : e.event_id = r.witness_event_id)
         IN found # 0 =>
              /\ i # 0 /\ Describes(r, events[i])
              /\ id.by = "receipt_id" => events[i].receipt_id \in id.fits

\* Asked for provenance, verify says yes only of one signed receipt as issued,
\* and only of the attestation that was named when it was issued, whose first
\* subject is the artifact and which the builder signed; the receipt's own signer
\* stands in for a builder that is not named.
ProvenanceBinds ==
  \A key \in KeyArgs, builder \in KeyArgs, attestation \in Attestations \cup {NotGiven, NoFile} :
    LET args == [checkProvenance |-> TRUE, publicKey |-> key, builderKey |-> builder,
                 attestation |-> attestation]
    IN (artifact # NoArtifact /\ RunVerify(artifact, args) = 0) =>
         /\ artifact.kind = "receipt" /\ Unaltered /\ key = signer
         /\ attestation \in Attestations
         /\ Hash(attestation) = issued.receipt.attestation_digest
         /\ (IF builder = NoKey THEN signer ELSE builder) \in attestation.signers
         /\ attestation.subjects[1] = issued.receipt.artifact_digest
=============================================================================
