---------------------------- MODULE ChainLedger ----------------------------
(***************************************************************************)
(* What one WitSeal chain segment promises to everyone who writes or reads *)
(* it, without saying how: a sequence of events that only ever grows by    *)
(* one event at its end, every event naming the hash of the one before it  *)
(* and carrying the next sequence number, and no two events carrying the   *)
(* same operation id.                                                      *)
(*                                                                         *)
(* A SHA-256 event hash is modelled by a positive number that no two       *)
(* events share: every draft holds a freshly generated event_id, so two    *)
(* drafts never have the same content.  Genesis is the null                *)
(* previous_event_hash of the first event.                                 *)
(***************************************************************************)
EXTENDS Naturals, SequencesExt

CONSTANTS EventHash, \* event hashes a run may use, positive numbers
          Op,        \* operation ids (idempotency keys)
          NoOp,      \* no operation id given, not in Op
          Body       \* what an event records: intent, decision, outcome

VARIABLE chain

Genesis == 0

LedgerEvent == [hash : EventHash, prev : EventHash \cup {Genesis}, seq : Nat,
                op : Op \cup {NoOp}, body : Body]

\* The hash the next event of c must name, and the number it must carry.
HeadHash(c) == IF c = <<>> THEN Genesis ELSE Last(c).hash

LinkedAt(c, i) ==
  /\ c[i].seq  = i - 1
  /\ c[i].prev = IF i = 1 THEN Genesis ELSE c[i - 1].hash

\* What verifyChain accepts of a whole segment, counted from sequence 0.
ChainLinked(c) == \A i \in DOMAIN c : LinkedAt(c, i)

CarriesOp(c, op) == \E i \in DOMAIN c : c[i].op = op

FreshHash(c, h) == \A i \in DOMAIN c : c[i].hash # h

NextEvent(c, h, op, body) ==
  [hash |-> h, prev |-> HeadHash(c), seq |-> Len(c), op |-> op, body |-> body]

Extend(h, op, body) ==
  /\ FreshHash(chain, h)
  /\ op # NoOp => ~CarriesOp(chain, op)
  /\ chain' = Append(chain, NextEvent(chain, h, op, body))

Init == chain = <<>>

Next == \E h \in EventHash, op \in Op \cup {NoOp}, body \in Body : Extend(h, op, body)

Spec == Init /\ [][Next]_chain
=============================================================================
