----------------------------- MODULE MCEvidence -----------------------------
(* A short log, one signer, and attestations by the signer, by another builder  *)
(* and ones that are not what they should be.                                   *)
EXTENDS EvidenceChain

Attestation(payloadType, signers, predicate, subjects) ==
  [payloadType |-> payloadType, signers |-> signers, predicate |-> predicate,
   subjects |-> subjects]

SomeAttestations ==
  {Attestation("in-toto", {"k1"}, "provenance", <<1>>),
   Attestation("in-toto", {"k2"}, "provenance", <<1, 2>>),
   Attestation("in-toto", {"k1", "k2"}, "provenance", <<2, 1>>),
   Attestation("in-toto", {"k1"}, "another", <<1>>),
   Attestation("text", {"k1"}, "provenance", <<1>>)}
=============================================================================
