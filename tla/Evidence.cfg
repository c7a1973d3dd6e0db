SPECIFICATION Spec
CONSTANTS
  MaxEvents = 3
  Key = {"k1", "k2"}
  Signers = {"k1"}
  Attestations <- SomeAttestations
INVARIANTS
  HonestVerifies
  ValidIsFaithful
  TamperLocated
  InspectorsAgree
  ProvenanceBinds
CHECK_DEADLOCK FALSE
