----------------------------- MODULE ChainMutex -----------------------------
(***************************************************************************)
(* What the lock of a chain segment promises to those who append under it: *)
(* they are in the critical section one at a time.  Leaving it can be a    *)
(* return, an exception or the death of the process.                       *)
(***************************************************************************)
CONSTANT Proc

VARIABLE holders   \* processes in the critical section

Init == holders = {}

Enter(p) == holders = {} /\ holders' = {p}

Leave(p) == holders = {p} /\ holders' = {}

Next == \E p \in Proc : Enter(p) \/ Leave(p)

Spec == Init /\ [][Next]_holders
=============================================================================
