-------------------------- MODULE ChainLockProofs --------------------------
(***************************************************************************)
(* Proofs about ChainLock, for any set of processes, any backends and any  *)
(* number of deaths: types, exclusion as long as no live process lost its *)
(* lockfile, sound verdicts about holders, and what a lockfile implies.    *)
(***************************************************************************)
EXTENDS ChainLock, TLAPS

-----------------------------------------------------------------------------
(* The inductive invariant *)

ShimOnly ==
  {"create", "stamp", "check", "probe", "steal", "poll", "threw", "unlockProbe", "unlink"}

\* With flock the kernel's holder is the process that holds the lock, and
\* there is never a lockfile.
FlockBackend ==
  backend = "flock" =>
    /\ file = NoFile /\ ~misremoved
    /\ \A p \in Proc : pc[p] \notin ShimOnly /\ (pc[p] = "held" <=> flock = p)

ShimBackend ==
  backend = "shim" => flock = NoProc /\ \A p \in Proc : pc[p] # "waitFlock"

\* A process that created the lockfile finds it at the path until a live
\* process's file is removed.
OwnersFile ==
  backend = "shim" =>
    \/ misremoved
    \/ \A p \in Proc : pc[p] \in Owning => Owner(file) = Self(p)

\* The stamps in the file and in a prober's or remover's hand name processes that
\* exist or have existed.
Past(who) == who.pid \in Proc /\ who.start <= start[who.pid]

StampsPast ==
  /\ file # NoFile => Past(Owner(file))
  /\ \A p \in Proc : pc[p] \in Probing \cup Removing => Past(suspect[p])

\* Until a process ends every pid is in its first life.
FirstLives ==
  crashes + exits = 0 => \A p \in Proc : pc[p] # "dead" /\ start[p] = 0

IInv ==
  /\ TypeOK
  /\ FlockBackend
  /\ ShimBackend
  /\ OwnersFile
  /\ StampsPast
  /\ FirstLives
  /\ VerdictSound
  /\ LockfileAccounted
  /\ MisremovalNeedsDeath

-----------------------------------------------------------------------------
(* One lemma per action *)

\* The kernel gives the lock to one waiter.
LEMMA AcquireFlockKeeps ==
  ASSUME IInv, NEW p \in Proc, AcquireFlock(p)
  PROVE  IInv'
<1>1. TypeOK'
  BY DEF IInv, AcquireFlock, Goto, TypeOK, PCs, Ready, Stamps, Owning
<1>2. FlockBackend'
  BY ProcAssumption DEF IInv, AcquireFlock, Goto, TypeOK, FlockBackend, ShimOnly
<1>3. ShimBackend'
  BY DEF IInv, AcquireFlock, ShimBackend
<1>4. OwnersFile'
  BY DEF IInv, AcquireFlock, OwnersFile, ShimBackend
<1>5. StampsPast'
  BY DEF IInv, AcquireFlock, Goto, StampsPast, Past, Removing, Probing
<1>6. FirstLives'
  BY DEF IInv, AcquireFlock, Goto, FirstLives
<1>7. VerdictSound'
  BY DEF IInv, AcquireFlock, Goto, VerdictSound, Removing, Running
<1>8. LockfileAccounted'
  BY DEF IInv, AcquireFlock, Goto, LockfileAccounted, Running, Owning
<1>9. MisremovalNeedsDeath'
  BY DEF IInv, AcquireFlock, MisremovalNeedsDeath
<1>10. QED
  BY <1>1, <1>2, <1>3, <1>4, <1>5, <1>6, <1>7, <1>8, <1>9 DEF IInv

\* A waiter gives up.
LEMMA FlockTimeoutKeeps ==
  ASSUME IInv, NEW p \in Proc, FlockTimeout(p)
  PROVE  IInv'
<1>1. TypeOK'
  BY DEF IInv, FlockTimeout, Goto, TypeOK, PCs, Ready, Stamps
<1>2. FlockBackend'
  BY DEF IInv, FlockTimeout, Goto, FlockBackend, ShimOnly
<1>3. ShimBackend'
  BY DEF IInv, FlockTimeout, ShimBackend
<1>4. OwnersFile'
  BY DEF IInv, FlockTimeout, OwnersFile, ShimBackend
<1>5. StampsPast'
  BY DEF IInv, FlockTimeout, Goto, StampsPast, Past, Removing, Probing
<1>6. FirstLives'
  BY DEF IInv, FlockTimeout, Goto, FirstLives
<1>7. VerdictSound'
  BY DEF IInv, FlockTimeout, Goto, VerdictSound, Removing, Running
<1>8. LockfileAccounted'
  BY DEF IInv, FlockTimeout, Goto, LockfileAccounted, Running, Owning
<1>9. MisremovalNeedsDeath'
  BY DEF IInv, FlockTimeout, MisremovalNeedsDeath
<1>10. QED
  BY <1>1, <1>2, <1>3, <1>4, <1>5, <1>6, <1>7, <1>8, <1>9 DEF IInv

\* O_EXCL lets a process create the file only when there is none, so nobody else
\* owns it.
LEMMA TryCreateKeeps ==
  ASSUME IInv, NEW p \in Proc, TryCreate(p)
  PROVE  IInv'
<1>1. TypeOK'
  <2>1. [pid |-> p, start |-> start[p], stamp |-> "none"] \in
          [pid : Proc \cup {NoProc}, start : Nat, stamp : Stamps]
    BY Zenon DEF IInv, TypeOK, Stamps
  <2>2. file' \in [pid : Proc \cup {NoProc}, start : Nat, stamp : Stamps]
    BY <2>1 DEF IInv, TypeOK, TryCreate
  <2>3. QED
    BY <2>2 DEF IInv, TryCreate, Goto, TypeOK, PCs, Ready, Stamps, Owning
<1>2. FlockBackend'
  BY DEF IInv, TryCreate, Goto, TypeOK, FlockBackend, ShimOnly
<1>3. ShimBackend'
  BY DEF IInv, TryCreate, Goto, TypeOK, ShimBackend
<1>4. OwnersFile'
  BY ProcAssumption DEF IInv, TryCreate, Goto, TypeOK, OwnersFile, Owning, Self, Owner,
                        NoFile
<1>5. StampsPast'
  BY DEF IInv, TryCreate, Goto, TypeOK, StampsPast, Past, Removing, Probing, Owner
<1>6. FirstLives'
  BY DEF IInv, TryCreate, Goto, TypeOK, FirstLives
<1>7. VerdictSound'
  BY DEF IInv, TryCreate, Goto, TypeOK, VerdictSound, Removing, Running
<1>8. LockfileAccounted'
  BY DEF IInv, TryCreate, Goto, TypeOK, LockfileAccounted, Running, Owner, Owning
<1>9. MisremovalNeedsDeath'
  BY DEF IInv, TryCreate, MisremovalNeedsDeath
<1>10. QED
  BY <1>1, <1>2, <1>3, <1>4, <1>5, <1>6, <1>7, <1>8, <1>9 DEF IInv

\* The call throws and there is no new file.
LEMMA CreateFailsKeeps ==
  ASSUME IInv, NEW p \in Proc, CreateFails(p)
  PROVE  IInv'
<1>1. TypeOK'
  BY DEF IInv, CreateFails, Goto, TypeOK, PCs, Ready, Owning
<1>2. FlockBackend'
  BY DEF IInv, CreateFails, Goto, FlockBackend, ShimOnly, TypeOK
<1>3. ShimBackend'
  BY DEF IInv, CreateFails, Goto, TypeOK, ShimBackend
<1>4. OwnersFile'
  BY DEF IInv, CreateFails, Goto, TypeOK, OwnersFile, Owning, Self
<1>5. StampsPast'
  BY DEF IInv, CreateFails, Goto, TypeOK, StampsPast, Past, Removing, Probing
<1>6. FirstLives'
  BY DEF IInv, CreateFails, Goto, TypeOK, FirstLives
<1>7. VerdictSound'
  BY DEF IInv, CreateFails, Goto, TypeOK, VerdictSound, Removing, Running
<1>8. LockfileAccounted'
  BY DEF IInv, CreateFails, Goto, TypeOK, LockfileAccounted, Running, Owner, Owning
<1>9. MisremovalNeedsDeath'
  BY DEF IInv, CreateFails, MisremovalNeedsDeath
<1>10. QED
  BY <1>1, <1>2, <1>3, <1>4, <1>5, <1>6, <1>7, <1>8, <1>9 DEF IInv

\* Writing a stamp changes nobody's ownership.
LEMMA StampKeepsOwner ==
  ASSUME IInv, NEW p \in Proc, NEW stamp \in Stamps, Stamp(p, stamp)
  PROVE  /\ file' \in [pid : Proc \cup {NoProc}, start : Nat, stamp : Stamps]
         /\ Owner(file)' = Owner(file)
         /\ file' # NoFile => file # NoFile
<1>1. file \in [pid : Proc \cup {NoProc}, start : Nat, stamp : Stamps] /\ p # NoProc
  BY ProcAssumption DEF IInv, TypeOK
<1>2. CASE Owner(file) = Self(p)
  <2>1. file.pid # NoProc /\ file' = [file EXCEPT !.stamp = stamp]
    BY <1>2, <1>1 DEF Stamp, Owner, Self
  <2>2. file # NoFile
    BY <2>1 DEF NoFile
  <2>3. /\ file'.pid = file.pid /\ file'.start = file.start
        /\ file' \in [pid : Proc \cup {NoProc}, start : Nat, stamp : Stamps]
    BY <2>1, <1>1
  <2>4. QED
    BY <2>2, <2>3 DEF Owner
<1>3. CASE Owner(file) # Self(p)
  BY <1>3, <1>1 DEF Stamp, Owner
<1>4. QED
  BY <1>2, <1>3

\* Whether the stamp is written whole or in part, p goes on to hold the lock.
LEMMA WriteStampKeeps ==
  ASSUME IInv, NEW p \in Proc, WriteStamp(p)
  PROVE  IInv'
<1>0. /\ file' \in [pid : Proc \cup {NoProc}, start : Nat, stamp : Stamps]
      /\ Owner(file)' = Owner(file)
      /\ file' # NoFile => file # NoFile
  <2>1. PICK stamp \in Stamps : Stamp(p, stamp)
    BY DEF WriteStamp, Stamps
  <2>2. QED
    BY <2>1, StampKeepsOwner
<1>1. TypeOK'
  BY <1>0 DEF IInv, WriteStamp, Goto, TypeOK, PCs, Ready, Owning
<1>2. FlockBackend'
  BY DEF IInv, WriteStamp, Goto, FlockBackend, ShimOnly, TypeOK
<1>3. ShimBackend'
  BY DEF IInv, WriteStamp, Goto, TypeOK, ShimBackend
<1>4. OwnersFile'
  BY <1>0 DEF IInv, WriteStamp, Goto, TypeOK, OwnersFile, Owning, Self
<1>5. StampsPast'
  BY <1>0 DEF IInv, WriteStamp, Goto, TypeOK, StampsPast, Past, Removing, Probing
<1>6. FirstLives'
  BY DEF IInv, WriteStamp, Goto, TypeOK, FirstLives
<1>7. VerdictSound'
  BY DEF IInv, WriteStamp, Goto, TypeOK, VerdictSound, Removing, Running
<1>8. LockfileAccounted'
  BY DEF IInv, WriteStamp, Goto, Stamp, TypeOK, LockfileAccounted, Running,
         Owner, Self, Owning
<1>9. MisremovalNeedsDeath'
  BY DEF IInv, WriteStamp, MisremovalNeedsDeath
<1>10. QED
  BY <1>1, <1>2, <1>3, <1>4, <1>5, <1>6, <1>7, <1>8, <1>9 DEF IInv

\* The file stays p's, with a stamp that nobody completes.
LEMMA StampFailsKeeps ==
  ASSUME IInv, NEW p \in Proc, StampFails(p)
  PROVE  IInv'
<1>0. /\ file' \in [pid : Proc \cup {NoProc}, start : Nat, stamp : Stamps]
      /\ Owner(file)' = Owner(file)
      /\ file' # NoFile => file # NoFile
  <2>1. PICK stamp \in Stamps : Stamp(p, stamp)
    BY DEF StampFails, Stamps
  <2>2. QED
    BY <2>1, StampKeepsOwner
<1>1. TypeOK'
  BY <1>0 DEF IInv, StampFails, Goto, TypeOK, PCs, Ready, Owning
<1>2. FlockBackend'
  BY DEF IInv, StampFails, Goto, FlockBackend, ShimOnly, TypeOK
<1>3. ShimBackend'
  BY DEF IInv, StampFails, Goto, TypeOK, ShimBackend
<1>4. OwnersFile'
  BY <1>0 DEF IInv, StampFails, Goto, TypeOK, OwnersFile, Owning, Self
<1>5. StampsPast'
  BY <1>0 DEF IInv, StampFails, Goto, TypeOK, StampsPast, Past, Removing, Probing
<1>6. FirstLives'
  BY DEF IInv, StampFails, Goto, TypeOK, FirstLives
<1>7. VerdictSound'
  BY DEF IInv, StampFails, Goto, TypeOK, VerdictSound, Removing, Running
<1>8. LockfileAccounted'
  BY DEF IInv, StampFails, Stamp, Goto, TypeOK, LockfileAccounted, Running, Owner, Self,
         Owning
<1>9. MisremovalNeedsDeath'
  BY DEF IInv, StampFails, MisremovalNeedsDeath
<1>10. QED
  BY <1>1, <1>2, <1>3, <1>4, <1>5, <1>6, <1>7, <1>8, <1>9 DEF IInv

\* The stamp read is that of a process that exists or has existed.
LEMMA ReadHolderKeeps ==
  ASSUME IInv, NEW p \in Proc, ReadHolder(p)
  PROVE  IInv'
<1>1. TypeOK'
  BY DEF IInv, ReadHolder, Goto, TypeOK, PCs, Probing, Owner
<1>2. FlockBackend'
  BY DEF IInv, ReadHolder, Goto, FlockBackend, ShimOnly, TypeOK
<1>3. ShimBackend'
  BY DEF IInv, ReadHolder, Goto, TypeOK, ShimBackend
<1>4. OwnersFile'
  BY DEF IInv, ReadHolder, Goto, TypeOK, OwnersFile, Owning, Self
<1>5. StampsPast'
  BY DEF IInv, ReadHolder, Goto, TypeOK, StampsPast, Past, Removing, Probing, NoFile
<1>6. FirstLives'
  BY DEF IInv, ReadHolder, Goto, TypeOK, FirstLives
<1>7. VerdictSound'
  BY DEF IInv, ReadHolder, Goto, TypeOK, VerdictSound, Removing, Running
<1>8. LockfileAccounted'
  BY DEF IInv, ReadHolder, Goto, TypeOK, LockfileAccounted, Running, Owner, Owning
<1>9. MisremovalNeedsDeath'
  BY DEF IInv, ReadHolder, MisremovalNeedsDeath
<1>10. QED
  BY <1>1, <1>2, <1>3, <1>4, <1>5, <1>6, <1>7, <1>8, <1>9 DEF IInv

\* A positive verdict is about a process that does not run.
LEMMA HolderProvablyDeadKeeps ==
  ASSUME IInv, NEW p \in Proc, HolderProvablyDead(p)
  PROVE  IInv'
<1>1. TypeOK'
  BY DEF IInv, HolderProvablyDead, Goto, TypeOK, PCs, Removing, Nobody
<1>2. FlockBackend'
  BY DEF IInv, HolderProvablyDead, Goto, FlockBackend, ShimOnly, TypeOK
<1>3. ShimBackend'
  BY DEF IInv, HolderProvablyDead, Goto, TypeOK, ShimBackend
<1>4. OwnersFile'
  BY DEF IInv, HolderProvablyDead, Goto, TypeOK, OwnersFile, Owning, Self
<1>5. StampsPast'
  BY DEF IInv, HolderProvablyDead, Goto, TypeOK, StampsPast, Past, Removing, Probing
<1>6. FirstLives'
  BY DEF IInv, HolderProvablyDead, Goto, TypeOK, FirstLives
<1>7. VerdictSound'
  BY DEF IInv, HolderProvablyDead, Goto, TypeOK, VerdictSound, Removing, Running,
         ProvablyDead
<1>8. LockfileAccounted'
  BY DEF IInv, HolderProvablyDead, Goto, TypeOK, LockfileAccounted, Running, Owner, Owning
<1>9. MisremovalNeedsDeath'
  BY DEF IInv, HolderProvablyDead, MisremovalNeedsDeath
<1>10. QED
  BY <1>1, <1>2, <1>3, <1>4, <1>5, <1>6, <1>7, <1>8, <1>9 DEF IInv

\* Removing the file of a live process is what misremoved records.
LEMMA TryStealKeeps ==
  ASSUME IInv, NEW p \in Proc, TrySteal(p)
  PROVE  IInv'
<1>1. TypeOK'
  BY DEF IInv, TrySteal, Goto, TypeOK, PCs, Ready, Stamps, NoFile, Nobody, Remove
<1>2. FlockBackend'
  BY DEF IInv, TrySteal, FlockBackend, ShimOnly
<1>3. ShimBackend'
  BY DEF IInv, TrySteal, Goto, ShimBackend
<1>4. OwnersFile'
  BY DEF IInv, TrySteal, Goto, TypeOK, OwnersFile, Owning, Self, Owner, Running, Remove
<1>5. StampsPast'
  BY DEF IInv, TrySteal, Goto, TypeOK, StampsPast, Past, Removing, Probing, Remove
<1>6. FirstLives'
  BY DEF IInv, TrySteal, Goto, FirstLives
<1>7. VerdictSound'
  BY DEF IInv, TrySteal, Goto, TypeOK, VerdictSound, Removing, Running
<1>8. LockfileAccounted'
  BY DEF TrySteal, LockfileAccounted, Remove
<1>9. MisremovalNeedsDeath'
  BY DEF IInv, TrySteal, TypeOK, MisremovalNeedsDeath, FirstLives, VerdictSound,
         StampsPast, Past, FlockBackend, ShimOnly, Running, Removing, Probing
<1>10. QED
  BY <1>1, <1>2, <1>3, <1>4, <1>5, <1>6, <1>7, <1>8, <1>9 DEF IInv

\* Waiting changes nothing.
LEMMA PollKeeps ==
  ASSUME IInv, NEW p \in Proc, Poll(p)
  PROVE  IInv'
<1>1. TypeOK'
  BY DEF IInv, Poll, Goto, TypeOK, PCs, Ready, Stamps
<1>2. FlockBackend'
  BY DEF IInv, Poll, FlockBackend, ShimOnly
<1>3. ShimBackend'
  BY DEF IInv, Poll, Goto, TypeOK, ShimBackend
<1>4. OwnersFile'
  BY DEF IInv, Poll, Goto, TypeOK, OwnersFile, Owning, Self
<1>5. StampsPast'
  BY DEF IInv, Poll, Goto, TypeOK, StampsPast, Past, Removing, Probing
<1>6. FirstLives'
  BY DEF IInv, Poll, Goto, TypeOK, FirstLives
<1>7. VerdictSound'
  BY DEF IInv, Poll, Goto, TypeOK, VerdictSound, Removing, Running
<1>8. LockfileAccounted'
  BY DEF IInv, Poll, Goto, TypeOK, LockfileAccounted, Running, Owner, Owning
<1>9. MisremovalNeedsDeath'
  BY DEF IInv, Poll, MisremovalNeedsDeath
<1>10. QED
  BY <1>1, <1>2, <1>3, <1>4, <1>5, <1>6, <1>7, <1>8, <1>9 DEF IInv

\* A call begins.
LEMMA AcquireExclusiveKeeps ==
  ASSUME IInv, NEW p \in Proc, AcquireExclusive(p)
  PROVE  IInv'
<1>1. TypeOK'
  BY DEF IInv, AcquireExclusive, Goto, TypeOK, PCs, Ready, Stamps
<1>2. FlockBackend'
  BY DEF IInv, AcquireExclusive, Goto, TypeOK, FlockBackend, ShimOnly, Ready
<1>3. ShimBackend'
  BY DEF IInv, AcquireExclusive, Goto, ShimBackend
<1>4. OwnersFile'
  BY DEF IInv, AcquireExclusive, Goto, TypeOK, OwnersFile, Owning, Self, Ready
<1>5. StampsPast'
  BY DEF IInv, AcquireExclusive, Goto, StampsPast, Past, Removing, Probing
<1>6. FirstLives'
  BY DEF IInv, AcquireExclusive, Goto, TypeOK, FirstLives
<1>7. VerdictSound'
  BY DEF IInv, AcquireExclusive, Goto, TypeOK, VerdictSound, Removing, Running, Ready
<1>8. LockfileAccounted'
  BY DEF IInv, AcquireExclusive, Goto, TypeOK, LockfileAccounted, Running, Owning, Ready
<1>9. MisremovalNeedsDeath'
  BY DEF IInv, AcquireExclusive, MisremovalNeedsDeath
<1>10. QED
  BY <1>1, <1>2, <1>3, <1>4, <1>5, <1>6, <1>7, <1>8, <1>9 DEF IInv

\* The holder removes its own file, unless somebody removed it before.
LEMMA ReleaseKeeps ==
  ASSUME IInv, NEW p \in Proc, Release(p)
  PROVE  IInv'
<1>1. TypeOK'
  <2>1. misremoved' \in BOOLEAN
    BY Zenon DEF IInv, TypeOK, Release, Remove
  <2>2. /\ flock' \in Proc \cup {NoProc}
        /\ file' \in [pid : Proc \cup {NoProc}, start : Nat, stamp : Stamps]
    <3>1. NoFile \in [pid : Proc \cup {NoProc}, start : Nat, stamp : Stamps]
      BY Zenon DEF NoFile, Stamps
    <3>2. QED
      BY <3>1 DEF IInv, TypeOK, Release, Remove
  <2>3. QED
    BY <2>1, <2>2 DEF IInv, TypeOK, Release, Goto, PCs, Ready, Stamps
<1>2. FlockBackend'
  BY ProcAssumption DEF IInv, Release, Goto, TypeOK, FlockBackend, ShimOnly
<1>3. ShimBackend'
  BY DEF IInv, Release, Goto, ShimBackend
<1>4. OwnersFile'
  BY DEF IInv, Release, Goto, TypeOK, OwnersFile, Owning, Self, Remove
<1>5. StampsPast'
  BY DEF IInv, Release, Goto, StampsPast, Past, Removing, Probing, Remove
<1>6. FirstLives'
  BY DEF IInv, Release, Goto, FirstLives
<1>7. VerdictSound'
  BY DEF IInv, Release, Goto, VerdictSound, Removing, Running
<1>8. LockfileAccounted'
  <2>1. CASE backend = "shim"
    BY <2>1 DEF Release, Remove, LockfileAccounted
  <2>2. CASE backend = "flock"
    BY <2>2 DEF IInv, FlockBackend, Release, LockfileAccounted
  <2>3. QED
    BY <2>1, <2>2 DEF IInv, TypeOK
<1>9. MisremovalNeedsDeath'
  BY DEF IInv, Release, TypeOK, MisremovalNeedsDeath, OwnersFile, Owner, Self, Owning,
         Remove
<1>10. QED
  BY <1>1, <1>2, <1>3, <1>4, <1>5, <1>6, <1>7, <1>8, <1>9 DEF IInv

\* Whoever dies owns nothing; verdicts about it only become truer.
LEMMA CrashKeeps ==
  ASSUME IInv, NEW p \in Proc, Crash(p)
  PROVE  IInv'
<1>1. TypeOK'
  BY BoundAssumption DEF IInv, Crash, Goto, TypeOK, PCs, Ready, Stamps, Nobody
<1>2. FlockBackend'
  BY ProcAssumption DEF IInv, Crash, Goto, TypeOK, FlockBackend, ShimOnly
<1>3. ShimBackend'
  BY DEF IInv, Crash, Goto, ShimBackend
<1>4. OwnersFile'
  BY DEF IInv, Crash, Goto, TypeOK, OwnersFile, Owning, Self, Owner
<1>5. StampsPast'
  BY DEF IInv, Crash, Goto, TypeOK, StampsPast, Past, Removing, Probing
<1>6. FirstLives'
  BY BoundAssumption DEF IInv, Crash, Goto, TypeOK, FirstLives
<1>7. VerdictSound'
  BY DEF IInv, Crash, Goto, TypeOK, VerdictSound, Removing, Running
<1>8. LockfileAccounted'
  BY DEF IInv, Crash, Goto, LockfileAccounted, Running, Owner
<1>9. MisremovalNeedsDeath'
  BY DEF IInv, Crash, TypeOK, MisremovalNeedsDeath
<1>10. QED
  BY <1>1, <1>2, <1>3, <1>4, <1>5, <1>6, <1>7, <1>8, <1>9 DEF IInv

\* Whoever ends between two calls owns nothing it is still using.
LEMMA ExitKeeps ==
  ASSUME IInv, NEW p \in Proc, Exit(p)
  PROVE  IInv'
<1>1. TypeOK'
  BY BoundAssumption DEF IInv, Exit, Goto, TypeOK, PCs, Ready
<1>2. FlockBackend'
  BY DEF IInv, Exit, Goto, FlockBackend, ShimOnly, TypeOK, Ready
<1>3. ShimBackend'
  BY DEF IInv, Exit, Goto, TypeOK, ShimBackend
<1>4. OwnersFile'
  BY DEF IInv, Exit, Goto, TypeOK, OwnersFile, Owning, Self, Ready
<1>5. StampsPast'
  BY DEF IInv, Exit, Goto, TypeOK, StampsPast, Past, Removing, Probing,
         Ready
<1>6. FirstLives'
  BY BoundAssumption DEF IInv, Exit, Goto, TypeOK, FirstLives
<1>7. VerdictSound'
  BY DEF IInv, Exit, Goto, TypeOK, VerdictSound, Removing, Running, Ready
<1>8. LockfileAccounted'
  BY DEF IInv, Exit, Goto, TypeOK, LockfileAccounted, Running, Owner, Owning, Ready
<1>9. MisremovalNeedsDeath'
  BY DEF IInv, Exit, TypeOK, MisremovalNeedsDeath
<1>10. QED
  BY <1>1, <1>2, <1>3, <1>4, <1>5, <1>6, <1>7, <1>8, <1>9 DEF IInv

\* A reused pid has a later start time, so verdicts stay sound.
LEMMA RestartKeeps ==
  ASSUME IInv, NEW p \in Proc, Restart(p)
  PROVE  IInv'
<1>1. TypeOK'
  BY DEF IInv, Restart, Goto, TypeOK, PCs, Ready, Stamps
<1>2. FlockBackend'
  BY DEF IInv, Restart, Goto, FlockBackend, ShimOnly
<1>3. ShimBackend'
  BY DEF IInv, Restart, Goto, ShimBackend
<1>4. OwnersFile'
  BY DEF IInv, Restart, Goto, OwnersFile, Owning, Self
<1>5. StampsPast'
  BY DEF IInv, Restart, Goto, TypeOK, StampsPast, Past, Removing, Probing, Owner
<1>6. FirstLives'
  BY DEF IInv, Restart, FirstLives
<1>7. VerdictSound'
  BY DEF IInv, Restart, Goto, TypeOK, VerdictSound, StampsPast, Past, Removing,
         Probing, Running
<1>8. LockfileAccounted'
  BY DEF IInv, Restart, Goto, TypeOK, LockfileAccounted, StampsPast, Past, Running,
         Owner
<1>9. MisremovalNeedsDeath'
  BY DEF IInv, Restart, MisremovalNeedsDeath
<1>10. QED
  BY <1>1, <1>2, <1>3, <1>4, <1>5, <1>6, <1>7, <1>8, <1>9 DEF IInv

\* The command begins.
LEMMA UnlockKeeps ==
  ASSUME IInv, NEW p \in Proc, Unlock(p)
  PROVE  IInv'
<1>1. TypeOK'
  BY DEF IInv, Unlock, Goto, TypeOK, PCs, Ready, Stamps
<1>2. FlockBackend'
  BY DEF IInv, Unlock, Goto, TypeOK, FlockBackend, ShimOnly, Ready
<1>3. ShimBackend'
  BY DEF IInv, Unlock, Goto, ShimBackend
<1>4. OwnersFile'
  BY DEF IInv, Unlock, Goto, TypeOK, OwnersFile, Owning, Self, Ready
<1>5. StampsPast'
  BY DEF IInv, Unlock, Goto, StampsPast, Past, Removing, Probing
<1>6. FirstLives'
  BY DEF IInv, Unlock, Goto, TypeOK, FirstLives
<1>7. VerdictSound'
  BY DEF IInv, Unlock, Goto, TypeOK, VerdictSound, Removing, Running, Ready
<1>8. LockfileAccounted'
  BY DEF IInv, Unlock, Goto, TypeOK, LockfileAccounted, Running, Owning, Ready
<1>9. MisremovalNeedsDeath'
  BY DEF IInv, Unlock, MisremovalNeedsDeath
<1>10. QED
  BY <1>1, <1>2, <1>3, <1>4, <1>5, <1>6, <1>7, <1>8, <1>9 DEF IInv

\* The command leaves the file alone.
LEMMA UnlockDeclinesKeeps ==
  ASSUME IInv, NEW p \in Proc, UnlockDeclines(p)
  PROVE  IInv'
<1>1. TypeOK'
  BY DEF IInv, UnlockDeclines, Goto, TypeOK, PCs, Ready, Stamps
<1>2. FlockBackend'
  BY DEF IInv, UnlockDeclines, Goto, FlockBackend, ShimOnly
<1>3. ShimBackend'
  BY DEF IInv, UnlockDeclines, Goto, ShimBackend
<1>4. OwnersFile'
  BY DEF IInv, UnlockDeclines, Goto, OwnersFile, Owning, Self
<1>5. StampsPast'
  BY DEF IInv, UnlockDeclines, Goto, StampsPast, Past, Removing, Probing
<1>6. FirstLives'
  BY DEF IInv, UnlockDeclines, Goto, FirstLives
<1>7. VerdictSound'
  BY DEF IInv, UnlockDeclines, Goto, VerdictSound, Removing, Running
<1>8. LockfileAccounted'
  BY DEF IInv, UnlockDeclines, Goto, LockfileAccounted, Running, Owning
<1>9. MisremovalNeedsDeath'
  BY DEF IInv, UnlockDeclines, MisremovalNeedsDeath
<1>10. QED
  BY <1>1, <1>2, <1>3, <1>4, <1>5, <1>6, <1>7, <1>8, <1>9 DEF IInv

\* The stamp read is that of a process that exists or has existed.
LEMMA UnlockReadsHolderKeeps ==
  ASSUME IInv, NEW p \in Proc, UnlockReadsHolder(p)
  PROVE  IInv'
<1>1. TypeOK'
  BY DEF IInv, UnlockReadsHolder, Goto, TypeOK, PCs, Probing, Owner
<1>2. FlockBackend'
  BY DEF IInv, UnlockReadsHolder, Goto, FlockBackend, ShimOnly, TypeOK, NoFile
<1>3. ShimBackend'
  BY DEF IInv, UnlockReadsHolder, Goto, TypeOK, ShimBackend
<1>4. OwnersFile'
  BY DEF IInv, UnlockReadsHolder, Goto, TypeOK, OwnersFile, Owning, Self
<1>5. StampsPast'
  BY DEF IInv, UnlockReadsHolder, Goto, TypeOK, StampsPast, Past, Removing, Probing,
         NoFile
<1>6. FirstLives'
  BY DEF IInv, UnlockReadsHolder, Goto, TypeOK, FirstLives
<1>7. VerdictSound'
  BY DEF IInv, UnlockReadsHolder, Goto, TypeOK, VerdictSound, Removing, Running
<1>8. LockfileAccounted'
  BY DEF IInv, UnlockReadsHolder, Goto, TypeOK, LockfileAccounted, Running, Owner, Owning
<1>9. MisremovalNeedsDeath'
  BY DEF IInv, UnlockReadsHolder, MisremovalNeedsDeath
<1>10. QED
  BY <1>1, <1>2, <1>3, <1>4, <1>5, <1>6, <1>7, <1>8, <1>9 DEF IInv

\* A positive verdict is about a process that does not run.
LEMMA UnlockDecidesKeeps ==
  ASSUME IInv, NEW p \in Proc, UnlockDecides(p)
  PROVE  IInv'
<1>1. TypeOK'
  BY DEF IInv, UnlockDecides, Goto, TypeOK, PCs, Ready, Removing, Nobody
<1>2. FlockBackend'
  BY DEF IInv, UnlockDecides, Goto, FlockBackend, ShimOnly, TypeOK
<1>3. ShimBackend'
  BY DEF IInv, UnlockDecides, Goto, TypeOK, ShimBackend
<1>4. OwnersFile'
  BY DEF IInv, UnlockDecides, Goto, TypeOK, OwnersFile, Owning, Self
<1>5. StampsPast'
  BY DEF IInv, UnlockDecides, Goto, TypeOK, StampsPast, Past, Removing, Probing
<1>6. FirstLives'
  BY DEF IInv, UnlockDecides, Goto, TypeOK, FirstLives
<1>7. VerdictSound'
  BY DEF IInv, UnlockDecides, Goto, TypeOK, VerdictSound, Removing, Running, ProvablyDead
<1>8. LockfileAccounted'
  BY DEF IInv, UnlockDecides, Goto, TypeOK, LockfileAccounted, Running, Owner, Owning
<1>9. MisremovalNeedsDeath'
  BY DEF IInv, UnlockDecides, MisremovalNeedsDeath
<1>10. QED
  BY <1>1, <1>2, <1>3, <1>4, <1>5, <1>6, <1>7, <1>8, <1>9 DEF IInv

\* Removing the file of a live process is what misremoved records.
LEMMA UnlockRemovesKeeps ==
  ASSUME IInv, NEW p \in Proc, UnlockRemoves(p)
  PROVE  IInv'
<1>1. TypeOK'
  BY DEF IInv, UnlockRemoves, Goto, TypeOK, PCs, Ready, Stamps, NoFile, Nobody, Remove
<1>2. FlockBackend'
  BY DEF IInv, UnlockRemoves, FlockBackend, ShimOnly
<1>3. ShimBackend'
  BY DEF IInv, UnlockRemoves, Goto, ShimBackend
<1>4. OwnersFile'
  BY DEF IInv, UnlockRemoves, Goto, TypeOK, OwnersFile, Owning, Self, Owner, Running,
         Remove
<1>5. StampsPast'
  BY DEF IInv, UnlockRemoves, Goto, TypeOK, StampsPast, Past, Removing, Probing, Remove
<1>6. FirstLives'
  BY DEF IInv, UnlockRemoves, Goto, FirstLives
<1>7. VerdictSound'
  BY DEF IInv, UnlockRemoves, Goto, TypeOK, VerdictSound, Removing, Running
<1>8. LockfileAccounted'
  BY DEF UnlockRemoves, LockfileAccounted, Remove
<1>9. MisremovalNeedsDeath'
  BY DEF IInv, UnlockRemoves, TypeOK, MisremovalNeedsDeath, FirstLives, VerdictSound,
         StampsPast, Past, FlockBackend, ShimOnly, Running, Removing, Probing
<1>10. QED
  BY <1>1, <1>2, <1>3, <1>4, <1>5, <1>6, <1>7, <1>8, <1>9 DEF IInv

\* Nothing is held, judged or dead at the start.
LEMMA InitInv == Init => IInv
<1> SUFFICES ASSUME Init PROVE IInv
  OBVIOUS
<1>1. TypeOK
  <2>1. misremoved \in BOOLEAN
    BY Zenon DEF Init
  <2>2. NoFile \in [pid : Proc \cup {NoProc}, start : Nat, stamp : Stamps]
    BY Zenon DEF NoFile, Stamps
  <2>3. QED
    BY <2>1, <2>2, BackendAssumption, BoundAssumption DEF Init, TypeOK, PCs, Ready,
           Stamps, Nobody
<1>2. FlockBackend /\ ShimBackend /\ OwnersFile
  BY ProcAssumption DEF Init, FlockBackend, ShimBackend, OwnersFile, ShimOnly, Owning
<1>3. StampsPast /\ FirstLives /\ VerdictSound /\ LockfileAccounted /\ MisremovalNeedsDeath
  BY DEF Init, StampsPast, FirstLives, VerdictSound, LockfileAccounted,
         MisremovalNeedsDeath,
         Removing, Probing
<1>4. QED
  BY <1>1, <1>2, <1>3 DEF IInv

\* Every step keeps the inductive invariant.
LEMMA NextInv == IInv /\ [Next]_vars => IInv'
<1> SUFFICES ASSUME IInv, [Next]_vars PROVE IInv'
  OBVIOUS
<1>1. CASE UNCHANGED vars
  BY <1>1 DEF vars, IInv, TypeOK, FlockBackend, ShimBackend, OwnersFile, StampsPast,
              Past,
              FirstLives, VerdictSound, LockfileAccounted, MisremovalNeedsDeath, Running,
              Self, Owner
<1>2. ASSUME NEW p \in Proc, Run(p) PROVE IInv'
  BY <1>2, AcquireFlockKeeps, FlockTimeoutKeeps, TryCreateKeeps, CreateFailsKeeps,
     WriteStampKeeps, StampFailsKeeps, ReadHolderKeeps, HolderProvablyDeadKeeps,
     TryStealKeeps, PollKeeps, UnlockDeclinesKeeps, UnlockReadsHolderKeeps, UnlockDecidesKeeps,
     UnlockRemovesKeeps, ReleaseKeeps DEF Run
<1>3. QED
  BY <1>1, <1>2, AcquireExclusiveKeeps, UnlockKeeps, CrashKeeps, ExitKeeps,
     RestartKeeps DEF Next

\* Whatever the processes do, die of and restart as, all of this stays true
\* (the whole of lock.ts).
THEOREM Invariance == Spec => []IInv
BY InitInv, NextInv, PTL DEF Spec

-----------------------------------------------------------------------------
(* What follows from the invariant *)

\* Every variable keeps its type (ChainLock).
THEOREM TypeCorrect == Spec => []TypeOK
<1>1. IInv => TypeOK
  BY DEF IInv
<1>2. QED
  BY <1>1, Invariance, PTL

\* Two processes hold the lock only after the lockfile of a live process was
\* removed (shimTrySteal, forceUnlockIfDead, shimRelease).
THEOREM ExclusiveUnlessMisremoved == Spec => []ExclusiveUntilMisremoved
<1>1. IInv => ExclusiveUntilMisremoved
  <2> SUFFICES ASSUME IInv, ~misremoved, NEW p \in Holders, NEW q \in Holders PROVE p = q
    BY DEF ExclusiveUntilMisremoved, MutualExclusion
  <2>1. p \in Proc /\ pc[p] = "held" /\ q \in Proc /\ pc[q] = "held"
    BY DEF Holders
  <2>2. CASE backend = "flock"
    BY <2>1, <2>2 DEF IInv, FlockBackend
  <2>3. CASE backend = "shim"
    <3>1. Owner(file) = Self(p) /\ Owner(file) = Self(q)
      BY <2>1, <2>3 DEF IInv, OwnersFile, Owning
    <3>2. QED
      BY <3>1 DEF Self
  <2>4. QED
    BY <2>2, <2>3 DEF IInv, TypeOK
<1>2. QED
  BY <1>1, Invariance, PTL

\* With the flock backend the lock excludes, whoever dies (acquireFlock).
THEOREM FlockExcludes == Spec => [](backend = "flock" => MutualExclusion)
<1>1. IInv => (backend = "flock" => MutualExclusion)
  BY DEF IInv, FlockBackend, MutualExclusion, Holders
<1>2. QED
  BY <1>1, Invariance, PTL

\* While no process has ended no live process loses its lockfile, whatever the
\* backend; one that exits normally is enough to lose this
\* (shimHolderProvablyDead).
THEOREM SafeUntilDeath == Spec => []MisremovalNeedsDeath
<1>1. IInv => MisremovalNeedsDeath
  BY DEF IInv
<1>2. QED
  BY <1>1, Invariance, PTL

\* A remover's verdict stays true until it removes, however pids are reused
\* (shimHolderProvablyDead).
THEOREM VerdictsAreSound == Spec => []VerdictSound
<1>1. IInv => VerdictSound
  BY DEF IInv
<1>2. QED
  BY <1>1, Invariance, PTL

\* A lockfile means an owner, a process that is gone, or a write of the stamp that
\* threw (shimTryCreate, shimRelease).
THEOREM LockfilesAccounted == Spec => []LockfileAccounted
<1>1. IInv => LockfileAccounted
  BY DEF IInv
<1>2. QED
  BY <1>1, Invariance, PTL

-----------------------------------------------------------------------------
(* The lock as those who append rely on it *)

Mutex == INSTANCE ChainMutex WITH holders <- Holders

\* A step is of one process, and a removal is not forgotten.
LEMMA OneMoves ==
  ASSUME NEW p \in Proc, pc \in [Proc -> PCs],
         AcquireExclusive(p) \/ Unlock(p) \/ Run(p) \/ Crash(p) \/ Exit(p) \/ Restart(p)
  PROVE  /\ \A q \in Proc \ {p} : pc'[q] = pc[q]
         /\ backend' = backend
         /\ misremoved => misremoved'
<1>1. CASE AcquireFlock(p) \/ FlockTimeout(p)
  BY <1>1 DEF AcquireFlock, FlockTimeout, Goto
<1>2. CASE TryCreate(p) \/ CreateFails(p) \/ WriteStamp(p) \/ StampFails(p)
  <2>1. UNCHANGED <<backend, misremoved>> /\ \E label : pc' = [pc EXCEPT ![p] = label]
    BY <1>2 DEF TryCreate, CreateFails, WriteStamp, StampFails, Goto
  <2>2. QED
    BY <2>1
<1>3. CASE \/ ReadHolder(p) \/ HolderProvablyDead(p) \/ Poll(p)
           \/ UnlockDeclines(p) \/ UnlockReadsHolder(p) \/ UnlockDecides(p)
  <2>1. UNCHANGED <<backend, misremoved>> /\ \E label : pc' = [pc EXCEPT ![p] = label]
    BY <1>3 DEF ReadHolder, HolderProvablyDead, Poll, UnlockDeclines, UnlockReadsHolder,
                UnlockDecides, Goto
  <2>2. QED
    BY <2>1
<1>4. ASSUME Remove(p)
      PROVE  misremoved => misremoved'
  BY <1>4, Zenon DEF Remove
<1>5. CASE TrySteal(p) \/ UnlockRemoves(p) \/ Release(p)
  <2>1. /\ backend' = backend /\ (Remove(p) \/ misremoved' = misremoved)
        /\ \E label : pc' = [pc EXCEPT ![p] = label]
    BY <1>5 DEF TrySteal, UnlockRemoves, Release, Goto
  <2>2. QED
    BY <1>4, <2>1
<1>6. CASE AcquireExclusive(p) \/ Unlock(p) \/ Crash(p) \/ Exit(p) \/ Restart(p)
  BY <1>6 DEF AcquireExclusive, Unlock, Crash, Exit, Restart, Goto
<1>7. QED
  BY <1>1, <1>2, <1>3, <1>4, <1>5, <1>6 DEF Run

\* Where one process moves, and there is one holder at most before and after,
\* the holder leaves, or one enters that finds no other.
LEMMA StepEntersOrLeaves ==
  ASSUME MutualExclusion, MutualExclusion', NEW p \in Proc,
         \A q \in Proc \ {p} : pc'[q] = pc[q]
  PROVE  [Mutex!Next]_Holders
<1>1. \A q \in Proc \ {p} : q \in Holders' <=> q \in Holders
  BY DEF Holders
<1>2. Holders \subseteq Proc /\ Holders' \subseteq Proc
  BY DEF Holders
<1>3. CASE p \in Holders /\ p \notin Holders'
  <2>1. Holders = {p}
    BY <1>3 DEF MutualExclusion
  <2>2. Holders' = {}
    BY <1>1, <1>2, <1>3, <2>1
  <2>3. QED
    BY <2>1, <2>2 DEF Mutex!Next, Mutex!Leave
<1>4. CASE p \notin Holders /\ p \in Holders'
  <2>1. Holders' = {p}
    BY <1>4 DEF MutualExclusion
  <2>2. Holders = {}
    BY <1>1, <1>2, <1>4, <2>1
  <2>3. QED
    BY <2>1, <2>2 DEF Mutex!Next, Mutex!Enter
<1>5. CASE p \in Holders <=> p \in Holders'
  BY <1>1, <1>2, <1>5
<1>6. QED
  BY <1>3, <1>4, <1>5

\* A step is one of the mutex unless a live process's lockfile has been removed.
LEMMA StepIsMutex ==
  IInv /\ ExclusiveUntilMisremoved /\ ExclusiveUntilMisremoved' /\ [Next]_vars =>
    [misremoved' \/ Mutex!Next]_Holders /\ backend' = backend
<1> SUFFICES ASSUME IInv, ExclusiveUntilMisremoved, ExclusiveUntilMisremoved', [Next]_vars
             PROVE  (misremoved' \/ [Mutex!Next]_Holders) /\ backend' = backend
  OBVIOUS
<1>1. CASE UNCHANGED vars
  BY <1>1 DEF vars, Holders
<1>2. ASSUME NEW p \in Proc,
             AcquireExclusive(p) \/ Unlock(p) \/ Run(p) \/ Crash(p) \/ Exit(p) \/ Restart(p)
      PROVE  (misremoved' \/ [Mutex!Next]_Holders) /\ backend' = backend
  <2>1. /\ \A q \in Proc \ {p} : pc'[q] = pc[q]
        /\ backend' = backend
        /\ misremoved => misremoved'
    BY <1>2, OneMoves DEF IInv, TypeOK
  <2>2. ASSUME ~misremoved'
        PROVE  [Mutex!Next]_Holders
    BY <2>1, <2>2, StepEntersOrLeaves DEF ExclusiveUntilMisremoved
  <2>3. QED
    BY <2>1, <2>2
<1>3. QED
  BY <1>1, <1>2 DEF Next

\* Until the lockfile of a live process is removed, the lock, whichever backend
\* it has and whoever dies holding it or waiting for it, implements the mutex.
THEOREM LockIsMutexUntilMisremoved ==
  Spec => Mutex!Init /\ [][misremoved' \/ Mutex!Next]_Holders
<1>1. Init => Mutex!Init
  BY DEF Init, Mutex!Init, Holders
<1>2. QED
  BY <1>1, StepIsMutex, Invariance, ExclusiveUnlessMisremoved, PTL DEF Spec

\* With the flock backend it implements the mutex, and that is the lock the event
\* log takes (acquireFlock, release).
THEOREM FlockImplementsMutex == Spec => (backend = "flock" => Mutex!Spec)
<1>2. IInv => MisremovalNeedsDeath
  BY DEF IInv
<1>3. backend = "flock" /\ backend' = backend => backend' = "flock"
  OBVIOUS
<1>4. Init => Mutex!Init
  BY DEF Init, Mutex!Init, Holders
<1>5. (backend = "flock")' /\ MisremovalNeedsDeath' /\ [misremoved' \/ Mutex!Next]_Holders
        => [Mutex!Next]_Holders
  BY DEF MisremovalNeedsDeath
<1>6. IInv /\ ExclusiveUntilMisremoved /\ ExclusiveUntilMisremoved' /\ [Next]_vars
        /\ backend = "flock" => (backend = "flock")'
  BY StepIsMutex
<1>7. QED
  BY <1>2, <1>4, <1>5, <1>6, StepIsMutex, Invariance, ExclusiveUnlessMisremoved, PTL
     DEF Spec, Mutex!Spec
=============================================================================
