----------------------------- MODULE ChainLock -----------------------------
(***************************************************************************)
(* The exclusive lock of one chain segment, as the processes that append   *)
(* to the chain take it, lose it by dying, and clean up after each other.  *)
(*                                                                         *)
(* Two backends, fixed for a run.  With `flock` the kernel keeps the       *)
(* holder and forgets it when the holder exits.  With `shim` the lock is a *)
(* file created with O_EXCL and then stamped with the pid and start time   *)
(* of its creator; nobody removes it when the creator dies, so a waiter,   *)
(* or an operator with `witseal unlock`, reads the stamp, judges whether   *)
(* that process is dead, and removes the file.  Reading the stamp, probing *)
(* the process it names and removing the file are separate steps: between  *)
(* the first two the holder may release and exit, and the file removed is  *)
(* the one at the path by then.                                            *)
(*                                                                         *)
(* A member of Proc is a pid.  A pid whose process died or exited is used  *)
(* again by a process with another start time, so a pid and a start time   *)
(* name one process.                                                       *)
(***************************************************************************)
EXTENDS Naturals, FiniteSets

CONSTANTS Proc,        \* pids
          NoProc,      \* nobody
          Backends,    \* backends to run with: a subset of {"flock", "shim"}
          MaxCrashes,  \* bound: processes that are killed
          MaxExits     \* bound: processes that end between two calls

ASSUME ProcAssumption    == NoProc \notin Proc
ASSUME BackendAssumption == Backends \subseteq {"flock", "shim"}
ASSUME BoundAssumption   == MaxCrashes \in Nat /\ MaxExits \in Nat

VARIABLES
  backend,
  flock,       \* the pid the kernel lists as holder of <segment>.lock
  file,        \* the file at <segment>.lockfile
  pc,          \* what each process is doing
  start,       \* start time of the process that has, or last had, each pid
  suspect,     \* the process whose stamp each pid has read
  misremoved,  \* history: a process removed another live process's lockfile
  crashes,
  exits

vars == <<backend, flock, file, pc, start, suspect, misremoved, crashes, exits>>

\* The stamp is not written yet, can be read back, or was written in part or
\* not at all: nobody will complete it.
Stamps == {"none", "whole", "broken"}

NoFile == [pid |-> NoProc, start |-> 0, stamp |-> "none"]
Nobody == [pid |-> NoProc, start |-> 0]

\* Between the O_EXCL open and the write of the stamp, and with the lock.
Owning == {"stamp", "held"}
\* Has read a stamp, and does not know yet whether its process runs.
Probing == {"probe", "unlockProbe"}
\* About to remove a file it judged an orphan.
Removing == {"steal", "unlink"}
\* Between two calls; the last one may have thrown.
Ready == {"idle", "threw"}
PCs == {"create", "check", "poll", "waitFlock", "unlockCheck", "dead"}
         \cup Owning \cup Probing \cup Removing \cup Ready

Holders == {p \in Proc : pc[p] = "held"}

Running(who) == who.pid \in Proc /\ pc[who.pid] # "dead" /\ start[who.pid] = who.start

Self(p)  == [pid |-> p, start |-> start[p]]
Owner(f) == [pid |-> f.pid, start |-> f.start]

Init ==
  /\ backend \in Backends
  /\ flock = NoProc
  /\ file = NoFile
  /\ pc = [p \in Proc |-> "idle"]
  /\ start = [p \in Proc |-> 0]
  /\ suspect = [p \in Proc |-> Nobody]
  /\ misremoved = FALSE
  /\ crashes = 0
  /\ exits = 0

Goto(p, label) == pc' = [pc EXCEPT ![p] = label]

-----------------------------------------------------------------------------
(* flock *)

AcquireFlock(p) ==
  /\ pc[p] = "waitFlock"
  /\ flock = NoProc
  /\ flock' = p
  /\ Goto(p, "held")
  /\ UNCHANGED <<backend, file, start, suspect, misremoved, crashes, exits>>

FlockTimeout(p) ==
  /\ pc[p] = "waitFlock"
  /\ flock # NoProc
  /\ Goto(p, "idle")
  /\ UNCHANGED <<backend, flock, file, start, suspect, misremoved, crashes, exits>>

-----------------------------------------------------------------------------
(* The lockfile *)

\* A bug: the start time is not compared, so a reused pid looks alive.
PidOnlyDead(who) == pc[who.pid] = "dead"

\* The process does not run: its pid is gone, or has another start time.  (Start
\* times are taken to be known; where the platform cannot tell them, a reused
\* pid counts as alive.)
ProvablyDead(who) == ~Running(who)

\* Whoever removes the file at the path removes whatever is there by now.  (The
\* directory is one the processes may write: renaming and unlinking an existing
\* file in it are taken to succeed.)
Remove(p) ==
  /\ file' = NoFile
  /\ misremoved' = (misremoved \/ (Running(Owner(file)) /\ file.pid # p))

\* A bug: the file holds a bare pid.
CreateBarePid(p) ==
  /\ pc[p] = "create"
  /\ IF file = NoFile
       THEN file' = [pid |-> p, stamp |-> "none"] /\ Goto(p, "stamp")
       ELSE Goto(p, "check") /\ UNCHANGED file
  /\ UNCHANGED <<backend, flock, start, suspect, misremoved, crashes, exits>>

\* A bug: opened without O_EXCL.
CreateOverwrites(p) ==
  /\ pc[p] = "create"
  /\ file' = [pid |-> p, start |-> start[p], stamp |-> "none"]
  /\ Goto(p, "stamp")
  /\ UNCHANGED <<backend, flock, start, suspect, misremoved, crashes, exits>>

TryCreate(p) ==
  /\ pc[p] = "create"
  /\ IF file = NoFile
       THEN /\ file' = [pid |-> p, start |-> start[p], stamp |-> "none"]
            /\ Goto(p, "stamp")
       ELSE Goto(p, "check") /\ UNCHANGED file
  /\ UNCHANGED <<backend, flock, start, suspect, misremoved, crashes, exits>>

\* Opening the file fails for another reason than EEXIST.
CreateFails(p) ==
  /\ pc[p] = "create"
  /\ Goto(p, "threw")
  /\ UNCHANGED <<backend, flock, file, start, suspect, misremoved, crashes, exits>>

\* The stamp is written through the descriptor, to the file p created,
\* wherever that file is now.
Stamp(p, stamp) ==
  file' = IF Owner(file) = Self(p) THEN [file EXCEPT !.stamp = stamp] ELSE file

\* How much of it was written is not looked at: p holds the lock all the same.
WriteStamp(p) ==
  /\ pc[p] = "stamp"
  /\ Stamp(p, "whole") \/ Stamp(p, "broken")
  /\ Goto(p, "held")
  /\ UNCHANGED <<backend, flock, start, suspect, misremoved, crashes, exits>>

\* The write throws, and the file stays.
StampFails(p) ==
  /\ pc[p] = "stamp"
  /\ Stamp(p, "broken")
  /\ Goto(p, "threw")
  /\ UNCHANGED <<backend, flock, start, suspect, misremoved, crashes, exits>>

\* A bug: a file without a stamp counts as that of a dead process.
EagerRead(p) ==
  /\ pc[p] = "check"
  /\ Goto(p, IF file.stamp = "whole" THEN "probe" ELSE "steal")
  /\ suspect' = [suspect EXCEPT ![p] = Owner(file)]
  /\ UNCHANGED <<backend, flock, file, start, misremoved, crashes, exits>>

\* No file or no stamp, no verdict.
ReadHolder(p) ==
  /\ pc[p] = "check"
  /\ IF file.stamp = "whole"
       THEN Goto(p, "probe") /\ suspect' = [suspect EXCEPT ![p] = Owner(file)]
       ELSE Goto(p, "poll") /\ UNCHANGED suspect
  /\ UNCHANGED <<backend, flock, file, start, misremoved, crashes, exits>>

\* Signal 0 and the start time are one step: what the second of them finds is
\* the verdict, unless the first found no process, which stays gone.
HolderProvablyDead(p) ==
  /\ pc[p] = "probe"
  /\ IF ProvablyDead(suspect[p])
       THEN Goto(p, "steal") /\ UNCHANGED suspect
       ELSE Goto(p, "poll") /\ suspect' = [suspect EXCEPT ![p] = Nobody]
  /\ UNCHANGED <<backend, flock, file, start, misremoved, crashes, exits>>

\* Rename the file away and unlink it; the clock is not looked at.
TrySteal(p) ==
  /\ pc[p] = "steal"
  /\ Remove(p)
  /\ Goto(p, "create")
  /\ suspect' = [suspect EXCEPT ![p] = Nobody]
  /\ UNCHANGED <<backend, flock, start, crashes, exits>>

\* Sleep and try again, or throw when the timeout has passed.
Poll(p) ==
  /\ pc[p] = "poll"
  /\ Goto(p, "create") \/ Goto(p, "idle")
  /\ UNCHANGED <<backend, flock, file, start, suspect, misremoved, crashes, exits>>

-----------------------------------------------------------------------------
(* Both backends *)

AcquireExclusive(p) ==
  /\ pc[p] \in Ready
  /\ Goto(p, IF backend = "flock" THEN "waitFlock" ELSE "create")
  /\ UNCHANGED <<backend, flock, file, start, suspect, misremoved, crashes, exits>>

\* A bug: the lockfile is not unlinked.
ReleaseKeepsFile(p) ==
  /\ pc[p] = "held"
  /\ Goto(p, "idle")
  /\ flock' = IF backend = "flock" THEN NoProc ELSE flock
  /\ UNCHANGED <<backend, file, start, suspect, misremoved, crashes, exits>>

Release(p) ==
  /\ pc[p] = "held"
  /\ Goto(p, "idle")
  /\ IF backend = "flock"
       THEN flock' = NoProc /\ UNCHANGED <<file, misremoved>>
       ELSE Remove(p) /\ UNCHANGED flock
  /\ UNCHANGED <<backend, start, suspect, crashes, exits>>

\* Killed anywhere.  The kernel drops the flock; the lockfile stays.
Crash(p) ==
  /\ pc[p] # "dead"
  /\ crashes < MaxCrashes
  /\ crashes' = crashes + 1
  /\ flock' = IF flock = p THEN NoProc ELSE flock
  /\ suspect' = [suspect EXCEPT ![p] = Nobody]
  /\ Goto(p, "dead")
  /\ UNCHANGED <<backend, file, start, misremoved, exits>>

\* The process has done its work; it holds no lock.
Exit(p) ==
  /\ pc[p] \in Ready
  /\ exits < MaxExits
  /\ exits' = exits + 1
  /\ Goto(p, "dead")
  /\ UNCHANGED <<backend, flock, file, start, suspect, misremoved, crashes>>

\* The pid goes to a new process.
Restart(p) ==
  /\ pc[p] = "dead"
  /\ start' = [start EXCEPT ![p] = @ + 1]
  /\ Goto(p, "idle")
  /\ UNCHANGED <<backend, flock, file, suspect, misremoved, crashes, exits>>

-----------------------------------------------------------------------------
(* witseal unlock *)

Unlock(p) ==
  /\ pc[p] \in Ready
  /\ Goto(p, "unlockCheck")
  /\ UNCHANGED <<backend, flock, file, start, suspect, misremoved, crashes, exits>>

\* No lockfile, or no stamp to be read: report that and exit.
UnlockDeclines(p) ==
  /\ pc[p] = "unlockCheck"
  /\ file.stamp # "whole"
  /\ Goto(p, "idle")
  /\ UNCHANGED <<backend, flock, file, start, suspect, misremoved, crashes, exits>>

UnlockReadsHolder(p) ==
  /\ pc[p] = "unlockCheck"
  /\ file.stamp = "whole"
  /\ suspect' = [suspect EXCEPT ![p] = Owner(file)]
  /\ Goto(p, "unlockProbe")
  /\ UNCHANGED <<backend, flock, file, start, misremoved, crashes, exits>>

\* The holder lives: the file is left alone.
UnlockDecides(p) ==
  /\ pc[p] = "unlockProbe"
  /\ IF ProvablyDead(suspect[p])
       THEN Goto(p, "unlink") /\ UNCHANGED suspect
       ELSE Goto(p, "idle") /\ suspect' = [suspect EXCEPT ![p] = Nobody]
  /\ UNCHANGED <<backend, flock, file, start, misremoved, crashes, exits>>

UnlockRemoves(p) ==
  /\ pc[p] = "unlink"
  /\ Remove(p)
  /\ suspect' = [suspect EXCEPT ![p] = Nobody]
  /\ Goto(p, "idle")
  /\ UNCHANGED <<backend, flock, start, crashes, exits>>

-----------------------------------------------------------------------------
\* Steps of a call that has begun.
Run(p) ==
  \/ AcquireFlock(p) \/ FlockTimeout(p)
  \/ TryCreate(p) \/ CreateFails(p) \/ WriteStamp(p) \/ StampFails(p)
  \/ ReadHolder(p) \/ HolderProvablyDead(p) \/ TrySteal(p) \/ Poll(p)
  \/ UnlockDeclines(p) \/ UnlockReadsHolder(p) \/ UnlockDecides(p) \/ UnlockRemoves(p)
  \/ Release(p)

Next ==
  \E p \in Proc :
    AcquireExclusive(p) \/ Unlock(p) \/ Run(p) \/ Crash(p) \/ Exit(p) \/ Restart(p)

Spec == Init /\ [][Next]_vars

FairSpec == Spec /\ \A p \in Proc : WF_vars(Run(p))

-----------------------------------------------------------------------------
(* Properties *)

TypeOK ==
  /\ backend \in {"flock", "shim"}
  /\ flock \in Proc \cup {NoProc}
  /\ file \in [pid : Proc \cup {NoProc}, start : Nat, stamp : Stamps]
  /\ pc \in [Proc -> PCs]
  /\ start \in [Proc -> Nat]
  /\ suspect \in [Proc -> [pid : Proc \cup {NoProc}, start : Nat]]
  /\ misremoved \in BOOLEAN
  /\ crashes \in 0..MaxCrashes
  /\ exits \in 0..MaxExits

\* What the lock is for: at most one process holds it.  True of flock.
MutualExclusion == \A p, q \in Holders : p = q

\* The only way to two holders is that somebody removed the lockfile of a
\* live process: O_EXCL creation, stamping, releasing and dying alone never
\* let a second one in.
ExclusiveUntilMisremoved == misremoved \/ MutualExclusion

\* As long as no process has ended the lockfile is as good as flock: no live
\* process's file is removed by another.  A normal exit is enough to lose this: a
\* waiter reads the holder's stamp, the holder releases and exits, another
\* process creates its file, and the waiter, which now finds the first holder
\* gone, renames that file away.
MisremovalNeedsDeath == misremoved => crashes + exits > 0 /\ backend = "shim"

\* Whoever is about to remove a lockfile judged a process that is really
\* dead, however pids are reused (shimHolderProvablyDead).
VerdictSound == \A p \in Proc : pc[p] \in Removing => ~Running(suspect[p])

\* A process that lives leaves no lockfile behind, unless it failed to stamp it:
\* its creator has the lock, is about to have it, or does not run.  The one
\* exception is a write of the stamp that throws: acquireExclusive throws with
\* it, and the file, which nobody will ever judge, stays (shimTryCreate).
LockfileAccounted ==
  file # NoFile =>
    ~Running(Owner(file)) \/ pc[file.pid] \in Owning \/ file.stamp = "broken"

Orphan == file.stamp = "whole" /\ ~Running(Owner(file))

\* A waiter that meets the stamped lockfile of a process that is gone gets past
\* it: the file is removed while the waiter lives, unless opening it throws.
WaiterClearsOrphan ==
  \A p \in Proc :
    pc[p] = "create" /\ Orphan ~> ~Orphan \/ pc[p] \in {"threw", "dead"}

\* `witseal unlock` leaves no lockfile of a dead process behind: when it
\* declines for want of a stamp, the file is absent or its creator lives.
UnlockClearsOrphans ==
  [][\A p \in Proc : UnlockDeclines(p) => file = NoFile \/ Running(Owner(file))]_vars
=============================================================================
