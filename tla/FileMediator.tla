---------------------------- MODULE FileMediator ----------------------------
(***************************************************************************)
(* mediateFile: a write or a read of one path, checked first and then      *)
(* opened by name.  Several calls, of one process or of many, work on the  *)
(* same path at once; nothing keeps them apart.  Somebody else may replace *)
(* what is at the path at any time, and a disk may fill up.                *)
(*                                                                         *)
(* The path is a parent directory entry and a target entry.  A target that *)
(* is a regular file is the number of its inode; a symbolic link leads to  *)
(* inode Elsewhere.  Content is a sequence of parts; a call writes its own *)
(* parts, one `write` each, at the offset of its descriptor.               *)
(***************************************************************************)
EXTENDS Integers, FiniteSets, Sequences

CONSTANTS Call,            \* concurrent calls of mediateFile
          Modes,           \* a subset of {"overwrite", "append", "create_only", "read"}
          Checks,          \* a subset of {"good", "absent", "size", "hash"}
          Parts,           \* writes one content takes
          MaxReplacements  \* bound: times somebody replaces the target or the parent

ASSUME ModesAssumption == Modes \subseteq {"overwrite", "append", "create_only", "read"}
ASSUME PartsAssumption == Parts \in Nat \ {0} /\ MaxReplacements \in Nat
ASSUME CallAssumption == "other" \notin Call /\ "hole" \notin Call

VARIABLES
  parent, target,  \* what is at the two directory entries
  data,            \* content of each inode
  fpc, req,        \* where each call is, and what it was asked
  fd, offset,      \* inode each call has open, and how far it wrote or read
  outcome,         \* its result
  touched,         \* history: inodes a call created, truncated or wrote
  replacements,    \* history: how often an entry was replaced
  checkedAt        \* history: that number when a call looked at the target

fsVars   == <<parent, target, data, replacements>>
callVars == <<fpc, req, fd, offset, outcome, touched, checkedAt>>
fileVars == <<parent, target, data, replacements, fpc, req, fd, offset, outcome,
              touched, checkedAt>>

Elsewhere == 0
Closed  == -1
Missing == -1
Link    == -2
Dir     == -3
Inodes == DOMAIN data
NoReq == [mode |-> "none", check |-> "good"]
PartOf(c, k) == [by |-> c, n |-> k]
Foreign == [by |-> "other", n |-> 1]
Hole    == [by |-> "hole", n |-> 0]

\* A regular file, nothing, a link or a directory at the target.
FileInit ==
  /\ parent \in {"dir", "link", "file", "missing"}
  /\ target \in {1, Missing, Link, Dir}
  /\ parent \in {"file", "missing"} => target = Missing
  /\ data = [i \in 0..1 |-> <<Foreign>>]
  /\ fpc = [c \in Call |-> "idle"] /\ req = [c \in Call |-> NoReq]
  /\ fd = [c \in Call |-> Closed] /\ offset = [c \in Call |-> 0]
  /\ outcome = [c \in Call |-> "none"]
  /\ touched = [c \in Call |-> {}]
  /\ replacements = 0 /\ checkedAt = [c \in Call |-> 0]

Goto(c, label) == fpc' = [fpc EXCEPT ![c] = label]

\* fileResult: exit code 0 without an error, 1 with one.
Resolve(c, result) ==
  /\ Goto(c, "done")
  /\ outcome' = [outcome EXCEPT ![c] = result]

-----------------------------------------------------------------------------
(* Before the file is opened *)

\* Content, its size and its hash are checked before anything is touched.
MediateFile(c, mode, check) ==
  /\ fpc[c] = "idle"
  /\ mode = "read" => check = "good"
  /\ req' = [req EXCEPT ![c] = [mode |-> mode, check |-> check]]
  /\ IF check = "good" THEN Goto(c, "parent") /\ UNCHANGED outcome
     ELSE Resolve(c, "refused")
  /\ UNCHANGED <<fsVars, fd, offset, touched, checkedAt>>

\* lstat of the parent: it must be a directory and no link.
CheckParent(c) ==
  /\ fpc[c] = "parent"
  /\ IF parent = "dir" THEN Goto(c, "target") /\ UNCHANGED outcome
     ELSE Resolve(c, "refused")
  /\ UNCHANGED <<fsVars, req, fd, offset, touched, checkedAt>>

\* A bug: stat instead of lstat, so a link counts as the file it leads to.
AcceptableFollowing(c) ==
  target \in Inodes \cup {Link} \/ (target = Missing /\ req[c].mode # "read")

\* A regular file, or for a write nothing yet.
Acceptable(c) == target \in Inodes \/ (target = Missing /\ req[c].mode # "read")

CheckTarget(c) ==
  /\ fpc[c] = "target"
  /\ checkedAt' = [checkedAt EXCEPT ![c] = replacements]
  /\ IF Acceptable(c) THEN Goto(c, "open") /\ UNCHANGED outcome
     ELSE Resolve(c, "refused")
  /\ UNCHANGED <<fsVars, req, fd, offset, touched>>

-----------------------------------------------------------------------------
(* Opening and writing *)

\* A bug: create_only opens without O_EXCL.
OpenableAlways(c) ==
  /\ parent \in {"dir", "link"}
  /\ target # Dir
  /\ req[c].mode = "read" => target # Missing

\* open(2) follows a link, except with O_EXCL, which takes no existing entry.
Openable(c) ==
  /\ parent \in {"dir", "link"}
  /\ target # Dir
  /\ req[c].mode = "create_only" => target = Missing
  /\ req[c].mode = "read" => target # Missing

OpenFails(c) ==
  /\ fpc[c] = "open"
  /\ ~Openable(c)
  /\ Resolve(c, "failed")
  /\ UNCHANGED <<fsVars, req, fd, offset, touched, checkedAt>>

\* 'w' truncates, 'a' does not; both create what is missing, as 'wx' does.
OpenFile(c) ==
  LET ino == IF target = Missing THEN Cardinality(Inodes)
             ELSE IF target = Link THEN Elsewhere ELSE target
      changes == target = Missing \/ req[c].mode = "overwrite"
  IN
  /\ fpc[c] = "open"
  /\ Openable(c)
  /\ fd' = [fd EXCEPT ![c] = ino]
  /\ data' = [i \in Inodes \cup {ino} |->
                IF i = ino /\ changes THEN <<>> ELSE data[i]]
  /\ target' = IF target = Missing THEN ino ELSE target
  /\ touched' = [touched EXCEPT ![c] = @ \cup (IF changes THEN {ino} ELSE {})]
  /\ Goto(c, IF req[c].mode = "read" THEN "reading" ELSE "writing")
  /\ UNCHANGED <<parent, replacements, req, offset, outcome, checkedAt>>

\* Content with part x at position k; what lies between is a hole.
PutAt(s, k, x) ==
  [i \in 1..(IF k > Len(s) THEN k ELSE Len(s)) |->
     IF i = k THEN x ELSE IF i <= Len(s) THEN s[i] ELSE Hole]

WritePart(c) ==
  LET s == data[fd[c]]
      k == IF req[c].mode = "append" THEN Len(s) + 1 ELSE offset[c] + 1
  IN
  /\ fpc[c] = "writing"
  /\ offset[c] < Parts
  /\ offset' = [offset EXCEPT ![c] = @ + 1]
  /\ data' = [data EXCEPT ![fd[c]] = PutAt(s, k, PartOf(c, offset[c] + 1))]
  /\ touched' = [touched EXCEPT ![c] = @ \cup {fd[c]}]
  /\ UNCHANGED <<parent, target, replacements, fpc, req, fd, outcome, checkedAt>>

\* A bug: every mode writes once and does not look at how much was written.
AllMayBeShort(c) == offset[c] >= 1

\* writeFile and appendFile write until everything is written; create_only
\* writes once and ignores how much that was.
WriteComplete(c) ==
  offset[c] = Parts \/ (req[c].mode = "create_only" /\ offset[c] >= 1)

WriteReturns(c) ==
  /\ fpc[c] = "writing"
  /\ WriteComplete(c)
  /\ Resolve(c, "ok")
  /\ UNCHANGED <<fsVars, req, fd, offset, touched, checkedAt>>

\* No space left, an I/O error, or a close that fails: what was written stays.
WriteFails(c) ==
  /\ fpc[c] = "writing"
  /\ Resolve(c, "failed")
  /\ UNCHANGED <<fsVars, req, fd, offset, touched, checkedAt>>

\* The stream of a read ends at the end of the file, or with an error.
ReadReturns(c, result) ==
  /\ fpc[c] = "reading"
  /\ Resolve(c, result)
  /\ offset' = [offset EXCEPT ![c] = IF result = "ok" THEN Len(data[fd[c]]) ELSE 0]
  /\ UNCHANGED <<fsVars, req, fd, touched, checkedAt>>

-----------------------------------------------------------------------------
(* Somebody else *)

\* Another program puts something else at the target, or at the parent.
Replace ==
  /\ replacements < MaxReplacements
  /\ replacements' = replacements + 1
  /\ \/ /\ target' \in {Missing, Link, Dir} \ {target}
        /\ parent = "dir"
        /\ UNCHANGED parent
     \/ /\ parent' \in {"dir", "link", "missing"} \ {parent}
        /\ target' = IF parent' = "missing" THEN Missing ELSE target
  /\ UNCHANGED <<data, callVars>>

FileStep(c) ==
  \/ \E mode \in Modes, check \in Checks : MediateFile(c, mode, check)
  \/ CheckParent(c) \/ CheckTarget(c)
  \/ OpenFails(c) \/ OpenFile(c)
  \/ WritePart(c) \/ WriteReturns(c) \/ WriteFails(c)
  \/ \E result \in {"ok", "failed"} : ReadReturns(c, result)

FileNext == Replace \/ \E c \in Call : FileStep(c)

FileSpec == FileInit /\ [][FileNext]_fileVars

-----------------------------------------------------------------------------
(* Properties *)

\* Calls that write to the inode c has open.
Sharing(c) == {d \in Call \ {c} : fd[d] = fd[c] /\ req[d].mode # "read"}

Writes(c) == req[c].mode # "read"

\* The last n parts of inode i are the first n of call c, and no others are c's.
EndsWith(i, c, n) ==
  LET before == Len(data[i]) - n
  IN /\ before >= 0
     /\ \A k \in 1..before : data[i][k].by # c
     /\ \A k \in 1..n : data[i][before + k] = PartOf(c, k)

\* What a call answers is true of the file.  A refusal, and the failure of an
\* exclusive create, left everything alone.  A success of a call that shares
\* its inode with no other wrote all of its parts, in order, at the end; the
\* exception is create_only, whose write may have come back short.
FileResultTruthful ==
  \A c \in Call :
    /\ outcome[c] = "refused" => touched[c] = {}
    /\ outcome[c] = "failed" /\ fd[c] = Closed => touched[c] = {}
    /\ outcome[c] # "none" /\ ~Writes(c) => touched[c] = {}
    /\ outcome[c] = "ok" /\ Writes(c) /\ Sharing(c) = {} =>
         \E n \in 1..Parts :
           /\ EndsWith(fd[c], c, n)
           /\ n = Parts \/ req[c].mode = "create_only"
           /\ req[c].mode # "append" => n = Len(data[fd[c]])

\* A file that a create_only call reports as created is new and its own: no
\* other create_only call reports the same one, and nothing of what was there
\* before the call is lost.
CreateOnlyOnce ==
  \A c \in Call : outcome[c] = "ok" /\ req[c].mode = "create_only" =>
    /\ fd[c] \notin 0..1
    /\ \A d \in Call \ {c} : outcome[d] = "ok" /\ req[d].mode = "create_only" => fd[d] # fd[c]

\* A call reaches a file through a symbolic link only if the path was changed
\* after the call had looked at it.
LinksOnlyIfReplaced ==
  \A c \in Call : fd[c] = Elsewhere => checkedAt[c] < replacements
=============================================================================
