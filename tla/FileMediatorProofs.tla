------------------------- MODULE FileMediatorProofs -------------------------
(***************************************************************************)
(* Proofs about FileMediator, for any number of concurrent calls of any    *)
(* modes, any number of parts and of replacements of the path.             *)
(***************************************************************************)
EXTENDS FileMediator, FiniteSetTheorems, TLAPS

-----------------------------------------------------------------------------
(* The inductive invariant *)

AllModes == {"overwrite", "append", "create_only", "read", "none"}
Piece == [by : Call \cup {"other", "hole"}, n : Nat]

FileTypeOK ==
  /\ \E last \in Nat \ {0} : DOMAIN data = 0..last
  /\ data \in [DOMAIN data -> Seq(Piece)]
  /\ target \in (DOMAIN data \ {Elsewhere}) \cup {Missing, Link, Dir}
  /\ fpc \in [Call -> {"idle", "parent", "target", "open", "writing", "reading", "done"}]
  /\ req \in [Call -> [mode : AllModes, check : Checks \cup {"good"}]]
  /\ fd \in [Call -> DOMAIN data \cup {Closed}]
  /\ offset \in [Call -> Nat]
  /\ outcome \in [Call -> {"none", "refused", "failed", "ok"}]
  /\ touched \in [Call -> SUBSET DOMAIN data]
  /\ replacements \in Nat /\ checkedAt \in [Call -> Nat]

\* Where a call is tells whether it has a file open, and how it ended.
PlaceFits(c) ==
  /\ fpc[c] \in {"idle", "parent", "target", "open"} => fd[c] = Closed /\ offset[c] = 0
  /\ fpc[c] \in {"writing", "reading"} => fd[c] # Closed
  /\ fpc[c] = "writing" => Writes(c)
  /\ fpc[c] = "reading" => ~Writes(c)
  /\ fpc[c] # "idle" => req[c].mode # "none"
  /\ fpc[c] # "done" => outcome[c] = "none"
  /\ outcome[c] = "refused" => fd[c] = Closed
  /\ outcome[c] = "ok" => fd[c] # Closed

\* A call looked at the target before it opens it, and saw no link there.
LookedFits(c) ==
  /\ checkedAt[c] <= replacements
  /\ fpc[c] = "open" => checkedAt[c] < replacements \/ target # Link
  /\ fd[c] = Elsewhere => checkedAt[c] < replacements

\* Nothing is touched without a file open, nor ever by a read.
TouchedFits(c) == fd[c] = Closed \/ ~Writes(c) => touched[c] = {}

\* Every exclusive create has a file that was not there before.
Creates(c) == fd[c] # Closed /\ req[c].mode = "create_only"
CreatedFits(c) ==
  Creates(c) => fd[c] \notin 0..1 /\ \A d \in Call \ {c} : Creates(d) => fd[d] # fd[c]

\* What a call wrote into a file of its own is at its end.
WrittenFits(c) ==
  fd[c] # Closed /\ Writes(c) =>
    /\ offset[c] <= Parts
    /\ outcome[c] = "ok" => WriteComplete(c)
    /\ Sharing(c) = {} =>
         /\ EndsWith(fd[c], c, offset[c])
         /\ req[c].mode # "append" => offset[c] = Len(data[fd[c]])

\* There is nothing of a call that has opened no file yet.
UnwrittenFits(c) ==
  fd[c] = Closed => \A i \in DOMAIN data : \A k \in DOMAIN data[i] : data[i][k].by # c

CallFits(c) ==
  /\ PlaceFits(c) /\ LookedFits(c) /\ TouchedFits(c)
  /\ CreatedFits(c) /\ WrittenFits(c) /\ UnwrittenFits(c)

FInv == FileTypeOK /\ \A c \in Call : CallFits(c)


-----------------------------------------------------------------------------
(* Lemmas *)

\* Inode numbers are counted, so the next one is new.
LEMMA NextInode ==
  ASSUME NEW last \in Nat, DOMAIN data = 0..last
  PROVE  Cardinality(Inodes) = last + 1
<1>1. last >= 0 /\ Cardinality(0..last) = IF 0 > last THEN 0 ELSE last - 0 + 1
  BY FS_Interval
<1>2. QED
  BY <1>1 DEF Inodes

\* What a write leaves in a file.
LEMMA PutAtIs ==
  ASSUME NEW s \in Seq(Piece), NEW k \in Nat \ {0}, NEW x \in Piece
  PROVE  /\ PutAt(s, k, x) \in Seq(Piece)
         /\ DOMAIN PutAt(s, k, x) = 1..Len(PutAt(s, k, x))
         /\ Len(PutAt(s, k, x)) = IF k > Len(s) THEN k ELSE Len(s)
         /\ \A i \in DOMAIN PutAt(s, k, x) :
              PutAt(s, k, x)[i] = IF i = k THEN x ELSE IF i <= Len(s) THEN s[i] ELSE Hole
<1> DEFINE m == IF k > Len(s) THEN k ELSE Len(s)
<1>1. m \in Nat /\ Hole \in Piece
  BY DEF Hole, Piece
<1>2. PutAt(s, k, x) = [i \in 1..m |->
                          IF i = k THEN x ELSE IF i <= Len(s) THEN s[i] ELSE Hole]
  BY DEF PutAt
<1>3. \A i \in 1..m : (IF i = k THEN x ELSE IF i <= Len(s) THEN s[i] ELSE Hole) \in Piece
  BY <1>1
<1> HIDE DEF m
<1>4. PutAt(s, k, x) \in Seq(Piece) /\ Len(PutAt(s, k, x)) = m
  BY <1>1, <1>2, <1>3
<1>5. QED
  BY <1>1, <1>2, <1>4 DEF m

\* A step that opens and writes nothing, of call c.
Quiet(c) ==
  /\ UNCHANGED <<target, data, fd, touched, replacements>>
  /\ \A d \in Call \ {c} :
       /\ fpc'[d] = fpc[d] /\ offset'[d] = offset[d]
       /\ outcome'[d] = outcome[d] /\ checkedAt'[d] = checkedAt[d]
       /\ req'[d] = req[d]
  /\ fd[c] # Closed => req'[c] = req[c]

\* It leaves the other calls what they are, and what is shared.
LEMMA QuietKeeps ==
  ASSUME FInv, NEW c \in Call, Quiet(c)
  PROVE  /\ \A d \in Call \ {c} : CallFits(d)'
         /\ \A d \in Call : CreatedFits(d)' /\ UnwrittenFits(d)'
         /\ \A d \in Call : fd[d] # Closed => Sharing(d)' = Sharing(d)
<1>1. \A d \in Call : fd[d] # Closed => req'[d] = req[d]
  BY DEF Quiet
<1>2. \A d \in Call : fd[d] # Closed => Sharing(d)' = Sharing(d)
  <2> SUFFICES ASSUME NEW d \in Call, fd[d] # Closed PROVE Sharing(d)' = Sharing(d)
    OBVIOUS
  <2>1. \A e \in Call : fd[e] = fd[d] => req'[e] = req[e]
    BY <1>1
  <2>2. fd' = fd
    BY DEF Quiet
  <2>3. QED
    BY <2>1, <2>2 DEF Sharing
<1>3. \A d \in Call : CreatedFits(d)' /\ UnwrittenFits(d)'
  BY <1>1 DEF FInv, CallFits, CreatedFits, UnwrittenFits, Creates, Quiet
<1>4. ASSUME NEW d \in Call \ {c} PROVE CallFits(d)'
  <2>1. CallFits(d)
    BY DEF FInv
  <2>2. PlaceFits(d)' /\ LookedFits(d)' /\ TouchedFits(d)'
    BY <2>1 DEF CallFits, PlaceFits, LookedFits, TouchedFits, Writes, Quiet
  <2>3. WrittenFits(d)'
    BY <1>2, <2>1 DEF CallFits, WrittenFits, Writes, WriteComplete, EndsWith, Quiet
  <2>4. QED
    BY <1>3, <2>2, <2>3 DEF CallFits
<1>5. QED
  BY <1>2, <1>3, <1>4

-----------------------------------------------------------------------------
(* Every step keeps the invariant *)

\* The initial states satisfy it.
LEMMA FInvInit == FileInit => FInv
<1> SUFFICES ASSUME FileInit PROVE FInv
  OBVIOUS
<1>1. FileTypeOK
  <2>1. DOMAIN data = 0..1 /\ data \in [DOMAIN data -> Seq(Piece)]
    <3>1. Foreign \in Piece
      BY DEF Foreign, Piece
    <3>2. <<Foreign>> \in Seq(Piece)
      BY <3>1
    <3>3. QED
      BY <3>2 DEF FileInit
  <2>2. req \in [Call -> [mode : AllModes, check : Checks \cup {"good"}]]
    BY DEF FileInit, NoReq, AllModes
  <2>3. QED
    BY <2>1, <2>2 DEF FileInit, FileTypeOK, Elsewhere, Closed
<1>2. ASSUME NEW c \in Call PROVE CallFits(c)
  <2>1. PlaceFits(c) /\ LookedFits(c) /\ TouchedFits(c)
    BY DEF FileInit, PlaceFits, LookedFits, TouchedFits, Elsewhere, Closed
  <2>2. CreatedFits(c) /\ WrittenFits(c)
    BY DEF FileInit, CreatedFits, Creates, WrittenFits
  <2>3. UnwrittenFits(c)
    BY CallAssumption DEF FileInit, UnwrittenFits, Foreign
  <2>4. QED
    BY <2>1, <2>2, <2>3 DEF CallFits
<1>3. QED
  BY <1>1, <1>2 DEF FInv

\* Somebody replaces what is at the path.
LEMMA ReplaceKeeps == FInv /\ Replace => FInv'
<1> SUFFICES ASSUME FInv, Replace PROVE FInv'
  OBVIOUS
<1>1. UNCHANGED <<data, callVars>> /\ replacements' = replacements + 1
  BY DEF Replace
<1>2. target' \in {Missing, Link, Dir, target}
  BY DEF Replace
<1>3. FileTypeOK'
  BY <1>1, <1>2 DEF FInv, FileTypeOK, callVars
<1>4. ASSUME NEW c \in Call PROVE CallFits(c)'
  <2>1. CallFits(c)
    BY DEF FInv
  <2>2. LookedFits(c)'
    BY <1>1, <2>1 DEF FInv, FileTypeOK, CallFits, LookedFits, callVars
  <2>3. QED
    BY <1>1, <2>1, <2>2 DEF CallFits, PlaceFits, TouchedFits, CreatedFits, WrittenFits,
       UnwrittenFits, Creates, Writes, WriteComplete, Sharing, EndsWith, callVars
<1>5. QED
  BY <1>3, <1>4 DEF FInv

\* Content that is checked first, and the two looks at the path.
LEMMA LooksKeep ==
  ASSUME FInv, NEW c \in Call,
         \/ \E mode \in Modes, check \in Checks : MediateFile(c, mode, check)
         \/ CheckParent(c) \/ CheckTarget(c) \/ OpenFails(c)
  PROVE  FInv'
<1> USE DEF Goto, Resolve, fsVars
<1>1. CallFits(c) /\ fd[c] = Closed /\ offset[c] = 0 /\ touched[c] = {} /\ outcome[c] = "none"
      /\ checkedAt[c] <= replacements
  BY DEF FInv, CallFits, PlaceFits, LookedFits, TouchedFits, MediateFile, CheckParent, CheckTarget, OpenFails
<1>2. FileTypeOK'
  <2>1. CASE \E mode \in Modes, check \in Checks : MediateFile(c, mode, check)
    <3>1. PICK mode \in Modes, check \in Checks : MediateFile(c, mode, check)
      BY <2>1
    <3>2. [mode |-> mode, check |-> check] \in [mode : AllModes, check : Checks \cup {"good"}]
      BY ModesAssumption DEF AllModes
    <3>3. req' \in [Call -> [mode : AllModes, check : Checks \cup {"good"}]]
      BY <3>1, <3>2 DEF FInv, FileTypeOK, MediateFile
    <3>4. QED
      BY <3>1, <3>3 DEF FInv, FileTypeOK, MediateFile
  <2>2. CASE CheckParent(c) \/ OpenFails(c)
    BY <2>2 DEF FInv, FileTypeOK, CheckParent, OpenFails
  <2>3. CASE CheckTarget(c)
    BY <2>3 DEF FInv, FileTypeOK, CheckTarget
  <2>4. QED
    BY <2>1, <2>2, <2>3
<1>3. Quiet(c)
  BY <1>1 DEF FInv, FileTypeOK, Quiet, MediateFile, CheckParent, CheckTarget, OpenFails
<1>4. /\ fd'[c] = Closed /\ offset'[c] = 0 /\ touched'[c] = {}
      /\ fpc'[c] \in {"parent", "target", "open", "done"}
      /\ fpc'[c] # "done" => outcome'[c] = "none"
      /\ fpc'[c] = "done" => outcome'[c] \in {"refused", "failed"}
      /\ fpc'[c] = "open" => target' # Link
      /\ req'[c].mode # "none"
      /\ checkedAt'[c] <= replacements'
  <2>1. CASE \E mode \in Modes, check \in Checks : MediateFile(c, mode, check)
    <3>1. PICK mode \in Modes, check \in Checks : MediateFile(c, mode, check)
      BY <2>1
    <3>2. req'[c].mode = mode /\ mode # "none"
      BY <3>1, ModesAssumption DEF FInv, FileTypeOK, MediateFile
    <3>3. QED
      BY <1>1, <3>1, <3>2 DEF FInv, FileTypeOK, MediateFile
  <2>2. CASE CheckParent(c)
    BY <1>1, <2>2 DEF FInv, FileTypeOK, CheckParent, CallFits, PlaceFits
  <2>3. CASE CheckTarget(c)
    <3>1. Acceptable(c) => target # Link
      BY DEF FInv, FileTypeOK, Acceptable, Inodes, Link, Missing
    <3>2. QED
      BY <1>1, <2>3, <3>1 DEF FInv, FileTypeOK, CheckTarget, CallFits, PlaceFits
  <2>4. CASE OpenFails(c)
    BY <1>1, <2>4 DEF FInv, FileTypeOK, OpenFails, CallFits, PlaceFits
  <2>5. QED
    BY <2>1, <2>2, <2>3, <2>4
<1>5. PlaceFits(c)' /\ LookedFits(c)' /\ TouchedFits(c)' /\ WrittenFits(c)'
  BY <1>4 DEF PlaceFits, LookedFits, TouchedFits, WrittenFits, Closed, Elsewhere
<1>6. CallFits(c)'
  BY <1>3, <1>5, QuietKeeps DEF CallFits
<1>7. QED
  BY <1>2, <1>3, <1>6, QuietKeeps DEF FInv

\* A write or a read that ends, well or not.
LEMMA ReturnsKeep ==
  ASSUME FInv, NEW c \in Call,
         \/ WriteReturns(c) \/ WriteFails(c)
         \/ \E answer \in {"ok", "failed"} : ReadReturns(c, answer)
  PROVE  FInv'
<1> USE DEF Goto, Resolve, fsVars
<1>1. CallFits(c) /\ fd[c] # Closed /\ fd[c] \in DOMAIN data
      /\ Len(data[fd[c]]) \in Nat
  BY DEF FInv, FileTypeOK, CallFits, PlaceFits, WriteReturns, WriteFails, ReadReturns
<1>2. FileTypeOK'
  <2>1. CASE WriteReturns(c) \/ WriteFails(c)
    BY <2>1 DEF FInv, FileTypeOK, WriteReturns, WriteFails
  <2>2. CASE \E answer \in {"ok", "failed"} : ReadReturns(c, answer)
    BY <1>1, <2>2 DEF FInv, FileTypeOK, ReadReturns
  <2>3. QED
    BY <2>1, <2>2
<1>3. Quiet(c)
  BY DEF FInv, FileTypeOK, Quiet, WriteReturns, WriteFails, ReadReturns
<1>4. /\ fpc'[c] = "done" /\ outcome'[c] \in {"ok", "failed"} /\ req'[c] = req[c]
      /\ UNCHANGED <<fd, data, touched, checkedAt, replacements, target>>
      /\ Writes(c) => offset'[c] = offset[c]
      /\ Writes(c) /\ outcome'[c] = "ok" => WriteComplete(c)
  <2>1. CASE WriteReturns(c) \/ WriteFails(c)
    BY <2>1 DEF FInv, FileTypeOK, WriteReturns, WriteFails
  <2>2. CASE \E answer \in {"ok", "failed"} : ReadReturns(c, answer)
    BY <1>1, <2>2 DEF FInv, FileTypeOK, ReadReturns, CallFits, PlaceFits
  <2>3. QED
    BY <2>1, <2>2
<1>5. PlaceFits(c)' /\ LookedFits(c)' /\ TouchedFits(c)'
  BY <1>1, <1>4 DEF CallFits, PlaceFits, LookedFits, TouchedFits, Writes
<1>6. WrittenFits(c)'
  <2>1. Sharing(c)' = Sharing(c)
    BY <1>1, <1>3, QuietKeeps
  <2>2. QED
    BY <1>1, <1>4, <2>1 DEF CallFits, WrittenFits, Writes, WriteComplete, EndsWith
<1>7. CallFits(c)'
  BY <1>3, <1>5, <1>6, QuietKeeps DEF CallFits
<1>8. QED
  BY <1>2, <1>3, <1>7, QuietKeeps DEF FInv

\* Opening: a file that is new, cut to nothing, or left as it is.
LEMMA OpenKeeps ==
  ASSUME FInv, NEW c \in Call, OpenFile(c)
  PROVE  FInv'
<1> DEFINE ino == IF target = Missing THEN Cardinality(Inodes)
                  ELSE IF target = Link THEN Elsewhere ELSE target
           changes == target = Missing \/ req[c].mode = "overwrite"
<1> USE DEF Goto
<1>1. PICK last \in Nat \ {0} : DOMAIN data = 0..last
  BY DEF FInv, FileTypeOK
<1>2. /\ fpc[c] = "open" /\ Openable(c)
      /\ fd' = [fd EXCEPT ![c] = ino]
      /\ data' = [i \in Inodes \cup {ino} |-> IF i = ino /\ changes THEN <<>> ELSE data[i]]
      /\ target' = IF target = Missing THEN ino ELSE target
      /\ touched' = [touched EXCEPT ![c] = @ \cup (IF changes THEN {ino} ELSE {})]
      /\ fpc' = [fpc EXCEPT ![c] = IF req[c].mode = "read" THEN "reading" ELSE "writing"]
      /\ UNCHANGED <<parent, replacements, req, offset, outcome, checkedAt>>
  BY DEF OpenFile
<1>3. CallFits(c) /\ fd[c] = Closed /\ offset[c] = 0 /\ touched[c] = {} /\ outcome[c] = "none"
  BY <1>2 DEF FInv, CallFits, PlaceFits, TouchedFits
<1>4. /\ target = Missing => ino = last + 1
      /\ target # Missing => ino \in DOMAIN data
      /\ ino = Elsewhere => target = Link
      /\ ino \in Nat
  BY <1>1, <1>2, NextInode
     DEF FInv, FileTypeOK, Openable, Inodes, Missing, Link, Dir, Elsewhere
<1>5. /\ ~changes => target # Missing /\ req[c].mode # "overwrite"
      /\ changes => target = Missing \/ req[c].mode = "overwrite"
      /\ req[c].mode = "read" => ~changes
      /\ req[c].mode = "create_only" => target = Missing
  BY <1>2 DEF Openable
<1> HIDE DEF ino, changes
<1>6. /\ \A d \in Call \ {c} : fd'[d] = fd[d] /\ touched'[d] = touched[d] /\ fpc'[d] = fpc[d]
      /\ fd'[c] = ino
      /\ touched'[c] = IF changes THEN {ino} ELSE {}
      /\ fpc'[c] = IF req[c].mode = "read" THEN "reading" ELSE "writing"
  BY <1>2, <1>3 DEF FInv, FileTypeOK
<1>7. /\ DOMAIN data' = DOMAIN data \cup {ino}
      /\ \A i \in DOMAIN data : i # ino \/ ~changes => data'[i] = data[i]
      /\ changes => data'[ino] = <<>>
  BY <1>2 DEF Inodes
<1>8. FileTypeOK'
  <2>1. \E m \in Nat \ {0} : DOMAIN data' = 0..m
    <3>1. CASE target = Missing
      <4>1. DOMAIN data' = 0..(last + 1)
        BY <1>1, <1>4, <1>7, <3>1
      <4>2. QED
        BY <4>1
    <3>2. CASE target # Missing
      BY <1>1, <1>4, <1>7, <3>2
    <3>3. QED
      BY <3>1, <3>2
  <2>2. data' \in [DOMAIN data' -> Seq(Piece)]
    <3>1. \A i \in DOMAIN data' : data'[i] \in Seq(Piece)
      <4> SUFFICES ASSUME NEW i \in DOMAIN data' PROVE data'[i] \in Seq(Piece)
        OBVIOUS
      <4>1. CASE i = ino /\ changes
        BY <1>7, <4>1
      <4>2. CASE ~(i = ino /\ changes)
        BY <1>4, <1>5, <1>7, <4>2 DEF FInv, FileTypeOK
      <4>3. QED
        BY <4>1, <4>2
    <3>2. QED
      BY <1>2, <3>1 DEF Inodes
  <2>3. target' \in (DOMAIN data' \ {Elsewhere}) \cup {Missing, Link, Dir}
    BY <1>2, <1>4, <1>7 DEF FInv, FileTypeOK, Missing, Link
  <2>4. fd' \in [Call -> DOMAIN data' \cup {Closed}]
    BY <1>2, <1>7 DEF FInv, FileTypeOK
  <2>5. touched' \in [Call -> SUBSET DOMAIN data']
    BY <1>2, <1>7 DEF FInv, FileTypeOK
  <2>6. fpc' \in [Call -> {"idle", "parent", "target", "open", "writing", "reading", "done"}]
    BY <1>2 DEF FInv, FileTypeOK
  <2>7. QED
    BY <1>2, <2>1, <2>2, <2>3, <2>4, <2>5, <2>6 DEF FInv, FileTypeOK
<1>9. ASSUME NEW d \in Call \ {c} PROVE CallFits(d)'
  <2>1. CallFits(d) /\ fd[d] \in DOMAIN data \cup {Closed}
    BY DEF FInv, FileTypeOK
  <2>2. PlaceFits(d)' /\ TouchedFits(d)'
    BY <1>2, <1>6, <2>1 DEF CallFits, PlaceFits, TouchedFits, Writes
  <2>3. LookedFits(d)'
    BY <1>2, <1>4, <1>6, <2>1 DEF CallFits, LookedFits, Link
  <2>4. CreatedFits(d)'
    <3>1. Creates(c)' => fd'[c] = last + 1
      BY <1>2, <1>4, <1>5, <1>6 DEF Creates
    <3>2. Creates(d)' => Creates(d) /\ fd'[d] # last + 1
      BY <1>1, <1>2, <1>6, <2>1 DEF Creates, Closed
    <3>3. \A e \in Call \ {c, d} : Creates(e)' => Creates(e) /\ fd'[e] = fd[e]
      BY <1>2, <1>6 DEF Creates
    <3>4. QED
      BY <1>6, <2>1, <3>1, <3>2, <3>3 DEF CallFits, CreatedFits
  <2>5. UnwrittenFits(d)'
    BY <1>4, <1>5, <1>6, <1>7, <2>1 DEF CallFits, UnwrittenFits
  <2>6. WrittenFits(d)'
    <3> SUFFICES ASSUME fd[d] # Closed, Writes(d)
                 PROVE  /\ offset[d] <= Parts
                        /\ outcome[d] = "ok" => WriteComplete(d)
                        /\ Sharing(d)' = {} =>
                             /\ EndsWith(fd[d], d, offset[d])'
                             /\ req[d].mode # "append" => offset[d] = Len(data'[fd[d]])
      BY <1>2, <1>6 DEF WrittenFits, Writes, WriteComplete, EndsWith
    <3>1. Sharing(d) \subseteq Sharing(d)'
      BY <1>2, <1>3, <1>6 DEF Sharing
    <3>2. Sharing(d)' = {} => data'[fd[d]] = data[fd[d]]
      <4>1. fd[d] = ino /\ changes => c \in Sharing(d)'
        BY <1>2, <1>5, <1>6 DEF Sharing
      <4>2. QED
        BY <1>7, <2>1, <4>1
    <3>3. QED
      BY <1>2, <1>6, <2>1, <3>1, <3>2 DEF CallFits, WrittenFits, EndsWith
  <2>7. QED
    BY <2>2, <2>3, <2>4, <2>5, <2>6 DEF CallFits
<1>10. CallFits(c)'
  <2>1. fd'[c] # Closed
    BY <1>4, <1>6 DEF Closed
  <2>2. PlaceFits(c)'
    BY <1>2, <1>3, <1>6, <2>1 DEF CallFits, PlaceFits, Writes
  <2>3. LookedFits(c)'
    BY <1>2, <1>3, <1>4, <1>6 DEF CallFits, LookedFits
  <2>4. TouchedFits(c)'
    BY <1>2, <1>5, <1>6, <2>1 DEF TouchedFits, Writes
  <2>5. CreatedFits(c)'
    <3> SUFFICES ASSUME Creates(c)'
                 PROVE  fd'[c] \notin 0..1 /\ \A d \in Call \ {c} : Creates(d)' => fd'[d] # fd'[c]
      BY DEF CreatedFits
    <3>1. fd'[c] = last + 1
      BY <1>2, <1>4, <1>5, <1>6 DEF Creates
    <3>2. \A d \in Call \ {c} : Creates(d)' => fd'[d] \in 0..last
      BY <1>1, <1>6 DEF Creates, FInv, FileTypeOK
    <3>3. QED
      BY <3>1, <3>2
  <2>6. WrittenFits(c)'
    <3> SUFFICES ASSUME Writes(c)
                 PROVE  /\ Len(data'[ino]) \in Nat
                        /\ \A k \in 1..Len(data'[ino]) : data'[ino][k].by # c
                        /\ req[c].mode # "append" => Len(data'[ino]) = 0
      BY <1>2, <1>3, <1>6, PartsAssumption DEF WrittenFits, Writes, EndsWith
    <3>1. CASE changes
      BY <1>7, <3>1
    <3>2. CASE ~changes
      <4>1. data'[ino] = data[ino] /\ data[ino] \in Seq(Piece) /\ ino \in DOMAIN data
        BY <1>4, <1>5, <1>7, <3>2 DEF FInv, FileTypeOK
      <4>2. \A k \in 1..Len(data[ino]) : data[ino][k].by # c
        BY <1>3, <4>1 DEF CallFits, UnwrittenFits
      <4>3. req[c].mode = "append"
        BY <1>2, <1>3, <1>5, <3>2 DEF FInv, FileTypeOK, Writes, AllModes, CallFits, PlaceFits
      <4>4. QED
        BY <4>1, <4>2, <4>3
    <3>3. QED
      BY <3>1, <3>2
  <2>7. UnwrittenFits(c)'
    BY <2>1 DEF UnwrittenFits
  <2>8. QED
    BY <2>2, <2>3, <2>4, <2>5, <2>6, <2>7 DEF CallFits
<1>11. QED
  BY <1>8, <1>9, <1>10 DEF FInv

\* Writing: one part more at the end of the file, or somewhere in a shared one.
LEMMA WriteKeeps ==
  ASSUME FInv, NEW c \in Call, WritePart(c)
  PROVE  FInv'
<1> DEFINE i == fd[c]
           s == data[i]
           k == IF req[c].mode = "append" THEN Len(s) + 1 ELSE offset[c] + 1
           x == PartOf(c, offset[c] + 1)
           t == PutAt(s, k, x)
<1>1. /\ fpc[c] = "writing" /\ offset[c] < Parts
      /\ offset' = [offset EXCEPT ![c] = @ + 1]
      /\ data' = [data EXCEPT ![i] = t]
      /\ touched' = [touched EXCEPT ![c] = @ \cup {i}]
      /\ UNCHANGED <<parent, target, replacements, fpc, req, fd, outcome, checkedAt>>
  BY DEF WritePart
<1>2. CallFits(c) /\ i # Closed /\ i \in DOMAIN data /\ Writes(c) /\ offset[c] \in Nat
      /\ outcome[c] = "none"
  BY <1>1 DEF FInv, FileTypeOK, CallFits, PlaceFits
<1>3. s \in Seq(Piece) /\ k \in Nat \ {0} /\ x \in Piece /\ x.by = c
  <2>1. s \in Seq(Piece) /\ Len(s) \in Nat
    BY <1>2 DEF FInv, FileTypeOK
  <2>2. x \in Piece /\ x.by = c
    BY <1>2 DEF PartOf, Piece
  <2>3. k \in Nat \ {0}
    BY <1>2, <2>1
  <2>4. QED
    BY <2>1, <2>2, <2>3
<1> HIDE DEF s, k, x
<1>4. /\ t \in Seq(Piece) /\ DOMAIN t = 1..Len(t)
      /\ Len(t) = IF k > Len(s) THEN k ELSE Len(s)
      /\ \A j \in DOMAIN t : t[j] = IF j = k THEN x ELSE IF j <= Len(s) THEN s[j] ELSE Hole
  BY <1>3, PutAtIs
<1> HIDE DEF t, i
<1>5. /\ DOMAIN data' = DOMAIN data /\ data'[i] = t
      /\ \A j \in DOMAIN data : j # i => data'[j] = data[j]
  BY <1>1, <1>2 DEF FInv, FileTypeOK
<1>6. FileTypeOK'
  <2>1. data' \in [DOMAIN data' -> Seq(Piece)]
    BY <1>1, <1>2, <1>4 DEF FInv, FileTypeOK
  <2>2. offset' \in [Call -> Nat] /\ touched' \in [Call -> SUBSET DOMAIN data']
    BY <1>1, <1>2, <1>5 DEF FInv, FileTypeOK
  <2>3. QED
    BY <1>1, <1>5, <2>1, <2>2 DEF FInv, FileTypeOK
<1>7. /\ offset'[c] = offset[c] + 1
      /\ \A d \in Call \ {c} : offset'[d] = offset[d] /\ touched'[d] = touched[d]
  BY <1>1 DEF FInv, FileTypeOK
<1>8. ASSUME NEW d \in Call \ {c} PROVE CallFits(d)'
  <2>1. CallFits(d) /\ fd[d] \in DOMAIN data \cup {Closed}
    BY DEF FInv, FileTypeOK
  <2>2. PlaceFits(d)' /\ LookedFits(d)' /\ TouchedFits(d)' /\ CreatedFits(d)'
    BY <1>1, <1>7, <2>1
       DEF CallFits, PlaceFits, LookedFits, TouchedFits, CreatedFits, Creates, Writes
  <2>3. UnwrittenFits(d)'
    <3> SUFFICES ASSUME fd[d] = Closed, NEW j \in DOMAIN data, NEW l \in DOMAIN data'[j]
                 PROVE  data'[j][l].by # d
      BY <1>1, <1>5 DEF UnwrittenFits
    <3>1. \A m \in DOMAIN data[j] : data[j][m].by # d
      BY <2>1 DEF CallFits, UnwrittenFits
    <3>2. CASE j # i
      BY <1>5, <3>1, <3>2
    <3>3. CASE j = i
      <4>1. t[l] = IF l = k THEN x ELSE IF l <= Len(s) THEN s[l] ELSE Hole
        BY <1>4, <1>5, <3>3
      <4>2. l \in Nat \ {0}
        BY <1>4, <1>5, <3>3
      <4>3. l <= Len(s) => s[l].by # d
        BY <1>3, <3>1, <3>3, <4>2 DEF s
      <4>4. x.by # d /\ Hole.by # d
        BY <1>3, CallAssumption DEF Hole
      <4>5. QED
        BY <1>5, <3>3, <4>1, <4>3, <4>4
    <3>4. QED
      BY <3>2, <3>3
  <2>4. WrittenFits(d)'
    <3>1. Sharing(d)' = Sharing(d)
      BY <1>1 DEF Sharing
    <3>2. Sharing(d) = {} /\ fd[d] # Closed => data'[fd[d]] = data[fd[d]]
      <4>1. fd[d] = i => c \in Sharing(d)
        BY <1>2 DEF Sharing, Writes, i
      <4>2. QED
        BY <1>5, <2>1, <4>1
    <3>3. QED
      BY <1>1, <1>7, <2>1, <3>1, <3>2 DEF CallFits, WrittenFits, Writes, WriteComplete, EndsWith
  <2>5. QED
    BY <2>2, <2>3, <2>4 DEF CallFits
<1>9. CallFits(c)'
  <2>1. PlaceFits(c)' /\ LookedFits(c)' /\ TouchedFits(c)' /\ CreatedFits(c)' /\ UnwrittenFits(c)'
    BY <1>1, <1>2 DEF CallFits, PlaceFits, LookedFits, TouchedFits, CreatedFits, UnwrittenFits,
       Creates, Writes, i
  <2>2. WrittenFits(c)'
    <3> DEFINE n == offset[c]
    <3> SUFFICES ASSUME Sharing(c) = {}
                 PROVE  /\ Len(t) - (n + 1) >= 0
                        /\ \A j \in 1..(Len(t) - (n + 1)) : t[j].by # c
                        /\ \A j \in 1..(n + 1) : t[Len(t) - (n + 1) + j] = PartOf(c, j)
                        /\ req[c].mode # "append" => n + 1 = Len(t)
      <4>1. Sharing(c)' = Sharing(c)
        BY <1>1 DEF Sharing
      <4>2. n + 1 <= Parts
        BY <1>1, <1>2, PartsAssumption
      <4>3. QED
        BY <1>1, <1>2, <1>5, <1>7, <4>1, <4>2 DEF WrittenFits, EndsWith, Writes, i
    <3>1. /\ n \in Nat /\ Len(s) \in Nat /\ Len(s) - n >= 0
          /\ \A j \in 1..(Len(s) - n) : s[j].by # c
          /\ \A j \in 1..n : s[Len(s) - n + j] = PartOf(c, j)
          /\ req[c].mode # "append" => n = Len(s)
      BY <1>2, <1>3 DEF CallFits, WrittenFits, EndsWith, i, s
    <3>2. k = Len(s) + 1
      BY <3>1 DEF k
    <3>3. Len(t) = Len(s) + 1 /\ t[Len(s) + 1] = x /\ \A j \in 1..Len(s) : t[j] = s[j]
      BY <1>4, <3>1, <3>2
    <3> HIDE DEF n
    <3>4. Len(t) - (n + 1) = Len(s) - n
      BY <3>1, <3>3
    <3>5. \A j \in 1..(Len(s) - n) : t[j].by # c
      <4>1. \A j \in 1..(Len(s) - n) : j \in 1..Len(s)
        BY <3>1
      <4>2. QED
        BY <3>1, <3>3, <4>1
    <3>6. ASSUME NEW j \in 1..(n + 1) PROVE t[Len(s) - n + j] = PartOf(c, j)
      <4>1. CASE j \in 1..n
        <5>1. Len(s) - n + j \in 1..Len(s)
          BY <3>1, <4>1
        <5>2. QED
          BY <3>1, <3>3, <4>1, <5>1
      <4>2. CASE j = n + 1
        <5>1. Len(s) - n + j = Len(s) + 1 /\ x = PartOf(c, j)
          BY <3>1, <4>2 DEF x, n
        <5>2. QED
          BY <3>3, <5>1
      <4>3. QED
        BY <3>1, <4>1, <4>2
    <3>7. QED
      BY <3>1, <3>3, <3>4, <3>5, <3>6
  <2>3. QED
    BY <2>1, <2>2 DEF CallFits
<1>10. QED
  BY <1>6, <1>8, <1>9 DEF FInv

\* So every step keeps the invariant.
LEMMA FInvStep == FInv /\ [FileNext]_fileVars => FInv'
<1> SUFFICES ASSUME FInv, [FileNext]_fileVars PROVE FInv'
  OBVIOUS
<1>1. CASE Replace
  BY <1>1, ReplaceKeeps
<1>2. ASSUME NEW c \in Call, FileStep(c) PROVE FInv'
  BY <1>2, LooksKeep, ReturnsKeep, OpenKeeps, WriteKeeps DEF FileStep
<1>3. CASE UNCHANGED fileVars
  BY <1>3 DEF fileVars, FInv, FileTypeOK, CallFits, PlaceFits, LookedFits, TouchedFits,
     CreatedFits, Creates, WrittenFits, UnwrittenFits, Writes, WriteComplete, Sharing, EndsWith
<1>4. QED
  BY <1>1, <1>2, <1>3 DEF FileNext

-----------------------------------------------------------------------------
(* The theorems *)

\* The invariant holds throughout.
THEOREM Invariance == FileSpec => []FInv
<1>1. FInv /\ [FileNext]_fileVars => FInv'
  BY FInvStep
<1>2. QED
  BY <1>1, FInvInit, PTL DEF FileSpec

\* What mediateFile answers is true of the file, whatever else happens to the
\* path and whoever else writes to it, as long as the file is not shared.
THEOREM FileResultsAreTrue == FileSpec => []FileResultTruthful
<1>1. FInv => FileResultTruthful
  <2> SUFFICES ASSUME FInv, NEW c \in Call
               PROVE  /\ outcome[c] = "refused" => touched[c] = {}
                      /\ outcome[c] = "failed" /\ fd[c] = Closed => touched[c] = {}
                      /\ outcome[c] # "none" /\ ~Writes(c) => touched[c] = {}
                      /\ outcome[c] = "ok" /\ Writes(c) /\ Sharing(c) = {} =>
                           \E n \in 1..Parts :
                             /\ EndsWith(fd[c], c, n)
                             /\ n = Parts \/ req[c].mode = "create_only"
                             /\ req[c].mode # "append" => n = Len(data[fd[c]])
    BY DEF FileResultTruthful
  <2>1. CallFits(c) /\ offset[c] \in Nat
    BY DEF FInv, FileTypeOK
  <2>2. ASSUME outcome[c] = "ok", Writes(c), Sharing(c) = {}
        PROVE  \E n \in 1..Parts :
                 /\ EndsWith(fd[c], c, n)
                 /\ n = Parts \/ req[c].mode = "create_only"
                 /\ req[c].mode # "append" => n = Len(data[fd[c]])
    <3>1. /\ EndsWith(fd[c], c, offset[c]) /\ offset[c] <= Parts /\ WriteComplete(c)
          /\ req[c].mode # "append" => offset[c] = Len(data[fd[c]])
      BY <2>1, <2>2 DEF CallFits, PlaceFits, WrittenFits
    <3>2. offset[c] \in 1..Parts /\ (offset[c] = Parts \/ req[c].mode = "create_only")
      BY <2>1, <3>1, PartsAssumption DEF WriteComplete
    <3>3. QED
      BY <3>1, <3>2
  <2>3. QED
    BY <2>1, <2>2 DEF CallFits, PlaceFits, TouchedFits
<1>2. QED
  BY <1>1, Invariance, PTL

\* O_EXCL: of any number of exclusive creates racing on one path, each that
\* reports success has made a new file, and no two the same.
THEOREM CreatesAreExclusive == FileSpec => []CreateOnlyOnce
<1>1. FInv => CreateOnlyOnce
  <2> SUFFICES ASSUME FInv PROVE CreateOnlyOnce
    OBVIOUS
  <2>1. \A c \in Call : outcome[c] = "ok" /\ req[c].mode = "create_only" => Creates(c)
    BY DEF FInv, CallFits, PlaceFits, Creates
  <2>2. \A c \in Call : CreatedFits(c)
    BY DEF FInv, CallFits
  <2>3. QED
    BY <2>1, <2>2 DEF CreateOnlyOnce, CreatedFits
<1>2. QED
  BY <1>1, Invariance, PTL

\* A file behind a symbolic link is reached only by a call whose path was
\* changed between the look and the open.
THEOREM LinksNeedAChange == FileSpec => []LinksOnlyIfReplaced
<1>1. FInv => LinksOnlyIfReplaced
  BY DEF FInv, CallFits, LookedFits, LinksOnlyIfReplaced
<1>2. QED
  BY <1>1, Invariance, PTL

=============================================================================
