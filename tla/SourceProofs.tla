---------------------------- MODULE SourceProofs ----------------------------
(* Proofs about SourceTransfer, for every value of its constants. *)
EXTENDS SourceTransfer, TLAPS

(***************************************************************************)
(* The inductive invariant.  SourceFacts: stamps and directories are never *)
(* reused, so a file that still has the stamp it was opened with still has *)
(* its bytes, and a directory that was refused is never a safe one.        *)
(* PinFacts: what a task knows of the bytes it has read and of the file    *)
(* they came from.  TargetFacts: where those bytes have got to.            *)
(***************************************************************************)
SourceFile == [chunks : Content, stamp : 0..(MaxEdits + 1), private : BOOLEAN]

SourceTypes ==
    /\ parent \in Ids /\ safe \subseteq Ids
    /\ named \in [Ids -> Ids \cup {0}]
    /\ file \in [Ids -> SourceFile]
    /\ edits \in 0..MaxEdits

SourceFacts ==
    /\ named[parent] # 0
    /\ \A d \in Ids : named[d] # 0 => d <= edits + 1
    /\ \A f \in Ids : file[f].stamp <= edits + 1

Pins    == {"start", "checked", "transfer", "copy", "copied"}
Holding == Pins \cup {"read", "cleanup"}

TaskTypes ==
    /\ pc \in [Targets -> Holding \cup {"idle", "ancestor", "open", "done"}]
    /\ dirfd \in [Targets -> Ids \cup {0}] /\ filefd \in [Targets -> Ids \cup {0}]
    /\ before \in [Targets -> 0..(MaxEdits + 1)]
    /\ data \in [Targets -> Seq(BOOLEAN)]
    /\ remote \in [Targets -> Seq(BOOLEAN) \cup {Gone}] /\ orphan \subseteq Targets
    /\ dest \in [Targets -> {Other, Reviewed}]
    /\ result \in [Targets -> {"none", "failed", "current", "would-install", "installed"}]

CheckType == check \in [Targets -> BOOLEAN]

PinFacts ==
    \A t \in Targets :
        /\ pc[t] \in {"idle", "ancestor", "open", "done"} => filefd[t] = 0
        /\ pc[t] = "idle" => dirfd[t] = 0
        /\ pc[t] = "done" /\ dirfd[t] # 0 => dirfd[t] \notin safe /\ result[t] = "failed"
        /\ dirfd[t] # 0 => named[dirfd[t]] # 0
        /\ pc[t] \in Holding \cup {"ancestor", "open"} => dirfd[t] \in Ids
        /\ pc[t] \in Holding => filefd[t] \in Ids /\ before[t] <= edits + 1
        /\ Len(data[t]) <= Chunks
        /\ pc[t] = "read" /\ Unmodified(t) =>
             \A i \in 1..Len(data[t]) : data[t][i] = file[filefd[t]].chunks[i]
        /\ pc[t] \in Pins => data[t] = Reviewed
        /\ pc[t] \in Pins /\ Unmodified(t) => file[filefd[t]].chunks = Reviewed

TargetFacts ==
    \A t \in Targets :
        /\ pc[t] = "copy" => remote[t] = Reviewed
        /\ pc[t] = "copied" => dest[t] = Reviewed
        /\ result[t] \in {"installed", "current"} => dest[t] = Reviewed
        /\ remote[t] \in {Gone, <<>>, Reviewed}
        /\ pc[t] \in {"idle", "ancestor", "open", "read", "start", "checked"} => remote[t] = Gone
        /\ pc[t] = "done" /\ remote[t] # Gone => t \in orphan

IInv == /\ SourceTypes /\ SourceFacts
        /\ TaskTypes /\ CheckType /\ PinFacts /\ TargetFacts

-----------------------------------------------------------------------------
LEMMA ReviewedContent == Reviewed \in Content /\ Reviewed \in Seq(BOOLEAN) /\ Len(Reviewed) = Chunks
  BY TransferAssumption DEF Reviewed, Content

LEMMA InitIInv == Init => IInv
<1> SUFFICES ASSUME Init PROVE IInv
  OBVIOUS
<1> USE TransferAssumption
<1>1. PICK c \in Content :
        file = [f \in Ids |-> IF f = 1 THEN [chunks |-> c, stamp |-> 1, private |-> TRUE]
                                       ELSE Blank]
  BY DEF Init
<1>2. 1 \in Ids
  BY DEF Ids
<1>3. file \in [Ids -> SourceFile]
  <2>1. [chunks |-> c, stamp |-> 1, private |-> TRUE] \in SourceFile
    BY DEF SourceFile
  <2>2. Blank \in SourceFile
    BY ReviewedContent DEF SourceFile, Blank
  <2> QED  BY <1>1, <2>1, <2>2
<1>4. SourceTypes
  <2>1. /\ parent = 1 /\ safe = {1} /\ edits = 0
        /\ named = [d \in Ids |-> IF d = 1 THEN 1 ELSE 0]
    BY DEF Init
  <2> QED  BY <1>2, <1>3, <2>1 DEF SourceTypes
<1>5. SourceFacts
  BY <1>1, <1>2 DEF Init, SourceFacts, Blank
<1>6. TaskTypes
  BY DEF Init, TaskTypes
<1>7. CheckType
  BY DEF Init, CheckType
<1>8. PinFacts /\ TargetFacts
  BY DEF Init, PinFacts, TargetFacts, Pins, Holding
<1> QED  BY <1>4, <1>5, <1>6, <1>7, <1>8 DEF IInv

-----------------------------------------------------------------------------
(***************************************************************************)
(* Edits of the source.                                                    *)
(***************************************************************************)
LEMMA NewId ==
  ASSUME SourceTypes, Edit
  PROVE  /\ New \in Ids /\ New \in 0..(MaxEdits + 1) /\ New = edits' + 1
         /\ edits' \in 0..MaxEdits /\ edits' = edits + 1
  BY TransferAssumption DEF SourceTypes, Edit, New, Ids

\* An edit leaves every file alone or gives it a stamp no task has seen.
EditFacts ==
    /\ parent' \in Ids /\ safe' \subseteq safe \cup {New}
    /\ named' \in [Ids -> Ids \cup {0}]
    /\ \A d \in Ids : named[d] # 0 => named'[d] # 0
    /\ \A d \in Ids : named'[d] # 0 => named[d] # 0 \/ d = New
    /\ named'[parent'] # 0
    /\ file' \in [Ids -> SourceFile]
    /\ \A f \in Ids : file'[f] = file[f] \/ file'[f].stamp = New

LEMMA EditKeepsIInv ==
  ASSUME IInv, Edit, EditFacts, UNCHANGED process
  PROVE  IInv'
<1> USE DEF IInv
<1>1. SourceTypes'
  BY NewId DEF EditFacts, SourceTypes
<1>2. SourceFacts'
  <2>1. ASSUME NEW f \in Ids PROVE file'[f].stamp <= edits' + 1
    <3>1. file[f].stamp \in Nat /\ file[f].stamp <= edits + 1
      BY TransferAssumption DEF SourceTypes, SourceFacts, SourceFile
    <3> QED  BY <3>1, NewId DEF EditFacts, SourceTypes
  <2>2. ASSUME NEW d \in Ids, named'[d] # 0 PROVE d <= edits' + 1
    BY <2>2, NewId, TransferAssumption DEF EditFacts, SourceTypes, SourceFacts, Ids
  <2> QED  BY <2>1, <2>2 DEF EditFacts, SourceFacts
<1>3. TaskTypes' /\ CheckType' /\ TargetFacts'
  BY DEF process, TaskTypes, CheckType, TargetFacts
<1>4. PinFacts'
  <2> SUFFICES ASSUME NEW t \in Targets
               PROVE  PinFacts!(t)'
    BY DEF PinFacts
  <2>1. UNCHANGED <<pc, dirfd, filefd, before, data, result>>
    BY DEF process
  <2>2. PinFacts!(t)
    BY DEF PinFacts
  <2>3. pc[t] \in Holding /\ Unmodified(t)' => Unmodified(t) /\ file'[filefd[t]] = file[filefd[t]]
    BY <2>1, <2>2, NewId, TransferAssumption
       DEF EditFacts, Unmodified, TaskTypes, SourceTypes
  <2>4. dirfd[t] # 0 => dirfd[t] # New /\ named'[dirfd[t]] # 0
    BY <2>2, NewId, TransferAssumption DEF EditFacts, SourceFacts, TaskTypes, SourceTypes, Ids
  <2>5. dirfd[t] \notin safe /\ dirfd[t] # New => dirfd[t] \notin safe'
    BY DEF EditFacts
  <2>6. pc[t] \in Holding => before[t] <= edits' + 1
    BY <2>2, NewId, TransferAssumption DEF TaskTypes, SourceTypes
  <2> HIDE DEF IInv
  <2> QED
    BY <2>1, <2>2, <2>3, <2>4, <2>5, <2>6 DEF Pins, Holding
<1> QED  BY <1>1, <1>2, <1>3, <1>4

\* The source is written to.
LEMMA RewriteKeepsIInv == IInv /\ Rewrite => IInv'
<1> SUFFICES ASSUME IInv, Rewrite PROVE IInv'
  OBVIOUS
<1> DEFINE old == file[PathFile]
           new(i, b) == [old EXCEPT !.chunks = [old.chunks EXCEPT ![i] = b], !.stamp = New]
<1>1. PICK i \in 1..Chunks, b \in BOOLEAN : file' = [file EXCEPT ![PathFile] = new(i, b)]
  BY DEF Rewrite
<1>2. Edit /\ UNCHANGED <<parent, safe, named, process>>
  BY DEF Rewrite
<1>3. SourceTypes /\ SourceFacts
  BY DEF IInv
<1>4. PathFile \in Ids /\ New \in 0..(MaxEdits + 1)
  BY <1>2, <1>3, NewId DEF SourceTypes, SourceFacts, PathFile
<1>5. old \in SourceFile
  BY <1>3, <1>4 DEF SourceTypes
<1>6. new(i, b) \in SourceFile /\ new(i, b).stamp = New
  BY <1>4, <1>5 DEF SourceFile, Content
<1> HIDE DEF new
<1>7. EditFacts
  BY <1>1, <1>2, <1>3, <1>4, <1>6 DEF EditFacts, SourceTypes, SourceFacts
<1> QED  BY <1>2, <1>7, EditKeepsIInv

\* Another file is renamed over the source.
LEMMA ReplaceKeepsIInv == IInv /\ Replace => IInv'
<1> SUFFICES ASSUME IInv, Replace PROVE IInv'
  OBVIOUS
<1>1. PICK c \in Content, p \in BOOLEAN :
        file' = [file EXCEPT ![PathFile].stamp = New,
                             ![New] = [chunks |-> c, stamp |-> New, private |-> p]]
  BY DEF Replace
<1>2. Edit /\ UNCHANGED <<parent, safe, process>> /\ named' = [named EXCEPT ![parent] = New]
  BY DEF Replace
<1>3. SourceTypes /\ SourceFacts
  BY DEF IInv
<1>4. PathFile \in Ids /\ New \in Ids /\ New \in 0..(MaxEdits + 1) /\ New # 0
  BY <1>2, <1>3, NewId DEF SourceTypes, SourceFacts, PathFile, Ids
<1> DEFINE old == [file[PathFile] EXCEPT !.stamp = New]
           new == [chunks |-> c, stamp |-> New, private |-> p]
<1>5. file[PathFile] \in SourceFile
  BY <1>3, <1>4 DEF SourceTypes
<1>6. old \in SourceFile /\ old.stamp = New
  BY <1>4, <1>5 DEF SourceFile
<1>7. new \in SourceFile /\ new.stamp = New
  BY <1>4 DEF SourceFile
<1>8. file' = [file EXCEPT ![PathFile] = old, ![New] = new]
  BY <1>1
<1> HIDE DEF old, new
<1>9. EditFacts
  BY <1>2, <1>3, <1>4, <1>6, <1>7, <1>8 DEF EditFacts, SourceTypes, SourceFacts
<1> QED  BY <1>2, <1>9, EditKeepsIInv

\* The directory of the source is exchanged.
LEMMA ReplaceParentKeepsIInv == IInv /\ ReplaceParent => IInv'
<1> SUFFICES ASSUME IInv, ReplaceParent PROVE IInv'
  OBVIOUS
<1>1. Edit /\ UNCHANGED process
  BY DEF ReplaceParent
<1>2. SourceTypes /\ SourceFacts
  BY DEF IInv
<1>3. New \in Ids /\ New \in 0..(MaxEdits + 1) /\ New # 0
  BY <1>1, <1>2, NewId DEF Ids
<1>4. CASE /\ parent' = New /\ named' = [named EXCEPT ![New] = New]
           /\ \E c \in Content :
                 file' = [file EXCEPT ![New] = [chunks |-> c, stamp |-> New, private |-> TRUE]]
           /\ safe' \in {safe, safe \cup {New}}
  <2>1. PICK c \in Content :
          file' = [file EXCEPT ![New] = [chunks |-> c, stamp |-> New, private |-> TRUE]]
    BY <1>4
  <2> DEFINE new == [chunks |-> c, stamp |-> New, private |-> TRUE]
  <2>2. new \in SourceFile /\ new.stamp = New
    BY <1>3 DEF SourceFile
  <2>3. file' = [file EXCEPT ![New] = new]
    BY <2>1
  <2> HIDE DEF new
  <2>4. EditFacts
    BY <1>2, <1>3, <1>4, <2>2, <2>3 DEF EditFacts, SourceTypes, SourceFacts
  <2> QED  BY <1>1, <2>4, EditKeepsIInv
<1>5. CASE /\ parent' \in {d \in Ids : named[d] # 0} \ {parent}
           /\ UNCHANGED <<named, file, safe>>
  <2>1. EditFacts
    BY <1>2, <1>5 DEF EditFacts, SourceTypes, SourceFacts
  <2> QED  BY <1>1, <2>1, EditKeepsIInv
<1> QED  BY <1>4, <1>5 DEF ReplaceParent

-----------------------------------------------------------------------------
(***************************************************************************)
(* Steps of a task.  Only the task's own variables change.                 *)
(***************************************************************************)
LEMMA OpenParentKeepsIInv ==
  ASSUME IInv, NEW t \in Targets, NEW c \in BOOLEAN, OpenParent(t, c)
  PROVE  IInv'
<1> USE DEF IInv, OpenParent, Goto, sent
<1>1. SourceTypes' /\ SourceFacts'
  BY DEF source, SourceTypes, SourceFacts
<1>2. TaskTypes'
  BY DEF TaskTypes, SourceTypes, source, Holding, Pins
<1>3. CheckType'
  BY DEF CheckType
<1>4. PinFacts'
  BY DEF PinFacts, TaskTypes, SourceTypes, SourceFacts, source, Holding, Pins, Unmodified
<1>5. TargetFacts'
  BY DEF TargetFacts, TaskTypes
<1> QED  BY <1>1, <1>2, <1>3, <1>4, <1>5

\* A step that fails leaves nothing pinned.
LEMMA PinFailsKeepsIInv ==
  ASSUME IInv, NEW t \in Targets, pc[t] \in {"open", "read"}, PinFails(t)
  PROVE  IInv'
<1> USE DEF IInv, PinFails, End, Goto, sent
<1>1. SourceTypes' /\ SourceFacts'
  BY DEF source, SourceTypes, SourceFacts
<1>2. TaskTypes' /\ TargetFacts'
  BY DEF TaskTypes, TargetFacts
<1>3. CheckType'
  BY DEF CheckType
<1>4. PinFacts'
  BY DEF PinFacts, TaskTypes, source, Holding, Pins, Unmodified
<1> QED  BY <1>1, <1>2, <1>3, <1>4

\* A directory that is refused stays open, and is never called safe.
LEMMA CheckParentKeepsIInv ==
  ASSUME IInv, NEW t \in Targets, CheckParent(t)
  PROVE  IInv'
<1> USE DEF IInv, CheckParent, Goto, sent
<1>1. SourceTypes' /\ SourceFacts'
  BY DEF source, SourceTypes, SourceFacts
<1>2. TaskTypes'
  BY DEF TaskTypes, Holding
<1>3. CheckType'
  BY DEF CheckType
<1>4. PinFacts'
  BY DEF PinFacts, TaskTypes, source, Holding, Pins, Unmodified
<1>5. TargetFacts'
  BY DEF TargetFacts, TaskTypes
<1> QED  BY <1>1, <1>2, <1>3, <1>4, <1>5

LEMMA OpenFileKeepsIInv ==
  ASSUME IInv, NEW t \in Targets, OpenFile(t)
  PROVE  IInv'
<1> USE DEF IInv
<1>1. CASE PinFails(t)
  BY <1>1, PinFailsKeepsIInv DEF OpenFile
<1>2. CASE ~PinFails(t)
  <2> DEFINE f == named[dirfd[t]]
  <2>1. /\ pc[t] = "open"
        /\ filefd' = [filefd EXCEPT ![t] = f]
        /\ before' = [before EXCEPT ![t] = file[f].stamp]
        /\ data' = [data EXCEPT ![t] = <<>>]
        /\ pc' = [pc EXCEPT ![t] = "read"]
        /\ UNCHANGED <<source, check, dirfd, remote, orphan, dest, result>>
    BY <1>2 DEF OpenFile, Goto, sent
  <2>2. f \in Ids
    BY <2>1 DEF PinFacts, SourceTypes
  <2>3. file[f].stamp \in 0..(MaxEdits + 1) /\ file[f].stamp <= edits + 1
    BY <2>2 DEF SourceTypes, SourceFacts, SourceFile
  <2> HIDE DEF f
  <2>4. SourceTypes' /\ SourceFacts'
    BY <2>1 DEF source, SourceTypes, SourceFacts
  <2>5. TaskTypes'
    BY <2>1, <2>2, <2>3 DEF TaskTypes, Holding
  <2>6. CheckType'
    BY <2>1 DEF CheckType
  <2>7. PinFacts'
    BY <2>1, <2>2, <2>3, TransferAssumption
       DEF PinFacts, TaskTypes, source, Holding, Pins, Unmodified
  <2>8. TargetFacts'
    BY <2>1 DEF TargetFacts, TaskTypes
  <2> QED  BY <2>4, <2>5, <2>6, <2>7, <2>8
<1> QED  BY <1>1, <1>2

\* The next chunk is the file's, if the file was not touched since it was opened.
LEMMA ReadKeepsIInv ==
  ASSUME IInv, NEW t \in Targets, Read(t)
  PROVE  IInv'
<1> USE DEF IInv
<1> DEFINE n == Len(data[t]) + 1
           b == file[filefd[t]].chunks[n]
<1>1. /\ pc[t] = "read" /\ Len(data[t]) < Chunks
      /\ data' = [data EXCEPT ![t] = Append(data[t], b)]
      /\ UNCHANGED <<source, pc, check, dirfd, filefd, before, remote, orphan, dest, result>>
  BY DEF Read, sent
<1>2. data[t] \in Seq(BOOLEAN) /\ n \in 1..Chunks
  BY <1>1, TransferAssumption DEF TaskTypes
<1>3. b \in BOOLEAN
  <2>1. file[filefd[t]] \in SourceFile
    BY <1>1 DEF PinFacts, SourceTypes, Holding
  <2> QED  BY <2>1, <1>2 DEF SourceFile, Content
<1>4. SourceTypes' /\ SourceFacts'
  BY <1>1 DEF source, SourceTypes, SourceFacts
<1>5. Append(data[t], b) \in Seq(BOOLEAN) /\ Len(Append(data[t], b)) = n
  BY <1>2, <1>3
<1>6. \A i \in 1..n : Append(data[t], b)[i] = IF i = n THEN b ELSE data[t][i]
  BY <1>2, <1>3
<1>7. TaskTypes'
  BY <1>1, <1>5 DEF TaskTypes
<1>8. CheckType'
  BY <1>1 DEF CheckType
<1>9. PinFacts'
  <2> SUFFICES ASSUME NEW u \in Targets PROVE PinFacts!(u)'
    BY DEF PinFacts
  <2>1. PinFacts!(u)
    BY DEF PinFacts
  <2>2. UNCHANGED <<safe, named, file, edits, pc, dirfd, filefd, before, result>>
    BY <1>1 DEF source
  <2>3. CASE u # t
    BY <1>1, <2>1, <2>2, <2>3 DEF TaskTypes, Unmodified
  <2>4. CASE u = t
    <3>1. data'[u] = Append(data[t], b)
      BY <1>1, <2>4 DEF TaskTypes
    <3>2. n <= Chunks
      BY <1>2
    <3>3. Unmodified(u)' => \A i \in 1..n : data'[u][i] = file[filefd[u]].chunks[i]
      BY <1>1, <1>2, <1>6, <2>1, <2>2, <2>4, <3>1 DEF Unmodified
    <3> HIDE DEF n, b
    <3> QED
      BY <1>1, <1>5, <2>1, <2>2, <2>4, <3>1, <3>2, <3>3 DEF Pins
  <2> QED  BY <2>3, <2>4
<1>10. TargetFacts'
  BY <1>1 DEF TargetFacts
<1> QED  BY <1>4, <1>7, <1>8, <1>9, <1>10

\* The bytes that were read are reviewed, and so are those of an untouched file.
LEMMA PinnedKeepsIInv ==
  ASSUME IInv, NEW t \in Targets, Pinned(t)
  PROVE  IInv'
<1> USE DEF IInv
<1>1. CASE PinFails(t)
  BY <1>1, PinFailsKeepsIInv DEF Pinned
<1>2. CASE ~PinFails(t)
  <2>1. /\ pc[t] = "read" /\ Len(data[t]) = Chunks
        /\ Unmodified(t) /\ data[t] = Reviewed
        /\ pc' = [pc EXCEPT ![t] = "start"]
        /\ UNCHANGED <<source, check, dirfd, filefd, before, data, remote, orphan, dest, result>>
    BY <1>2 DEF Pinned, Goto, sent
  <2>2. file[filefd[t]].chunks = Reviewed
    <3>1. file[filefd[t]].chunks \in Content
      BY <2>1 DEF PinFacts, SourceTypes, SourceFile, Holding
    <3>2. \A i \in 1..Chunks : file[filefd[t]].chunks[i] = Reviewed[i]
      BY <2>1 DEF PinFacts
    <3> QED  BY <3>1, <3>2, ReviewedContent DEF Content
  <2>3. SourceTypes' /\ SourceFacts'
    BY <2>1 DEF source, SourceTypes, SourceFacts
  <2>4. TaskTypes' /\ TargetFacts'
    BY <2>1 DEF TaskTypes, TargetFacts, Holding, Pins
  <2>5. CheckType'
    BY <2>1 DEF CheckType
  <2>6. PinFacts'
    BY <2>1, <2>2 DEF PinFacts, TaskTypes, source, Holding, Pins, Unmodified
  <2> QED  BY <2>3, <2>4, <2>5, <2>6
<1> QED  BY <1>1, <1>2

\* Between the pin and the end of the task nothing that was read changes.
Moves(t, from, to) ==
    /\ pc[t] \in from /\ pc' = [pc EXCEPT ![t] = to]
    /\ \A u \in Targets \ {t} : result'[u] = result[u]
    /\ UNCHANGED <<source, check, dirfd, filefd, before, data>>

LEMMA MoveKeepsPins ==
  ASSUME IInv, NEW t \in Targets, NEW to \in Pins \cup {"cleanup"}, Moves(t, Pins, to)
  PROVE  /\ SourceTypes' /\ SourceFacts' /\ CheckType' /\ PinFacts'
         /\ data[t] = Reviewed
         /\ Unmodified(t) => file[filefd[t]].chunks = Reviewed
<1> USE DEF IInv, Moves
<1>1. SourceTypes' /\ SourceFacts'
  BY DEF source, SourceTypes, SourceFacts
<1>2. CheckType'
  BY DEF CheckType
<1>3. PinFacts'
  BY DEF PinFacts, TaskTypes, source, Holding, Pins, Unmodified
<1> QED  BY <1>1, <1>2, <1>3 DEF PinFacts

\* What a run of a plugin does to the target, step by step.
LEMMA RunKeepsIInv ==
  ASSUME IInv, NEW t \in Targets,
         CheckStat(t) \/ Checked(t) \/ MakeTmp(t) \/ Transfer(t) \/ Copy(t) \/ Copied(t)
  PROVE  IInv'
<1> USE DEF IInv
<1>1. PICK to \in Pins \cup {"cleanup"} : Moves(t, Pins, to)
  BY DEF CheckStat, Checked, MakeTmp, Transfer, Copy, Copied, Raise, Conclude, Advance,
         Goto, Moves, Pins, TaskTypes
<1>2. /\ SourceTypes' /\ SourceFacts' /\ CheckType' /\ PinFacts'
      /\ data[t] = Reviewed
  BY <1>1, MoveKeepsPins
<1>3. TaskTypes' /\ TargetFacts'
  <2> USE ReviewedContent
          DEF TaskTypes, TargetFacts, Holding, Pins, Conclude, Advance, Raise, Goto, sent
  <2>1. CASE Raise(t)
    BY <2>1, <1>1 DEF Moves
  <2>2. CASE CheckStat(t)
    BY <2>2 DEF CheckStat
  <2>3. CASE Checked(t)
    BY <2>3 DEF Checked
  <2>4. CASE MakeTmp(t)
    <3>1. CASE ~Raise(t)
      <4>1. /\ remote' = [remote EXCEPT ![t] = <<>>] /\ UNCHANGED dest
            /\ \/ Advance(t, "transfer") /\ UNCHANGED orphan
               \/ Conclude(t, "failed") /\ orphan' = orphan \cup {t}
        BY <2>4, <3>1 DEF MakeTmp
      <4>2. <<>> \in Seq(BOOLEAN) \cup {Gone}
        OBVIOUS
      <4>3. TaskTypes'
        BY <4>1, <4>2
      <4> HIDE <4>2
      <4>4. TargetFacts'
        BY <4>1
      <4> QED  BY <4>3, <4>4
    <3> QED  BY <2>1, <3>1
  <2>5. CASE Transfer(t)
    <3>1. CASE ~Raise(t)
      <4>1. /\ pc[t] = "transfer" /\ remote' = [remote EXCEPT ![t] = Reviewed]
            /\ UNCHANGED <<dest, orphan>>
            /\ Advance(t, "copy") \/ Conclude(t, "failed")
        BY <2>5, <3>1, <1>2 DEF Transfer
      <4> QED  BY <4>1
    <3> QED  BY <2>1, <3>1
  <2>6. CASE Copy(t)
    <3>1. CASE ~Raise(t)
      <4>1. remote[t] = Reviewed /\ dest' = [dest EXCEPT ![t] = Reviewed]
        BY <2>6, <3>1 DEF Copy
      <4> QED  BY <2>6, <3>1, <4>1 DEF Copy
    <3> QED  BY <2>1, <3>1
  <2>7. CASE Copied(t)
    BY <2>7 DEF Copied
  <2> QED  BY <2>2, <2>3, <2>4, <2>5, <2>6, <2>7
<1> QED  BY <1>2, <1>3

LEMMA CleanupKeepsIInv ==
  ASSUME IInv, NEW t \in Targets, Cleanup(t)
  PROVE  IInv'
<1> USE DEF IInv, Cleanup, Removes, RemovalRaises, End, Goto
<1>1. SourceTypes' /\ SourceFacts'
  BY DEF source, SourceTypes, SourceFacts
<1>2. TaskTypes' /\ TargetFacts'
  BY DEF TaskTypes, TargetFacts
<1>3. CheckType'
  BY DEF CheckType
<1>4. PinFacts'
  <2>1. PICK r \in {result[t], "failed"} : End(t, r) /\ UNCHANGED <<source, check, before, data>>
    OBVIOUS
  <2> HIDE DEF Cleanup, Removes, RemovalRaises
  <2> QED
    BY <2>1 DEF PinFacts, TaskTypes, source, Holding, Pins, Unmodified
<1> QED  BY <1>1, <1>2, <1>3, <1>4

LEMMA AgainKeepsIInv ==
  ASSUME IInv, NEW t \in Targets, Again(t)
  PROVE  IInv'
<1> USE TransferAssumption DEF IInv, Again, Goto
<1>1. SourceTypes' /\ SourceFacts'
  BY DEF source, SourceTypes, SourceFacts
<1>2. TaskTypes' /\ TargetFacts'
  BY DEF TaskTypes, TargetFacts
<1>3. CheckType'
  BY DEF CheckType
<1>4. PinFacts'
  BY DEF PinFacts, TaskTypes, source, Holding, Pins, Unmodified
<1> QED  BY <1>1, <1>2, <1>3, <1>4

LEMMA NextIInv == IInv /\ [Next]_vars => IInv'
<1> SUFFICES ASSUME IInv, [Next]_vars PROVE IInv'
  OBVIOUS
<1>1. CASE UNCHANGED vars
  <2> USE <1>1 DEF IInv, vars, source
  <2>1. SourceTypes' /\ SourceFacts' /\ TaskTypes' /\ TargetFacts'
    BY DEF SourceTypes, SourceFacts, TaskTypes, TargetFacts
  <2>2. CheckType'
    BY DEF CheckType
  <2>3. PinFacts'
    BY DEF PinFacts, Unmodified
  <2> QED  BY <2>1, <2>2, <2>3
<1>2. CASE Rewrite \/ Replace \/ ReplaceParent
  BY <1>2, RewriteKeepsIInv, ReplaceKeepsIInv, ReplaceParentKeepsIInv
<1>3. ASSUME NEW t \in Targets, Task(t) PROVE IInv'
  BY <1>3, CheckParentKeepsIInv, OpenFileKeepsIInv, ReadKeepsIInv, PinnedKeepsIInv, RunKeepsIInv,
     CleanupKeepsIInv DEF Task
<1>4. ASSUME NEW t \in Targets, Again(t) PROVE IInv'
  BY <1>4, AgainKeepsIInv
<1>5. ASSUME NEW t \in Targets, NEW c \in BOOLEAN, OpenParent(t, c) PROVE IInv'
  BY <1>5, OpenParentKeepsIInv
<1> QED  BY <1>1, <1>2, <1>3, <1>4, <1>5 DEF Next

LEMMA IInvHolds == Spec => []IInv
  BY InitIInv, NextIInv, PTL DEF Spec

-----------------------------------------------------------------------------
\* Every variable keeps its type, for any size of the file, any number of
\* targets and any number of edits.
THEOREM SourceTypeCorrect == Spec => []TypeOK
<1>1. IInv => TypeOK
  <2> SUFFICES ASSUME IInv PROVE TypeOK
    OBVIOUS
  <2> USE DEF IInv
  <2>1. \A t \in Targets : Len(data[t]) <= Chunks /\ data[t] \in Seq(BOOLEAN)
    BY DEF PinFacts, TaskTypes
  <2>2. \A t \in Targets : remote[t] = Gone \/ remote[t] \in Seq(BOOLEAN)
    BY DEF TaskTypes
  <2>3. dest \in [Targets -> Content \cup {Other}]
    BY ReviewedContent DEF TaskTypes
  <2>4. check \in [Targets -> BOOLEAN]
    BY DEF CheckType
  <2>5. /\ parent \in Ids /\ safe \subseteq Ids
        /\ named \in [Ids -> Ids \cup {0}]
        /\ file \in [Ids -> [chunks : Content, stamp : 0..(MaxEdits + 1), private : BOOLEAN]]
        /\ edits \in 0..MaxEdits
    BY DEF SourceTypes, SourceFile
  <2>6. /\ orphan \subseteq Targets
        /\ pc \in [Targets -> {"idle", "ancestor", "open", "read", "start", "checked", "transfer",
                               "copy", "copied", "cleanup", "done"}]
        /\ dirfd \in [Targets -> Ids \cup {0}] /\ filefd \in [Targets -> Ids \cup {0}]
        /\ before \in [Targets -> 0..(MaxEdits + 1)]
        /\ result \in [Targets -> {"none", "failed", "current", "would-install", "installed"}]
    BY DEF TaskTypes, Holding, Pins
  <2> QED  BY <2>1, <2>2, <2>3, <2>4, <2>5, <2>6 DEF TypeOK
<1> QED  BY <1>1, IInvHolds, PTL

\* The pin of platform_pki_secure_source: however the source is rewritten,
\* replaced or moved while it is read and transferred, only the bytes with the
\* reviewed digest reach a destination.
THEOREM OnlyReviewedInstalled == Spec => []ReviewedOnly
<1>1. IInv => ReviewedOnly
  BY DEF IInv, TaskTypes, ReviewedOnly
<1> QED  BY <1>1, IInvHolds, PTL

\* However a run of a plugin ends, its finally clause has closed what the pin has
\* recorded and removed the remote directory, unless that failed or its path was
\* lost; "installed" and "current" are said only of the reviewed bytes; and only
\* a directory refused by require_safe_ancestor is left open.
THEOREM TasksEndClean == Spec => []EndsClean
<1>1. IInv => ReportTrue
  BY DEF IInv, TargetFacts, ReportTrue
<1>2. IInv => NothingOpen
  BY DEF IInv, PinFacts, NothingOpen
<1>3. IInv => RemoteRemoved
  BY DEF IInv, TargetFacts, RemoteRemoved
<1> QED  BY <1>1, <1>2, <1>3, IInvHolds, PTL DEF EndsClean

\* recheck: when a task reports anything but a failure the path leads to the
\* reviewed bytes, whatever was edited in between.
THEOREM EditsNoticed == Spec => SourceStillReviewed
<1> DEFINE Noticed ==
        \A t \in Targets :
          result[t] = "none" /\ result'[t] \notin {"none", "failed"}
             => file[PathFile].chunks = Reviewed
<1>1. IInv /\ [Next]_vars => [Noticed]_vars
  <2> SUFFICES ASSUME IInv, Next, NEW t \in Targets,
                      result[t] = "none", result'[t] \notin {"none", "failed"}
               PROVE  file[PathFile].chunks = Reviewed
    OBVIOUS
  <2> USE DEF IInv
  <2>1. result'[t] # result[t]
    OBVIOUS
  <2>2. PICK u \in Targets : Task(u) \/ Again(u)
    BY <2>1 DEF Next, Rewrite, Replace, ReplaceParent, process, OpenParent
  <2>3. u = t
    BY <2>1, <2>2 DEF Task, Again, CheckParent, OpenFile, Read, Pinned, CheckStat, Checked, MakeTmp,
         Transfer, Copy, Copied, Cleanup, PinFails, End, Raise, Conclude, Advance, TaskTypes
  <2>4. Checked(t) \/ Copied(t)
    BY <2>2, <2>3 DEF Task, Again, CheckParent, OpenFile, Read, Pinned, CheckStat, MakeTmp,
         Transfer, Copy, Cleanup, PinFails, End, Raise, Conclude, Advance, TaskTypes
  <2>5. Recheck(t) /\ pc[t] \in Pins
    BY <2>4 DEF Checked, Copied, Raise, Conclude, TaskTypes, Pins
  <2>6. file[filefd[t]].chunks = Reviewed
    BY <2>5 DEF PinFacts, Recheck
  <2> QED  BY <2>5, <2>6 DEF Recheck, PathFile
<1> QED  BY <1>1, IInvHolds, PTL DEF Spec, SourceStillReviewed
=============================================================================
