--------------------------- MODULE SourceTransfer ---------------------------
(***************************************************************************)
(* Reviewed files on their way from the controller to the targets: the     *)
(* pin on the source (plugins/module_utils/platform_pki_secure_source.py)  *)
(* and the plugins that install it (plugins/action/                        *)
(* platform_pki_reviewed_ca.py, platform_pki_transport_client.py), one     *)
(* process per target, while somebody edits the source.                    *)
(*                                                                         *)
(* The source has one parent directory (deeper paths repeat its checks)    *)
(* and is read in chunks.  A chunk is TRUE when it holds the reviewed      *)
(* bytes.  A stamp stands for the fields of identity(): every edit gives   *)
(* the file a new one.  A task runs in a process of its own, which ends    *)
(* with the task.                                                          *)
(***************************************************************************)
EXTENDS Naturals, Sequences

CONSTANTS
    Targets,    \* hosts that install the file
    Chunks,     \* reads it takes to the end of the file
    MaxEdits,   \* bound: edits of the source
    Gone,       \* no remote directory
    Other       \* what the destination holds before the installation

ASSUME TransferAssumption ==
    /\ Chunks \in Nat \ {0}
    /\ MaxEdits \in Nat
    /\ Other \notin [1..Chunks -> BOOLEAN]

VARIABLES
    parent,   \* the directory the source path names
    safe,     \* directories with a trusted owner and mode
    named,    \* per directory, the file its entry names
    file,     \* per file: chunks, stamp, private (the mode, owner, links, size)
    edits,    \* bound on edits, and the supply of new names
    pc, check,          \* per target: next step, check mode
    dirfd, filefd,      \* per target: pinned directory and file, 0 if closed
    before,             \* per target: file_identity
    data,               \* per target: the chunks read so far
    remote,             \* per target: the remote directory, and what was transferred
    orphan,             \* targets whose directory got no path, or was not removed
    dest,               \* per target: the destination
    result              \* per target: status

source == <<parent, safe, named, file, edits>>
vars   == <<source, pc, check, dirfd, filefd, before, data, remote, orphan, dest, result>>

Content  == [1..Chunks -> BOOLEAN]
Reviewed == [i \in 1..Chunks |-> TRUE]    \* the content with the expected digest

Ids == 1..(MaxEdits + 1)   \* directories and files, in order of creation

\* What the path resolves to now.
PathFile == named[parent]

-----------------------------------------------------------------------------
(***************************************************************************)
(* Edits of the source                                                     *)
(***************************************************************************)
New == edits + 2   \* a fresh directory, file or stamp

Edit == edits < MaxEdits /\ edits' = edits + 1

process == <<pc, check, dirfd, filefd, before, data, remote, orphan, dest, result>>

sent == <<remote, orphan, dest>>   \* what a task leaves on its target

\* A write into the file, anywhere in it, with any bytes.
Rewrite ==
    /\ Edit
    /\ LET f == file[PathFile] IN
       \E i \in 1..Chunks, b \in BOOLEAN :
          file' = [file EXCEPT ![PathFile] =
                      [f EXCEPT !.chunks = [f.chunks EXCEPT ![i] = b], !.stamp = New]]
    /\ UNCHANGED <<parent, safe, named, process>>

\* A rename over the file; the old file loses a link, so its stamp changes.
Replace ==
    /\ Edit
    /\ \E c \in Content, p \in BOOLEAN :
          file' = [file EXCEPT ![PathFile].stamp = New,
                               ![New] = [chunks |-> c, stamp |-> New, private |-> p]]
    /\ named' = [named EXCEPT ![parent] = New]
    /\ UNCHANGED <<parent, safe, process>>

\* The directory is moved away and another one put in its place, or back.
ReplaceParent ==
    /\ Edit
    /\ \/ /\ parent' = New /\ named' = [named EXCEPT ![New] = New]
          /\ \E c \in Content :
                file' = [file EXCEPT ![New] = [chunks |-> c, stamp |-> New, private |-> TRUE]]
          /\ safe' \in {safe, safe \cup {New}}
       \/ /\ parent' \in {d \in Ids : named[d] # 0} \ {parent}
          /\ UNCHANGED <<named, file, safe>>
    /\ UNCHANGED process

-----------------------------------------------------------------------------
(***************************************************************************)
(* The pin                                                                 *)
(***************************************************************************)
Goto(t, step) == pc' = [pc EXCEPT ![t] = step]

\* The end of the task: a result, and the descriptors that were recorded closed.
End(t, status) ==
    /\ Goto(t, "done")
    /\ dirfd' = [dirfd EXCEPT ![t] = 0] /\ filefd' = [filefd EXCEPT ![t] = 0]
    /\ result' = [result EXCEPT ![t] = status]

\* An exception in the pin closes the file and the list of directories.
PinFails(t) ==
    /\ End(t, "failed")
    /\ UNCHANGED <<source, check, before, data, sent>>

\* A task starts, the CA plugin perhaps in check mode; the directory is opened.
OpenParent(t, c) ==
    /\ pc[t] = "idle"
    /\ check' = [check EXCEPT ![t] = c]
    /\ dirfd' = [dirfd EXCEPT ![t] = parent]
    /\ Goto(t, "ancestor")
    /\ UNCHANGED <<source, filefd, before, data, sent, result>>

\* require_safe_ancestor.  The descriptor joins the list only afterwards: that of
\* a directory it refuses is not closed.
CheckParent(t) ==
    /\ pc[t] = "ancestor"
    /\ \/ dirfd[t] \in safe /\ Goto(t, "open") /\ UNCHANGED result
       \/ /\ dirfd[t] \notin safe
          /\ Goto(t, "done") /\ result' = [result EXCEPT ![t] = "failed"]
    /\ UNCHANGED <<source, check, dirfd, filefd, before, data, sent>>

\* The entry is opened and its metadata checked.
OpenFile(t) ==
    /\ pc[t] = "open"
    /\ LET f == named[dirfd[t]] IN
       \/ ~file[f].private /\ PinFails(t)
       \/ /\ file[f].private
          /\ filefd' = [filefd EXCEPT ![t] = f]
          /\ before' = [before EXCEPT ![t] = file[f].stamp]
          /\ data' = [data EXCEPT ![t] = <<>>]
          /\ Goto(t, "read")
          /\ UNCHANGED <<source, check, dirfd, sent, result>>

\* One os.read of the open file.
Read(t) ==
    /\ pc[t] = "read" /\ Len(data[t]) < Chunks
    /\ data' = [data EXCEPT ![t] = Append(@, file[filefd[t]].chunks[Len(@) + 1])]
    /\ UNCHANGED <<source, pc, check, dirfd, filefd, before, sent, result>>

\* identity(after) against identity(before).
Unmodified(t) == file[filefd[t]].stamp = before[t]

\* Slip: only the open descriptors are looked at.
RecheckDescriptors(t) == Unmodified(t)

\* recheck: the names lead to the pinned directory and file, and the file was
\* not touched.  The directory is compared with what its descriptor says now.
Recheck(t) ==
    /\ parent = dirfd[t]
    /\ named[dirfd[t]] = filefd[t]
    /\ Unmodified(t)

\* End of file: unchanged while read, the reviewed digest, and a recheck.
Pinned(t) ==
    /\ pc[t] = "read" /\ Len(data[t]) = Chunks
    /\ LET ok == Unmodified(t) /\ data[t] = Reviewed /\ Recheck(t) IN
       \/ /\ ok /\ Goto(t, "start")
          /\ UNCHANGED <<source, check, dirfd, filefd, before, data, sent, result>>
       \/ ~ok /\ PinFails(t)

-----------------------------------------------------------------------------
(***************************************************************************)
(* run of the two plugins                                                  *)
(***************************************************************************)

\* A result is recorded and the finally clause entered.
Conclude(t, status) ==
    /\ Goto(t, "cleanup")
    /\ result' = [result EXCEPT ![t] = status]
    /\ UNCHANGED <<source, check, dirfd, filefd, before, data>>

\* A recheck that fails raises; so does a remote call that does.
Raise(t) == Conclude(t, "failed") /\ UNCHANGED sent

Advance(t, step) ==
    /\ Goto(t, step)
    /\ UNCHANGED <<source, check, dirfd, filefd, before, data, result>>

\* Check mode only stats the destination, between two rechecks.
CheckStat(t) ==
    /\ pc[t] = "start" /\ check[t]
    /\ \/ Recheck(t) /\ Advance(t, "checked") /\ UNCHANGED sent
       \/ Raise(t)

Checked(t) ==
    /\ pc[t] = "checked"
    /\ \/ /\ Recheck(t)
          /\ Conclude(t, IF dest[t] = Reviewed THEN "current" ELSE "would-install")
          /\ UNCHANGED sent
       \/ Raise(t)

\* The remote directory is made; making it may fail, and its path be lost.
MakeTmp(t) ==
    /\ pc[t] = "start" /\ ~check[t]
    /\ \/ /\ Recheck(t)
          /\ remote' = [remote EXCEPT ![t] = <<>>]
          /\ \/ Advance(t, "transfer") /\ UNCHANGED orphan
             \/ Conclude(t, "failed") /\ orphan' = orphan \cup {t}
          /\ UNCHANGED dest
       \/ Raise(t)

\* Slip: the source is opened again for the transfer.
TransferReread(t) ==
    /\ pc[t] = "transfer"
    /\ \/ /\ remote' = [remote EXCEPT ![t] = file[PathFile].chunks]
          /\ Advance(t, "copy") /\ UNCHANGED <<orphan, dest>>
       \/ Raise(t)

\* The bytes in memory are written to the remote directory.
Transfer(t) ==
    /\ pc[t] = "transfer"
    /\ \/ /\ remote' = [remote EXCEPT ![t] = data[t]]
          /\ \/ Advance(t, "copy")
             \/ Conclude(t, "failed")
          /\ UNCHANGED <<orphan, dest>>
       \/ Raise(t)

\* copy replaces the destination atomically; it may fail, or its answer be lost.
Copy(t) ==
    /\ pc[t] = "copy"
    /\ \/ /\ Recheck(t)
          /\ dest' = [dest EXCEPT ![t] = remote[t]]
          /\ \/ Advance(t, "copied")
             \/ Conclude(t, "failed")
          /\ UNCHANGED <<remote, orphan>>
       \/ Raise(t)

\* The last recheck decides what is reported.
Copied(t) ==
    /\ pc[t] = "copied"
    /\ \/ Recheck(t) /\ Conclude(t, "installed") /\ UNCHANGED sent
       \/ ~Recheck(t) /\ Raise(t)

\* There is no path to remove, or the directory is removed; or that fails with
\* no more than a warning.
Removes(t) ==
    \/ (remote[t] = Gone \/ t \in orphan) /\ UNCHANGED <<remote, orphan>>
    \/ /\ remote[t] # Gone /\ t \notin orphan
       /\ \/ remote' = [remote EXCEPT ![t] = Gone] /\ UNCHANGED orphan
          \/ orphan' = orphan \cup {t} /\ UNCHANGED remote

\* The connection breaks while the directory is being removed.
RemovalRaises(t) ==
    /\ remote[t] # Gone /\ t \notin orphan
    /\ remote' \in {remote, [remote EXCEPT ![t] = Gone]}
    /\ orphan' = orphan \cup {t}

\* Slip: one finally clause, so that a removal that raises skips the close.
CleanupOnce(t) ==
    /\ pc[t] = "cleanup"
    /\ \/ Removes(t) /\ End(t, result[t])
       \/ /\ RemovalRaises(t) /\ Goto(t, "done")
          /\ result' = [result EXCEPT ![t] = "failed"] /\ UNCHANGED <<dirfd, filefd>>
    /\ UNCHANGED <<source, check, before, data, dest>>

\* finally: the remote directory is removed, and the descriptors are closed even
\* if the removal raises.
Cleanup(t) ==
    /\ pc[t] = "cleanup"
    /\ \/ Removes(t) /\ End(t, result[t])
       \/ RemovalRaises(t) /\ End(t, "failed")
    /\ UNCHANGED <<source, check, before, data, dest>>

\* The route runs again: a new process, and a remote directory of another name.
Again(t) ==
    /\ pc[t] = "done"
    /\ Goto(t, "idle")
    /\ result' = [result EXCEPT ![t] = "none"]
    /\ remote' = [remote EXCEPT ![t] = Gone] /\ orphan' = orphan \ {t}
    /\ before' = [before EXCEPT ![t] = 0] /\ data' = [data EXCEPT ![t] = <<>>]
    /\ dirfd' = [dirfd EXCEPT ![t] = 0]
    /\ UNCHANGED <<source, check, filefd, dest>>

-----------------------------------------------------------------------------
Blank == [chunks |-> Reviewed, stamp |-> 0, private |-> FALSE]

Init ==
    /\ parent = 1 /\ safe = {1}
    /\ named = [d \in Ids |-> IF d = 1 THEN 1 ELSE 0]
    /\ \E c \in Content :
          file = [f \in Ids |-> IF f = 1 THEN [chunks |-> c, stamp |-> 1, private |-> TRUE]
                                         ELSE Blank]
    /\ edits = 0
    /\ pc = [t \in Targets |-> "idle"] /\ check = [t \in Targets |-> FALSE]
    /\ dirfd = [t \in Targets |-> 0] /\ filefd = [t \in Targets |-> 0]
    /\ before = [t \in Targets |-> 0] /\ data = [t \in Targets |-> <<>>]
    /\ remote = [t \in Targets |-> Gone] /\ orphan = {}
    /\ dest = [t \in Targets |-> Other]
    /\ result = [t \in Targets |-> "none"]

Task(t) ==
    \/ CheckParent(t) \/ OpenFile(t) \/ Read(t) \/ Pinned(t) \/ CheckStat(t) \/ Checked(t)
    \/ MakeTmp(t) \/ Transfer(t) \/ Copy(t) \/ Copied(t) \/ Cleanup(t)

Next ==
    \/ Rewrite \/ Replace \/ ReplaceParent
    \/ \E t \in Targets : Task(t) \/ Again(t) \/ \E c \in BOOLEAN : OpenParent(t, c)

Spec == Init /\ [][Next]_vars
-----------------------------------------------------------------------------
\* Every variable has its type: no more is read than the file has, and a destination
\* holds a whole file.
TypeOK ==
    /\ parent \in Ids /\ safe \subseteq Ids
    /\ named \in [Ids -> Ids \cup {0}]
    /\ file \in [Ids -> [chunks : Content, stamp : 0..(MaxEdits + 1), private : BOOLEAN]]
    /\ edits \in 0..MaxEdits
    /\ pc \in [Targets -> {"idle", "ancestor", "open", "read", "start", "checked", "transfer",
                           "copy", "copied", "cleanup", "done"}]
    /\ check \in [Targets -> BOOLEAN]
    /\ dirfd \in [Targets -> Ids \cup {0}] /\ filefd \in [Targets -> Ids \cup {0}]
    /\ before \in [Targets -> 0..(MaxEdits + 1)]
    /\ \A t \in Targets : Len(data[t]) <= Chunks /\ data[t] \in Seq(BOOLEAN)
    /\ \A t \in Targets : remote[t] = Gone \/ remote[t] \in Seq(BOOLEAN)
    /\ orphan \subseteq Targets
    /\ dest \in [Targets -> Content \cup {Other}]
    /\ result \in [Targets -> {"none", "failed", "current", "would-install", "installed"}]

(***************************************************************************)
(* Properties                                                              *)
(***************************************************************************)

\* A destination only ever changes to the reviewed bytes, however the source
\* is rewritten or swapped between the reads, the digest and the transfer.
ReviewedOnly == \A t \in Targets : dest[t] \in {Other, Reviewed}

\* "installed" and "current" are reported only of a destination that holds the
\* reviewed bytes, whatever remote call failed on the way.
ReportTrue == \A t \in Targets :
    result[t] \in {"installed", "current"} => dest[t] = Reviewed

\* recheck: at the last recheck of a task that reports anything but a failure the
\* path leads to the reviewed bytes, whatever was rewritten, renamed or moved
\* between.  (That the directory was moved away and back is not noticed.)
SourceStillReviewed ==
    [][\A t \in Targets :
          result[t] = "none" /\ result'[t] \notin {"none", "failed"}
             => file[PathFile].chunks = Reviewed]_vars

\* Every way out of a task closes what the pin has opened, but for a directory
\* that require_safe_ancestor has refused: that one stays open until the process
\* of the task ends.
NothingOpen == \A t \in Targets :
    /\ pc[t] \in {"idle", "done"} => filefd[t] = 0
    /\ pc[t] = "idle" => dirfd[t] = 0
    /\ pc[t] = "done" /\ dirfd[t] # 0 => dirfd[t] \notin safe /\ result[t] = "failed"

\* A task that is over leaves no remote directory, unless its path never came
\* back or its removal failed; and then at most the reviewed bytes are in it.
RemoteRemoved == \A t \in Targets :
    pc[t] = "done" /\ remote[t] # Gone => t \in orphan /\ remote[t] \in {<<>>, Reviewed}

\* However a task ends, what it says was installed is, its descriptors are
\* closed and its remote directory is removed, with the exceptions above.
EndsClean == ReportTrue /\ NothingOpen /\ RemoteRemoved
=============================================================================
