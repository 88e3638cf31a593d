--------------------------- MODULE CandidateInstall ------------------------
(***************************************************************************)
(* The separately confirmed installation of a published candidate into the *)
(* game: install_candidate and rollback of src/installer.rs.               *)
(*                                                                         *)
(* The files of the candidate are compared with the game's; those that     *)
(* differ are backed up, all of them before any is written, then copied    *)
(* over the installed files in place; an error copies the backups back in  *)
(* reverse order.  The backup folder is named after the second the call    *)
(* began in, so two calls may want the same folder.                        *)
(***************************************************************************)
EXTENDS Naturals

CONSTANTS
    N,          \* files of the candidate
    MaxCalls,   \* bound on confirmed installations
    MaxForeign  \* bound on writes by other programs

ASSUME NAssumption == N \in Nat \ {0}
ASSUME BoundsAssumption == MaxCalls \in Nat /\ MaxForeign \in Nat

Row == 1 .. N
Second == 1 .. MaxCalls

\* "torn" is a copy in a backup folder that broke off or failed its check,
\* "junk" the same in the game folder.
Contents == {"none", "old", "new", "junk", "foreign", "torn"}

Running == {"scan", "mkdir", "backup", "copy", "verify", "undo"}
Results == {"refused", "installed", "restored", "notrestored"}

VARIABLES
    pc,        \* the loop the call is in, or its result
    row,
    dest,      \* the files in the game folder
    changed,   \* rows whose file differs from the candidate's
    backup,    \* per backup folder, the files in it
    made,      \* the backup folders that exist
    second,    \* the second this call's folder is named after
    backedUp,  \* backup_by_destination: rows with a verified backup
    committed, \* rows rollback goes through
    errors,    \* rollback collected an error
    miscopied, \* history: a backup was copied back wrongly without an error
    before,    \* history: dest when the call began
    calls,
    writes     \* by other programs: in this call, in all

vars == <<pc, row, dest, changed, backup, made, second, backedUp, committed,
          errors, miscopied, before, calls, writes>>
files == <<dest, backup, made>>
call == <<second, miscopied, before, calls, writes>>

Present(r) == dest[r] # "none"

Init ==
    /\ pc = "idle" /\ row = 1
    /\ dest \in [Row -> {"none", "old", "new"}]
    /\ changed = {} /\ backedUp = {} /\ committed = {} /\ errors = FALSE
    /\ miscopied = FALSE
    /\ backup = [s \in Second |-> [r \in Row |-> "none"]] /\ made = {}
    /\ second = 0 /\ before = dest /\ calls = 0
    /\ writes = [call |-> 0, all |-> 0]

\* The loop's next row, or the start of what follows.
Advance(next) ==
    IF row < N THEN row' = row + 1 /\ pc' = pc
               ELSE row' = 1 /\ pc' = next

Refuse == pc' = "refused" /\ UNCHANGED row

-----------------------------------------------------------------------------
\* The user confirms.  The game is incomplete or running, a folder is gone or
\* the candidate has no install layout: nothing is done.
Call ==
    /\ pc \notin Running /\ calls < MaxCalls
    /\ calls' = calls + 1
    /\ second' \in {second, second + 1} \ {0}
    /\ pc' \in {"scan", "refused"} /\ row' = 1
    /\ changed' = {} /\ backedUp' = {} /\ committed' = {} /\ errors' = FALSE
    /\ miscopied' = FALSE
    /\ before' = dest
    /\ writes' = [writes EXCEPT !.call = 0]
    /\ UNCHANGED files

\* The destination is inside Content or Binaries and a regular file or free;
\* the row is changed unless both files have the same hash.
Scan ==
    /\ pc = "scan"
    /\ changed' = changed \cup (IF dest[row] = "new" THEN {} ELSE {row})
    /\ Advance("mkdir")
    /\ UNCHANGED <<files, backedUp, committed, errors, call>>

Replaced == {r \in changed : Present(r)}

\* Mutant of MayCreate: an existing folder is used (create_dir_all).
MayReuse == second \in Second

\* fs::create_dir refuses a folder that exists.
MayCreate == second \notin made

MakeFolder ==
    /\ pc = "mkdir"
    /\ row' = 1
    /\ \/ Replaced = {} /\ pc' = "copy" /\ UNCHANGED made
       \/ Replaced # {} /\ MayCreate /\ pc' = "backup" /\ made' = made \cup {second}
    /\ UNCHANGED <<dest, changed, backup, backedUp, committed, errors, call>>

\* What a copy that reports success leaves: it may hold other bytes.
Copied(source) == {source, "junk"}

\* Mutant of BackUp: the copy's hash is not compared.
BackUpUnchecked ==
    /\ pc = "backup"
    /\ IF row \in changed /\ Present(row)
       THEN /\ \E c \in Copied(dest[row]) :
                  backup' = [backup EXCEPT ![second][row] = c]
            /\ backedUp' = backedUp \cup {row}
       ELSE UNCHANGED <<backup, backedUp>>
    /\ Advance("copy")
    /\ UNCHANGED <<dest, changed, made, committed, errors, call>>

\* The copy's hash is compared with the installed file's: a wrong copy fails.
BackUp ==
    /\ pc = "backup"
    /\ IF row \in changed /\ Present(row)
       THEN /\ backup' = [backup EXCEPT ![second][row] = dest[row]]
            /\ backedUp' = backedUp \cup {row}
       ELSE UNCHANGED <<backup, backedUp>>
    /\ Advance("copy")
    /\ UNCHANGED <<dest, changed, made, committed, errors, call>>

\* An error before the first copy ends the call.
PrepareFails ==
    /\ \/ pc \in {"scan", "mkdir"} /\ UNCHANGED backup
       \/ /\ pc = "backup" /\ row \in changed
          /\ \E c \in {backup[second][row], "torn", dest[row]} :
                backup' = [backup EXCEPT ![second][row] = c]
    /\ Refuse
    /\ UNCHANGED <<dest, changed, made, backedUp, committed, errors, call>>

-----------------------------------------------------------------------------
SkipSame ==
    /\ pc = "copy" /\ row \notin changed
    /\ Advance("installed")
    /\ UNCHANGED <<files, changed, backedUp, committed, errors, call>>

\* The row is entered in the rollback list, then the file is overwritten.
CopyFile ==
    /\ pc = "copy" /\ row \in changed
    /\ committed' = committed \cup {row}
    /\ \E c \in Copied("new") : dest' = [dest EXCEPT ![row] = c]
    /\ pc' = "verify"
    /\ UNCHANGED <<row, changed, backup, made, backedUp, errors, call>>

\* The folder cannot be made, or the copy breaks off.
CopyFails ==
    /\ pc = "copy" /\ row \in changed
    /\ \/ UNCHANGED <<committed, dest>>
       \/ /\ committed' = committed \cup {row}
          /\ \E c \in {dest[row], "junk"} : dest' = [dest EXCEPT ![row] = c]
    /\ pc' = "undo" /\ row' = N
    /\ UNCHANGED <<changed, backup, made, backedUp, errors, call>>

\* Mutant of VerifyFile: the installed file's hash is not looked at.
VerifyNothing ==
    /\ pc = "verify"
    /\ IF row < N THEN row' = row + 1 /\ pc' = "copy"
                  ELSE row' = 1 /\ pc' = "installed"
    /\ UNCHANGED <<files, changed, backedUp, committed, errors, call>>

VerifyFile ==
    /\ pc = "verify" /\ dest[row] = "new"
    /\ IF row < N THEN row' = row + 1 /\ pc' = "copy"
                  ELSE row' = 1 /\ pc' = "installed"
    /\ UNCHANGED <<files, changed, backedUp, committed, errors, call>>

VerifyFails ==
    /\ pc = "verify"
    /\ pc' = "undo" /\ row' = N
    /\ UNCHANGED <<files, changed, backedUp, committed, errors, call>>

-----------------------------------------------------------------------------
(* rollback: the committed files, last first. *)

EndUndo(failed) == IF failed THEN "notrestored" ELSE "restored"

UndoNext(failed) ==
    IF row > 1 THEN row' = row - 1 /\ pc' = pc
               ELSE row' = 1 /\ pc' = EndUndo(failed)

SkipUndo ==
    /\ pc = "undo" /\ row \notin committed
    /\ UndoNext(errors)
    /\ UNCHANGED <<files, changed, backedUp, committed, errors, call>>

\* The backup is copied back, unchecked; a file without one is removed.
UndoFile ==
    /\ pc = "undo" /\ row \in committed
    /\ IF row \in backedUp
       THEN \E c \in Copied(backup[second][row]) :
               /\ dest' = [dest EXCEPT ![row] = c]
               /\ miscopied' = (miscopied \/ c = "junk")
       ELSE dest' = [dest EXCEPT ![row] = "none"] /\ UNCHANGED miscopied
    /\ UndoNext(errors)
    /\ UNCHANGED <<changed, backup, made, backedUp, committed, errors, second,
                   before, calls, writes>>

UndoFails ==
    /\ pc = "undo" /\ row \in committed
    /\ IF row \in backedUp
       THEN \E c \in {dest[row], "junk"} : dest' = [dest EXCEPT ![row] = c]
       ELSE Present(row) /\ UNCHANGED dest
    /\ errors' = TRUE
    /\ UndoNext(TRUE)
    /\ UNCHANGED <<changed, backup, made, backedUp, committed, call>>

-----------------------------------------------------------------------------
\* The process is killed; a copy in progress stays as far as it got.
Crash ==
    /\ pc \in Running
    /\ pc' = "idle"
    /\ IF \/ pc = "copy" /\ row \in changed
          \/ pc = "undo" /\ row \in committed \cap backedUp
       THEN \E c \in {dest[row], "junk"} : dest' = [dest EXCEPT ![row] = c]
       ELSE UNCHANGED dest
    /\ IF pc = "backup" /\ row \in changed
       THEN \E c \in {backup[second][row], "torn"} :
               backup' = [backup EXCEPT ![second][row] = c]
       ELSE UNCHANGED backup
    /\ UNCHANGED <<row, changed, made, backedUp, committed, errors, call>>

ForeignWrite ==
    /\ pc \in Running /\ writes.all < MaxForeign
    /\ \E r \in Row : dest' = [dest EXCEPT ![r] = "foreign"]
    /\ writes' = [call |-> writes.call + 1, all |-> writes.all + 1]
    /\ UNCHANGED <<pc, row, changed, backup, made, second, backedUp, committed,
                   errors, miscopied, before, calls>>

-----------------------------------------------------------------------------
Forward == \/ Scan \/ MakeFolder \/ BackUp \/ PrepareFails \/ SkipSame
           \/ CopyFile \/ CopyFails \/ VerifyFile \/ VerifyFails
Backward == SkipUndo \/ UndoFile \/ UndoFails

Next == Call \/ Forward \/ Backward \/ Crash \/ ForeignWrite

Spec == Init /\ [][Next]_vars

-----------------------------------------------------------------------------
TypeOK ==
    /\ pc \in {"idle"} \cup Running \cup Results
    /\ row \in Row
    /\ dest \in [Row -> Contents]
    /\ changed \subseteq Row /\ backedUp \subseteq Row /\ committed \subseteq Row
    /\ backup \in [Second -> [Row -> Contents]] /\ made \subseteq Second
    /\ second \in 0 .. MaxCalls
    /\ errors \in BOOLEAN /\ miscopied \in BOOLEAN
    /\ before \in [Row -> Contents]
    /\ calls \in 0 .. MaxCalls
    /\ writes \in [call : 0 .. MaxForeign, all : 0 .. MaxForeign]

(***************************************************************************)
(* An installation that fails and reports "rollback errors: none" leaves   *)
(* the game as it was before the call, also when the copies it verifies    *)
(* went wrong; only a backup copied back wrongly, which it does not check, *)
(* is excepted.                                                            *)
(***************************************************************************)
FailureRestores ==
    pc \in {"refused", "restored"} /\ writes.call = 0 /\ ~miscopied =>
        dest = before

(***************************************************************************)
(* While the game's files differ from what they were before the call, the  *)
(* call's backup folder has the bytes of every file that was replaced,     *)
(* whether copies go wrong or the process is killed.                       *)
(***************************************************************************)
BackupsComplete ==
    writes.call = 0 /\ dest # before =>
        \A r \in Row :
            dest[r] # before[r] /\ before[r] # "none" =>
                backup[second][r] = before[r]

(***************************************************************************)
(* A backup of the user's file is never overwritten, not even by a second  *)
(* installation in the same second.                                        *)
(***************************************************************************)
KeepsBackups ==
    \A s \in Second, r \in Row :
        s \in made /\ backup[s][r] = "old" => backup'[s][r] = "old"
BackupsKept == [][KeepsBackups]_vars

-----------------------------------------------------------------------------
(* The promise of SafeReplace, in this component. *)

KeptContents ==
    [r \in Row |-> {backup[s][r] : s \in Second} \ {"none", "torn"}]

\* The phase of the promise: a call whose files others wrote, or that copied a
\* backup back wrongly, is lost; a killed one is stuck.
Phase ==
    IF writes.call > 0 \/ miscopied THEN "lost"
    ELSE CASE pc \in Running -> "working"
           [] pc = "idle" -> IF calls = 0 THEN "idle" ELSE "stuck"
           [] pc = "installed" -> "done"
           [] pc \in {"refused", "restored"} -> "undone"
           [] pc = "notrestored" -> "stuck"

Abs == INSTANCE SafeReplace WITH
    Content <- Contents, Nothing <- "none",
    files <- dest, orig <- before, kept <- KeptContents,
    goal <- [r \in Row |-> "new"], phase <- Phase

(***************************************************************************)
(* install_candidate keeps the promise of SafeReplace: no file is touched  *)
(* before all to be replaced are kept, and each result means what it says. *)
(***************************************************************************)
ImplementsSafeReplace == Abs!Spec
=============================================================================
