--------------------------- MODULE ContainerSwap ---------------------------
(***************************************************************************)
(* Replacing one installed container (its .utoc, .ucas and .pak files) by  *)
(* a rebuilt candidate: install_candidate, copy_verified and restore_swap  *)
(* of src/modlist.rs.                                                      *)
(*                                                                         *)
(* The code walks an array of rows, one per file, in a fixed order and     *)
(* several times over.  A row owns four paths: the installed target, the   *)
(* verified backup, and two side files beside the target: the prepared     *)
(* copy of the candidate and the rollback name of the original.  Each file *)
(* operation is a step of its own, and each may fail; between any two of   *)
(* them the program may be killed, and another program (the game, a mod    *)
(* manager) may write a target.                                            *)
(***************************************************************************)
EXTENDS Naturals

CONSTANTS
    N,          \* rows of one container; the code has three
    MaxForeign  \* bound on the writes another program makes to a target

ASSUME NAssumption == N \in Nat \ {0}
ASSUME MaxForeignAssumption == MaxForeign \in Nat

Row == 1 .. N

(***************************************************************************)
(* What a path holds: nothing, the original bytes, the candidate's, a copy *)
(* that broke off or does not hash right, what another program wrote into  *)
(* a target, or a side file this transaction did not create.               *)
(***************************************************************************)
Contents == {"none", "old", "new", "junk", "foreign", "alien"}

Running == {"backup", "check", "prepare", "cleanup", "aside", "place",
            "verify", "remove", "rename", "tidy", "drop"}
Restoring == {"remove", "rename", "tidy"}
Final == {"installed", "unchanged", "restored", "unrestored"}

VARIABLES
    pc,        \* the loop the code is in, or the result it returned
    row,       \* the row that loop is at
    target,    \* the installed files
    prepared,  \* .<name>.obr-new-<nonce>-<index>
    rollback,  \* .<name>.obr-rollback-<nonce>-<index>
    backup,    \* <backup>/originals/<relative>
    broken,    \* restore_swap collected an error
    alive,     \* the process has not been killed
    writes     \* writes another program has made to a target

vars == <<pc, row, target, prepared, rollback, backup, broken, alive, writes>>

\* A side file may be there already: the code refuses to overwrite it.
Init ==
    /\ pc = "backup" /\ row = 1
    /\ target = [r \in Row |-> "old"]
    /\ backup = [r \in Row |-> "none"]
    /\ prepared \in [Row -> {"none", "alien"}]
    /\ rollback \in [Row -> {"none", "alien"}]
    /\ broken = FALSE /\ alive = TRUE /\ writes = 0

-----------------------------------------------------------------------------
(* Control. *)

At(loop) == alive /\ pc = loop

\* The loop goes to its next row, or the code goes on to the next loop.
Advance(loop, next) ==
    IF row < N THEN pc' = loop /\ row' = row + 1
               ELSE pc' = next /\ row' = 1

Jump(next) == pc' = next /\ row' = 1

\* What a destination of copy_verified may hold once the call has failed:
\* the copy was not begun, broke off, or was complete and failed the check.
FailedCopy(before, source) == {before, "junk", source}

-----------------------------------------------------------------------------
(* Backup, side-file check and preparation: nothing installed is touched. *)

\* One row of the first loop: both files exist, the target lies inside
\* ~mods, and it is copied to the backup and both hashes agree.
BackUp ==
    /\ At("backup")
    /\ backup' = [backup EXCEPT ![row] = target[row]]
    /\ Advance("backup", "check")
    /\ UNCHANGED <<target, prepared, rollback, broken, alive, writes>>

\* Mutant of BackUpFails: the copy's error is dropped and the loop goes on.
BackUpFailsUnnoticed ==
    /\ At("backup")
    /\ \E c \in FailedCopy(backup[row], target[row]) :
          backup' = [backup EXCEPT ![row] = c]
    /\ Advance("backup", "check")
    /\ UNCHANGED <<target, prepared, rollback, broken, alive, writes>>

BackUpFails ==
    /\ At("backup")
    /\ \E c \in FailedCopy(backup[row], target[row]) :
          backup' = [backup EXCEPT ![row] = c]
    /\ Jump("unchanged")
    /\ UNCHANGED <<target, prepared, rollback, broken, alive, writes>>

NoSideFiles == \A r \in Row : prepared[r] = "none" /\ rollback[r] = "none"

CheckSideFiles ==
    /\ At("check")
    /\ Jump(IF NoSideFiles THEN "prepare" ELSE "unchanged")
    /\ UNCHANGED <<target, prepared, rollback, backup, broken, alive, writes>>

Prepare ==
    /\ At("prepare")
    /\ prepared' = [prepared EXCEPT ![row] = "new"]
    /\ Advance("prepare", "aside")
    /\ UNCHANGED <<target, rollback, backup, broken, alive, writes>>

PrepareFails ==
    /\ At("prepare")
    /\ \E c \in FailedCopy("none", "new") :
          prepared' = [prepared EXCEPT ![row] = c]
    /\ Jump("cleanup")
    /\ UNCHANGED <<target, rollback, backup, broken, alive, writes>>

\* A prepared file is removed; a removal that fails is ignored.
CleanUp ==
    /\ At("cleanup")
    /\ \E c \in {"none", prepared[row]} :
          prepared' = [prepared EXCEPT ![row] = c]
    /\ Advance("cleanup", "unchanged")
    /\ UNCHANGED <<target, rollback, backup, broken, alive, writes>>

-----------------------------------------------------------------------------
(* The swap. *)

MoveAside ==
    /\ At("aside")
    /\ rollback' = [rollback EXCEPT ![row] = target[row]]
    /\ target' = [target EXCEPT ![row] = "none"]
    /\ Advance("aside", "place")
    /\ UNCHANGED <<prepared, backup, broken, alive, writes>>

\* Rename replaces a target another program has put there meanwhile.
PutInPlace ==
    /\ At("place")
    /\ target' = [target EXCEPT ![row] = prepared[row]]
    /\ prepared' = [prepared EXCEPT ![row] = "none"]
    /\ Advance("place", "verify")
    /\ UNCHANGED <<rollback, backup, broken, alive, writes>>

VerifyInstalled ==
    /\ At("verify")
    /\ target[row] = "new"
    /\ Advance("verify", "drop")
    /\ UNCHANGED <<target, prepared, rollback, backup, broken, alive, writes>>

\* Mutant of SwapFails: the rollback files are dropped after an error too.
SwapFailsDropping ==
    /\ At("aside") \/ At("place") \/ At("verify")
    /\ Jump("drop")
    /\ UNCHANGED <<target, prepared, rollback, backup, broken, alive, writes>>

\* A rename fails, a file cannot be read, or the hashes differ.
SwapFails ==
    /\ At("aside") \/ At("place") \/ At("verify")
    /\ Jump("remove")
    /\ UNCHANGED <<target, prepared, rollback, backup, broken, alive, writes>>

\* The rollback file of a finished swap is removed; failure is ignored.
DropRollback ==
    /\ At("drop")
    /\ \E c \in {"none", rollback[row]} :
          rollback' = [rollback EXCEPT ![row] = c]
    /\ Advance("drop", "installed")
    /\ UNCHANGED <<target, prepared, backup, broken, alive, writes>>

-----------------------------------------------------------------------------
(* restore_swap: per row, remove the replacement, rename the original back *)
(* and remove the prepared file.                                           *)

AfterRestore(failed) == IF failed THEN "unrestored" ELSE "restored"

SkipRemoval ==
    /\ At("remove")
    /\ pc' = IF rollback[row] = "none" THEN "tidy" ELSE "rename"
    /\ rollback[row] = "none" \/ target[row] = "none"
    /\ UNCHANGED <<row, target, prepared, rollback, backup, broken, alive, writes>>

RemoveReplacement ==
    /\ At("remove")
    /\ rollback[row] # "none" /\ target[row] # "none"
    /\ target' = [target EXCEPT ![row] = "none"]
    /\ pc' = "rename"
    /\ UNCHANGED <<row, prepared, rollback, backup, broken, alive, writes>>

\* The error is collected and the rest of the row is skipped.
RemovalFails ==
    /\ At("remove")
    /\ rollback[row] # "none" /\ target[row] # "none"
    /\ broken' = TRUE
    /\ Advance("remove", AfterRestore(TRUE))
    /\ UNCHANGED <<target, prepared, rollback, backup, alive, writes>>

RenameBack ==
    /\ At("rename")
    /\ target' = [target EXCEPT ![row] = rollback[row]]
    /\ rollback' = [rollback EXCEPT ![row] = "none"]
    /\ pc' = "tidy"
    /\ UNCHANGED <<row, prepared, backup, broken, alive, writes>>

RenameBackFails ==
    /\ At("rename")
    /\ broken' = TRUE
    /\ pc' = "tidy"
    /\ UNCHANGED <<row, target, prepared, rollback, backup, alive, writes>>

\* Mutant of TidyPrepared: the loop stays at its row.
TidyPreparedAgain ==
    /\ At("tidy")
    /\ prepared' = [prepared EXCEPT ![row] = "none"]
    /\ pc' = "remove"
    /\ UNCHANGED <<row, target, rollback, backup, broken, alive, writes>>

TidyPrepared ==
    /\ At("tidy")
    /\ \E c \in {"none", prepared[row]} :
          prepared' = [prepared EXCEPT ![row] = c]
    /\ Advance("remove", AfterRestore(broken))
    /\ UNCHANGED <<target, rollback, backup, broken, alive, writes>>

-----------------------------------------------------------------------------
(* The environment. *)

\* The process is killed; a copy in progress stays as far as it got.
Crash ==
    /\ alive /\ pc \in Running
    /\ alive' = FALSE
    /\ IF pc = "backup"
       THEN \E c \in {backup[row], "junk"} : backup' = [backup EXCEPT ![row] = c]
       ELSE UNCHANGED backup
    /\ IF pc = "prepare"
       THEN \E c \in {"none", "junk"} : prepared' = [prepared EXCEPT ![row] = c]
       ELSE UNCHANGED prepared
    /\ UNCHANGED <<pc, row, target, rollback, broken, writes>>

\* Another program writes an installed file while the transaction runs.
ForeignWrite ==
    /\ alive /\ pc \in Running /\ writes < MaxForeign
    /\ \E r \in Row : target' = [target EXCEPT ![r] = "foreign"]
    /\ writes' = writes + 1
    /\ UNCHANGED <<pc, row, prepared, rollback, backup, broken, alive>>

-----------------------------------------------------------------------------
Install ==
    \/ BackUp \/ BackUpFails \/ CheckSideFiles \/ Prepare \/ PrepareFails
    \/ CleanUp \/ MoveAside \/ PutInPlace \/ VerifyInstalled \/ SwapFails
    \/ DropRollback

Restore ==
    \/ SkipRemoval \/ RemoveReplacement \/ RemovalFails \/ RenameBack
    \/ RenameBackFails \/ TidyPrepared

Next == Install \/ Restore \/ Crash \/ ForeignWrite

Spec == Init /\ [][Next]_vars

\* The worker thread runs the transaction without waiting for anyone, and
\* every file operation returns: the code's next step is always taken.
FairSpec == Spec /\ WF_vars(Install \/ Restore)

-----------------------------------------------------------------------------
TypeOK ==
    /\ pc \in Running \cup Final
    /\ row \in Row
    /\ target \in [Row -> Contents]
    /\ prepared \in [Row -> Contents]
    /\ rollback \in [Row -> Contents]
    /\ backup \in [Row -> Contents]
    /\ broken \in BOOLEAN /\ alive \in BOOLEAN
    /\ writes \in 0 .. MaxForeign

Original(r) == target[r] = "old" \/ rollback[r] = "old"

(***************************************************************************)
(* "Keep the original triple intact until the candidate and its backup     *)
(* have both been verified" (install_candidate): no installed file is away *)
(* from its place before every file of the container is in the backup and  *)
(* a verified copy of the candidate has been made of every file.           *)
(***************************************************************************)
BackedUpBeforeSwap ==
    writes = 0 /\ (\E r \in Row : target[r] # "old") =>
        \A r \in Row : backup[r] = "old"

(***************************************************************************)
(* All or nothing, at every instant and after a kill: each original is     *)
(* still beside its target or in place, or the whole candidate is          *)
(* installed.  The rollback files are therefore not given up for a         *)
(* container of which any file is not the verified candidate's.            *)
(***************************************************************************)
OriginalsOrWholeCandidate ==
    writes = 0 => \/ \A r \in Row : Original(r)
                  \/ \A r \in Row : target[r] = "new"

(***************************************************************************)
(* The game never finds files of the original and of the candidate side by *)
(* side in one container, except while restore_swap works or after it has  *)
(* reported that the originals could not all be put back.                  *)
(***************************************************************************)
NoMixedContainer ==
    writes = 0 /\ pc \notin Restoring \cup {"unrestored"} =>
        ~ \E r, s \in Row : target[r] = "old" /\ target[s] = "new"

(***************************************************************************)
(* The result the caller reports is the state of the files: Ok means every *)
(* target is the candidate's; "originals restored" and every earlier error *)
(* mean every target is the original and no original is left under a       *)
(* rollback name.                                                          *)
(***************************************************************************)
ResultIsTrue ==
    writes = 0 =>
        /\ pc = "installed" => \A r \in Row : target[r] = "new"
        /\ pc \in {"restored", "unchanged"} =>
              \A r \in Row : target[r] = "old" /\ rollback[r] # "old"

(***************************************************************************)
(* A side file the transaction did not create is neither overwritten nor   *)
(* removed, not even by the clean-up of a failed preparation.              *)
(***************************************************************************)
KeepsOthers ==
    \A r \in Row : /\ prepared[r] = "alien" => prepared'[r] = "alien"
                   /\ rollback[r] = "alien" => rollback'[r] = "alien"
SideFilesOfOthersKept == [][KeepsOthers]_vars

(***************************************************************************)
(* "Every changed original triple is hash-verified in a backup" (the note  *)
(* of the batch report): a file that was moved aside is deleted only if    *)
(* the backup holds the same bytes.                                        *)
(***************************************************************************)
DeletesBackedUp ==
    \A r \in Row :
        rollback[r] # "none" /\ rollback'[r] = "none" =>
            target'[r] = rollback[r] \/ backup[r] = rollback[r]
DeletedOnlyIfBackedUp == [][DeletesBackedUp]_vars

\* The transaction returns a result, unless the process is killed first.
Returns == <>(pc \in Final \/ ~alive)

-----------------------------------------------------------------------------
(* The promise of SafeReplace, as the refinement mapping sees this code. *)

SavedOld == [r \in Row |-> IF backup[r] = "old" THEN {"old"} ELSE {}]

Phase ==
    IF writes > 0 THEN "lost"
    ELSE IF ~alive \/ pc = "unrestored" THEN "stuck"
    ELSE IF pc \in Running THEN "working"
    ELSE IF pc = "installed" THEN "done" ELSE "undone"

Abs == INSTANCE SafeReplace WITH
    Content <- Contents, Nothing <- "none",
    files <- target, kept <- SavedOld,
    orig <- [r \in Row |-> "old"], goal <- [r \in Row |-> "new"],
    phase <- Phase

(***************************************************************************)
(* install_candidate of modlist.rs keeps the promise of SafeReplace.       *)
(***************************************************************************)
ImplementsSafeReplace == Abs!Spec
=============================================================================
