---------------------------- MODULE DependencyTxn --------------------------
(***************************************************************************)
(* Installing the runtime dependencies (UE4SS, TesSyncMapInjector) into    *)
(* the game: check_or_install, plan_install_files, commit_install_plan and *)
(* rollback_install_plan of src/dependencies.rs.                           *)
(*                                                                         *)
(* The rows are the payload files of both kinds in the order they are      *)
(* planned.  A call plans, backs up and stages the rows of every missing   *)
(* kind, then commits them row by row, re-checking each destination        *)
(* against what was planned; on an error it undoes the rows it changed in  *)
(* reverse.  Every file operation may fail, the process may be killed      *)
(* between two of them and the user may call again, and another program    *)
(* may write a destination.                                                *)
(***************************************************************************)
EXTENDS Naturals

CONSTANTS
    N,          \* payload files of both kinds
    KindOf,     \* the dependency a row belongs to
    Markers,    \* the rows installed_state looks for
    MaxCalls,   \* bound on calls of check_or_install
    MaxForeign  \* bound on writes by other programs

Row == 1 .. N
Kinds == {"UE4SS", "TesSyncMapInjector"}

ASSUME NAssumption == N \in Nat \ {0}
ASSUME KindAssumption == KindOf \in [Row -> Kinds]
ASSUME MarkersAssumption == Markers \subseteq Row
ASSUME BoundsAssumption == MaxCalls \in Nat /\ MaxForeign \in Nat

(***************************************************************************)
(* What a destination holds: nothing, the user's file, the payload's, a    *)
(* copy that broke off, or what another program wrote before ("foreign")   *)
(* or after ("late") the commit of this call re-checked the row.           *)
(***************************************************************************)
Contents == {"none", "old", "new", "junk", "foreign", "late"}

Running == {"plan", "recheck", "remove", "rename", "verify", "undo", "recopy"}
Results == {"refused", "ready", "installed", "rolledback", "notrestored"}

VARIABLES
    pc,       \* the step of the call, or what it returned
    row,      \* the row it is at
    needed,   \* the kinds that were not installed when the call began
    dest,     \* the files in the game folder
    planned,  \* old_sha256 of a staged row; "unchanged" without a staged file
    touched,  \* mutated or committed
    saved,    \* contents of a destination some backup folder holds
    failures, \* rollback_install_plan collected a failure
    before,   \* history: dest when the call began
    calls,
    writes    \* writes by other programs since the call began, and in all

vars == <<pc, row, needed, dest, planned, touched, saved, failures, before,
          calls, writes>>

Present(r) == dest[r] # "none"

\* Both files of each kind exist: all that installed_state asks for.
Missing == {k \in Kinds : \E m \in Markers : KindOf[m] = k /\ ~Present(m)}

Init ==
    /\ pc = "idle" /\ row = 1 /\ needed = {}
    /\ dest \in [Row -> {"none", "old", "new"}]
    /\ planned = [r \in Row |-> "unchanged"]
    /\ touched = {} /\ failures = FALSE
    /\ saved = [r \in Row |-> {}]
    /\ before = dest /\ calls = 0
    /\ writes = [call |-> 0, all |-> 0]

-----------------------------------------------------------------------------
(* Beginning a call and planning it. *)

\* check_or_install reads the state and stops if nothing is missing.  It
\* refuses while the game runs or if no candidate carries a missing kind.
Call ==
    /\ pc \notin Running /\ calls < MaxCalls
    /\ calls' = calls + 1
    /\ needed' = Missing
    /\ pc' \in IF Missing = {} THEN {"ready"} ELSE {"plan", "refused"}
    /\ row' = 1 /\ touched' = {} /\ failures' = FALSE
    /\ planned' = [r \in Row |-> "unchanged"]
    /\ before' = dest
    /\ writes' = [writes EXCEPT !.call = 0]
    /\ UNCHANGED <<dest, saved>>

InPlan(r) == KindOf[r] \in needed

GoOn(next) ==
    IF row < N THEN row' = row + 1 /\ pc' = pc
               ELSE row' = 1 /\ pc' = next

\* Mutant of PlanRow: the destination is not backed up.
PlanRowUnsaved ==
    /\ pc = "plan"
    /\ planned' = IF InPlan(row) /\ dest[row] # "new"
                  THEN [planned EXCEPT ![row] = dest[row]] ELSE planned
    /\ GoOn("recheck")
    /\ UNCHANGED <<needed, dest, touched, saved, failures, before, calls, writes>>

\* A row of a missing kind whose destination differs is backed up, its
\* backup verified, and the payload staged beside it and verified.
PlanRow ==
    /\ pc = "plan"
    /\ IF InPlan(row) /\ dest[row] # "new"
       THEN /\ planned' = [planned EXCEPT ![row] = dest[row]]
            /\ saved' = [saved EXCEPT ![row] = @ \cup ({dest[row]} \ {"none"})]
       ELSE UNCHANGED <<planned, saved>>
    /\ GoOn("recheck")
    /\ UNCHANGED <<needed, dest, touched, failures, before, calls, writes>>

\* Any error while planning ends the call; staged files are temporary.
PlanFails ==
    /\ pc = "plan"
    /\ pc' = "refused"
    /\ UNCHANGED <<row, needed, dest, planned, touched, saved, failures,
                   before, calls, writes>>

-----------------------------------------------------------------------------
(* Committing the plan. *)

Staged == planned[row] # "unchanged"

Committed == "installed"

SkipUnchanged ==
    /\ pc = "recheck" /\ ~Staged
    /\ GoOn(Committed)
    /\ UNCHANGED <<needed, dest, planned, touched, saved, failures, before,
                   calls, writes>>

\* Mutant of AsPlanned: the destination is only required to exist still.
StillThere == Present(row) \/ planned[row] = "none"

AsPlanned == dest[row] = planned[row]

Recheck ==
    /\ pc = "recheck" /\ Staged /\ AsPlanned
    /\ pc' = IF Present(row) THEN "remove" ELSE "rename"
    /\ UNCHANGED <<row, needed, dest, planned, touched, saved, failures,
                   before, calls, writes>>

RemoveOld ==
    /\ pc = "remove"
    /\ dest' = [dest EXCEPT ![row] = "none"]
    /\ touched' = touched \cup {row}
    /\ pc' = "rename"
    /\ UNCHANGED <<row, needed, planned, saved, failures, before, calls, writes>>

\* The rename replaces a file that has appeared meanwhile.
PutStaged ==
    /\ pc = "rename"
    /\ dest' = [dest EXCEPT ![row] = "new"]
    /\ touched' = touched \cup {row}
    /\ pc' = "verify"
    /\ UNCHANGED <<row, needed, planned, saved, failures, before, calls, writes>>

CommitRow ==
    /\ pc = "verify" /\ dest[row] = "new"
    /\ IF row < N THEN row' = row + 1 /\ pc' = "recheck"
                  ELSE row' = 1 /\ pc' = Committed
    /\ UNCHANGED <<needed, dest, planned, touched, saved, failures, before,
                   calls, writes>>

\* The destination is not as planned, or a file operation fails: everything
\* up to this row is rolled back, last row first.
CommitFails ==
    /\ pc \in {"recheck", "remove", "rename", "verify"} /\ Staged
    /\ pc' = "undo"
    /\ UNCHANGED <<row, needed, dest, planned, touched, saved, failures,
                   before, calls, writes>>

-----------------------------------------------------------------------------
(* rollback_install_plan. *)

EndUndo(failed) == IF failed THEN "notrestored" ELSE "rolledback"

UndoNext(failed) ==
    IF row > 1 THEN row' = row - 1 /\ pc' = "undo"
               ELSE row' = 1 /\ pc' = EndUndo(failed)

SkipUndo ==
    /\ pc = "undo" /\ row \notin touched
    /\ UndoNext(failures)
    /\ UNCHANGED <<needed, dest, planned, touched, saved, failures, before,
                   calls, writes>>

\* The transaction's output is removed; a row without a backup is then done.
UndoRow ==
    /\ pc = "undo" /\ row \in touched
    /\ dest' = [dest EXCEPT ![row] = "none"]
    /\ IF planned[row] = "none" THEN UndoNext(failures)
                                ELSE pc' = "recopy" /\ UNCHANGED row
    /\ UNCHANGED <<needed, planned, touched, saved, failures, before, calls,
                   writes>>

\* The backup is copied back and its hash compared with the planned one.
CopyBack ==
    /\ pc = "recopy"
    /\ dest' = [dest EXCEPT ![row] = planned[row]]
    /\ UndoNext(failures)
    /\ UNCHANGED <<needed, planned, touched, saved, failures, before, calls,
                   writes>>

\* A failed row is noted, and the rows before it are attempted all the same.
UndoFails ==
    /\ \/ pc = "undo" /\ row \in touched /\ Present(row) /\ UNCHANGED dest
       \/ pc = "recopy" /\ \E c \in {"none", "junk", planned[row]} :
                              dest' = [dest EXCEPT ![row] = c]
    /\ failures' = TRUE
    /\ UndoNext(TRUE)
    /\ UNCHANGED <<needed, planned, touched, saved, before, calls, writes>>

-----------------------------------------------------------------------------
(* The environment. *)

\* The process is killed; the backup and the destinations stay.
Crash ==
    /\ pc \in Running
    /\ pc' = "idle"
    /\ IF pc = "recopy"
       THEN \E c \in {"none", "junk"} : dest' = [dest EXCEPT ![row] = c]
       ELSE UNCHANGED dest
    /\ UNCHANGED <<row, needed, planned, touched, saved, failures, before,
                   calls, writes>>

Rechecked(r) ==
    /\ planned[r] # "unchanged"
    /\ \/ pc = "recheck" /\ r < row
       \/ pc \in {"remove", "rename", "verify"} /\ r <= row
       \/ pc \in {"undo", "recopy"} /\ r \in touched

ForeignWrite ==
    /\ writes.all < MaxForeign /\ pc \in Running
    /\ \E r \in Row :
          dest' = [dest EXCEPT ![r] = IF Rechecked(r) THEN "late" ELSE "foreign"]
    /\ writes' = [call |-> writes.call + 1, all |-> writes.all + 1]
    /\ UNCHANGED <<pc, row, needed, planned, touched, saved, failures, before,
                   calls>>

-----------------------------------------------------------------------------
Commit == SkipUnchanged \/ Recheck \/ RemoveOld \/ PutStaged \/ CommitRow \/ CommitFails
Rollback == SkipUndo \/ UndoRow \/ CopyBack \/ UndoFails
Transaction == PlanRow \/ PlanFails \/ Commit \/ Rollback

Next == Call \/ Transaction \/ Crash \/ ForeignWrite

Spec == Init /\ [][Next]_vars

-----------------------------------------------------------------------------
TypeOK ==
    /\ pc \in {"idle"} \cup Running \cup Results
    /\ row \in Row
    /\ needed \subseteq Kinds
    /\ dest \in [Row -> Contents]
    /\ planned \in [Row -> Contents \cup {"unchanged"}]
    /\ touched \subseteq Row
    /\ saved \in [Row -> SUBSET Contents]
    /\ failures \in BOOLEAN
    /\ before \in [Row -> Contents]
    /\ calls \in 0 .. MaxCalls
    /\ writes \in [call : 0 .. MaxForeign, all : 0 .. MaxForeign]

(***************************************************************************)
(* "Commit failure rolls every changed destination back" (the transaction  *)
(* API in docs/FIX-APIS.md): after an error whose rollback succeeded, and  *)
(* after an error before the commit, the game folder is what it was.       *)
(***************************************************************************)
FailureRestores ==
    pc \in {"refused", "rolledback"} /\ writes.call = 0 => dest = before

(***************************************************************************)
(* A call that succeeds has installed every payload file of the kinds that *)
(* were missing, has not touched the others, and leaves both dependencies  *)
(* installed: the `ready` flag the callers insist on.                      *)
(***************************************************************************)
SuccessIsWhole ==
    pc = "installed" /\ writes.call = 0 =>
        /\ \A r \in Row : dest[r] = IF InPlan(r) THEN "new" ELSE before[r]
        /\ \A m \in Markers : Present(m)

(***************************************************************************)
(* No file that another program wrote before its row was re-checked, and   *)
(* no file of the user, disappears without a backup of the same bytes,     *)
(* over retries, rollbacks and kills.                                      *)
(***************************************************************************)
ReplacesBackedUp ==
    \A r \in Row :
        dest[r] \in {"old", "foreign"} /\ dest'[r] # dest[r] =>
            dest[r] \in saved[r] \/ dest'[r] \in {"foreign", "late"}
OnlyBackedUpReplaced == [][ReplacesBackedUp]_vars

-----------------------------------------------------------------------------
(* The promise of SafeReplace, as the refinement mapping sees this code. *)

Goal(r) == IF InPlan(r) THEN "new" ELSE before[r]

Phase ==
    IF writes.call > 0 THEN "lost"
    ELSE IF pc \in Running THEN "working"
    ELSE IF pc = "idle" /\ calls = 0 THEN "idle"
    ELSE IF pc \in {"ready", "installed"} THEN "done"
    ELSE IF pc \in {"refused", "rolledback"} THEN "undone" ELSE "stuck"

Abs == INSTANCE SafeReplace WITH
    Content <- Contents, Nothing <- "none",
    files <- dest, kept <- saved, orig <- before,
    goal <- [r \in Row |-> Goal(r)], phase <- Phase

(***************************************************************************)
(* check_or_install keeps the promise of SafeReplace, call after call.     *)
(***************************************************************************)
ImplementsSafeReplace == Abs!Spec
=============================================================================
