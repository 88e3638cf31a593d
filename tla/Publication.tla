---------------------------- MODULE Publication ----------------------------
(***************************************************************************)
(* How run_update of src/engine.rs publishes a candidate.                  *)
(*                                                                         *)
(* A direct adapter converts in a folder of its own, then fills the output *)
(* folder in place, writes the report into it and packs both; the ESP      *)
(* lanes install the runtime dependencies last, the plugin-only lane asks  *)
(* for them and installs nothing.  The logical wrapper runs a nested       *)
(* adapter in a temporary folder, reconstructs the physical layout, and    *)
(* moves directory, archive and report to the output one rename after      *)
(* another, taking the moves back when one fails.  Meanwhile the selected  *)
(* mod may be edited and the process killed.                               *)
(***************************************************************************)
EXTENDS Naturals, Sequences

CONSTANTS
    Lanes,    \* the adapters that may be selected, of AllLanes
    MaxEdits  \* bound on edits of the selected mod during the run

(***************************************************************************)
(* "esp": run_esp_sync_lane_update; "plugin-only": run_plugin_only_update  *)
(* of a mod with SyncMap entries; "plain": a direct adapter that asks for  *)
(* no runtime dependency; the others: run_logical_install_update around    *)
(* the additive lane, the mixed composite lane or a plain adapter.         *)
(***************************************************************************)
Logical == {"logical-additive", "logical-mixed", "logical-plain"}
Direct == {"esp", "plugin-only", "plain"}
AllLanes == Logical \cup Direct
Asks == {"esp", "plugin-only"}  \* direct adapters that need the runtime tools

ASSUME PublicationAssumption == Lanes \subseteq AllLanes /\ MaxEdits \in Nat

Item == {"directory", "archive", "report"}
Edition == 0 .. MaxEdits

VARIABLES
    pc,        \* step of the run, or "returned", or "killed"
    lane,
    staged,    \* items in the temporary folder of the logical wrapper
    published, \* items in the output folder
    status,    \* what the published report says of the candidate
    source,    \* edition of the selected mod
    hashed,    \* the edition the run recorded the hash of
    built,     \* the edition the candidate was made from
    runtime,   \* whether the runtime dependencies are installed
    byRun,     \* history: this run changed the game for them
    payload,   \* payloads for the runtime dependencies were attached or found
    undo,      \* moves still to be taken back
    stuck,     \* items whose move could not be taken back
    result

publicationVars == <<pc, lane, staged, published, status, source, hashed, built, runtime,
          byRun, payload, undo, stuck, result>>
output == <<staged, published, status>>
inputs == <<hashed, built>>
game == <<runtime, byRun, payload>>
unwind == <<undo, stuck>>

Steps == {"hash", "copy", "convert", "fill", "verify-output", "write-report",
          "pack", "reconstruct", "stage-archive", "stage-report",
          "publish-directory", "publish-archive", "publish-report",
          "verify-move", "withdraw", "install", "install-report",
          "final-report", "recheck"}

PublicationInit ==
    /\ pc = "hash" /\ lane \in Lanes /\ result = "none"
    /\ staged = {} /\ published = [i \in Item |-> "absent"] /\ status = "none"
    /\ source = 0 /\ hashed = 0 /\ built = 0
    /\ runtime \in BOOLEAN /\ byRun = FALSE /\ payload = FALSE
    /\ undo = <<>> /\ stuck = {}

Go(step) == pc' = step /\ UNCHANGED result
Return(r) == pc' = "returned" /\ result' = r

-----------------------------------------------------------------------------
(* Both kinds of lane. *)

\* The source is hashed and the output names are found free.
HashSource ==
    /\ pc = "hash" /\ hashed' = source /\ Go("copy")
    /\ UNCHANGED <<lane, output, source, built, game, unwind>>

CopySource ==
    /\ pc = "copy" /\ built' = source /\ Go("convert")
    /\ UNCHANGED <<lane, output, source, hashed, game, unwind>>

\* An adapter's gates and its conversion; an adapter that needs the runtime
\* tools goes on if they are installed or payloads for them were found.
Convert ==
    /\ pc = "convert" /\ lane \in Direct /\ Go("fill")
    /\ IF lane \in Asks
       THEN payload' \in BOOLEAN /\ (runtime \/ payload')
       ELSE UNCHANGED payload
    /\ UNCHANGED <<lane, output, source, inputs, runtime, byRun, unwind>>

\* An error before anything is published: the temporary folder is dropped.
FailsBefore ==
    /\ pc \in {"hash", "copy", "convert", "reconstruct", "stage-archive",
               "stage-report", "publish-directory"}
    /\ staged' = {} /\ Return("err")
    /\ UNCHANGED <<lane, published, status, source, inputs, game, unwind>>

-----------------------------------------------------------------------------
(* The direct adapters fill the output folder in place. *)

Fill ==
    /\ pc = "fill" /\ Go("verify-output")
    /\ published' = [published EXCEPT !["directory"] = "partial"]
    /\ UNCHANGED <<lane, staged, status, source, inputs, game, unwind>>

VerifyOutput ==
    /\ pc = "verify-output" /\ Go("write-report")
    /\ published' = [published EXCEPT !["directory"] = "whole"]
    /\ UNCHANGED <<lane, staged, status, source, inputs, game, unwind>>

\* The status of the first report: pending if the tools are still to be
\* installed; the plugin-only lane calls itself ready without them.
FirstStatus ==
    CASE lane = "esp" -> IF runtime THEN "ready" ELSE "pending"
      [] lane = "logical-additive" -> IF payload THEN "pending" ELSE "ready"
      [] OTHER -> "ready"

WriteReport ==
    /\ pc = "write-report" /\ Go("pack")
    /\ published' = [published EXCEPT !["report"] = "whole"]
    /\ status' = FirstStatus
    /\ UNCHANGED <<lane, staged, source, inputs, game, unwind>>

Pack ==
    /\ pc = "pack"
    /\ published' = [published EXCEPT !["archive"] = "whole"]
    /\ IF lane = "esp" THEN Go("install") ELSE Return("ok")
    /\ UNCHANGED <<lane, staged, status, source, inputs, game, unwind>>

\* What a write that is cut short can leave: the report is written in place,
\* the archive is written beside its name and then given it.
CutShort ==
    CASE pc = "write-report" -> {published, [published EXCEPT !["report"] = "partial"]}
      [] pc = "pack" -> {published, [published EXCEPT !["archive"] = "whole"]}
      [] OTHER -> {published}

\* What was written of the output stays behind.
FailsInPlace ==
    /\ pc \in {"fill", "verify-output", "write-report", "pack"}
    /\ published' \in CutShort /\ Return("err")
    /\ UNCHANGED <<lane, staged, status, source, inputs, game, unwind>>

-----------------------------------------------------------------------------
(* The logical wrapper. *)

\* Mutant of Nested: the additive lane is asked to install, like the mixed one.
NestedInstalls ==
    /\ pc = "convert" /\ lane \in Logical /\ Go("reconstruct")
    /\ IF lane = "logical-plain"
       THEN UNCHANGED game
       ELSE byRun' = ~runtime /\ runtime' = TRUE /\ UNCHANGED payload
    /\ UNCHANGED <<lane, output, source, inputs, unwind>>

\* The additive lane defers its dependencies, the mixed lane installs them.
Nested ==
    /\ pc = "convert" /\ lane \in Logical /\ Go("reconstruct")
    /\ CASE lane = "logical-additive" ->
              /\ payload' \in BOOLEAN /\ (runtime \/ payload')
              /\ UNCHANGED <<runtime, byRun>>
         [] lane = "logical-mixed" ->
              /\ byRun' = ~runtime /\ runtime' = TRUE
              /\ UNCHANGED payload
         [] lane = "logical-plain" -> UNCHANGED game
    /\ UNCHANGED <<lane, output, source, inputs, unwind>>

\* The mixed lane can fail after it has installed them.
NestedFails ==
    /\ pc = "convert" /\ lane = "logical-mixed" /\ Return("err")
    /\ byRun' = ~runtime /\ runtime' \in {runtime, TRUE}
    /\ UNCHANGED <<lane, output, source, inputs, payload, unwind>>

\* Mutant of Reconstruct: the hash is taken again instead of compared.
ReconstructRehashed ==
    /\ pc = "reconstruct" /\ hashed' = source /\ Go("stage-archive")
    /\ staged' = {"directory"}
    /\ UNCHANGED <<lane, published, status, source, built, game, unwind>>

\* The physical layout passes a fresh preflight; the source is hashed again.
Reconstruct ==
    /\ pc = "reconstruct" /\ source = hashed /\ Go("stage-archive")
    /\ staged' = {"directory"}
    /\ UNCHANGED <<lane, published, status, source, inputs, game, unwind>>

\* The archive is made, reopened and compared; the source is hashed again.
StageArchive ==
    /\ pc = "stage-archive" /\ source = hashed /\ Go("stage-report")
    /\ staged' = staged \cup {"archive"}
    /\ UNCHANGED <<lane, published, status, source, inputs, game, unwind>>

StageReport ==
    /\ pc = "stage-report" /\ Go("publish-directory")
    /\ staged' = staged \cup {"report"}
    /\ UNCHANGED <<lane, published, status, source, inputs, game, unwind>>

Move(item) ==
    /\ staged' = staged \ {item}
    /\ published' = [published EXCEPT ![item] = "whole"]

PublishDirectory ==
    /\ pc = "publish-directory" /\ Move("directory") /\ Go("publish-archive")
    /\ UNCHANGED <<lane, status, source, inputs, game, unwind>>

PublishArchive ==
    /\ pc = "publish-archive" /\ Move("archive") /\ Go("publish-report")
    /\ UNCHANGED <<lane, status, source, inputs, game, unwind>>

PublishReport ==
    /\ pc = "publish-report" /\ Move("report") /\ status' = FirstStatus
    /\ Go("verify-move")
    /\ UNCHANGED <<lane, source, inputs, game, unwind>>

\* The published archive and the source are hashed once more.
VerifyMove ==
    /\ pc = "verify-move" /\ source = hashed
    /\ Go(IF payload THEN "install" ELSE "final-report")
    /\ UNCHANGED <<lane, output, source, inputs, game, unwind>>

\* An error while hashing returns without taking the moves back.
VerifyMoveUnread ==
    /\ pc = "verify-move" /\ staged' = {} /\ Return("err")
    /\ UNCHANGED <<lane, published, status, source, inputs, game, unwind>>

\* Mutant of Moved: one move is forgotten.
MovedButArchive ==
    CASE pc = "publish-archive" -> <<"directory">>
      [] pc = "publish-report" -> <<"directory">>
      [] pc = "verify-move" -> <<"report", "archive", "directory">>
\* Published items in the order they are taken back.
Moved ==
    CASE pc = "publish-archive" -> <<"directory">>
      [] pc = "publish-report" -> <<"archive", "directory">>
      [] pc = "verify-move" -> <<"report", "archive", "directory">>

\* A rename fails, or the moved files or the source are not what they were.
PublishFails ==
    /\ pc \in {"publish-archive", "publish-report", "verify-move"}
    /\ undo' = Moved /\ Go("withdraw")
    /\ UNCHANGED <<lane, output, source, inputs, game, stuck>>

Withdraw ==
    /\ pc = "withdraw" /\ undo # <<>> /\ undo' = Tail(undo) /\ Go("withdraw")
    /\ LET item == Head(undo) IN
       \/ /\ published' = [published EXCEPT ![item] = "absent"]
          /\ staged' = staged \cup {item}
          /\ UNCHANGED stuck
       \/ stuck' = stuck \cup {item} /\ UNCHANGED <<published, staged>>
    /\ UNCHANGED <<lane, status, source, inputs, game>>

EndWithdraw ==
    /\ pc = "withdraw" /\ undo = <<>> /\ staged' = {} /\ Return("err")
    /\ UNCHANGED <<lane, published, status, source, inputs, game, unwind>>

-----------------------------------------------------------------------------
(* The runtime dependencies, and the final report of the lanes with one. *)

\* check_or_install succeeds and finds both dependencies ready.
InstallRuntime ==
    /\ pc = "install"
    /\ byRun' = (byRun \/ ~runtime) /\ runtime' = TRUE
    /\ Go(IF lane = "esp" THEN "install-report" ELSE "final-report")
    /\ UNCHANGED <<lane, output, source, inputs, payload, unwind>>

\* The transaction is rolled back, or the result is not ready.
InstallFails ==
    /\ pc = "install" /\ Return("err")
    /\ byRun' \in {FALSE, ~runtime} /\ staged' = {}
    /\ UNCHANGED <<lane, published, status, source, inputs, runtime, payload, unwind>>

\* Only the plugin lane on its own writes a report of the installation.
WriteInstallReport ==
    /\ pc = "install-report" /\ (Go("final-report") \/ Return("err"))
    /\ UNCHANGED <<lane, output, source, inputs, game, unwind>>

FinalReport ==
    /\ pc = "final-report" /\ status' = "ready"
    /\ IF lane \in Logical /\ payload THEN Go("recheck") ELSE Return("ok")
    /\ UNCHANGED <<lane, staged, published, source, inputs, game, unwind>>

\* fs::write truncates the published report before it writes.
FinalReportFails ==
    /\ pc = "final-report" /\ Return("err")
    /\ status' \in {status, "torn"}
    /\ UNCHANGED <<lane, staged, published, source, inputs, game, unwind>>

\* The source is hashed a last time; the hashing itself can fail.
Recheck ==
    /\ pc = "recheck"
    /\ (source = hashed /\ Return("ok")) \/ Return("err")
    /\ UNCHANGED <<lane, output, source, inputs, game, unwind>>

-----------------------------------------------------------------------------
(* The environment. *)

Edit ==
    /\ pc \in Steps /\ source < MaxEdits /\ source' = source + 1
    /\ UNCHANGED <<pc, lane, output, inputs, game, unwind, result>>

\* A killed write leaves a part of the file.
Kill ==
    /\ pc \in Steps /\ pc' = "killed"
    /\ published' \in CutShort
    /\ status' \in {status} \cup IF pc = "final-report" THEN {"torn"} ELSE {}
    /\ UNCHANGED <<lane, staged, source, inputs, game, unwind, result>>

Run ==
    \/ HashSource \/ CopySource \/ Convert \/ FailsBefore
    \/ Fill \/ VerifyOutput \/ WriteReport \/ Pack \/ FailsInPlace
    \/ Nested \/ NestedFails \/ Reconstruct \/ StageArchive \/ StageReport
    \/ PublishDirectory \/ PublishArchive \/ PublishReport
    \/ VerifyMove \/ VerifyMoveUnread \/ PublishFails \/ Withdraw \/ EndWithdraw
    \/ InstallRuntime \/ InstallFails \/ WriteInstallReport
    \/ FinalReport \/ FinalReportFails \/ Recheck

PublicationNext == Run \/ Edit \/ Kill

PublicationSpec == PublicationInit /\ [][PublicationNext]_publicationVars

-----------------------------------------------------------------------------
PublicationTypeOK ==
    /\ pc \in Steps \cup {"returned", "killed"} /\ lane \in Lanes
    /\ staged \subseteq Item
    /\ published \in [Item -> {"absent", "partial", "whole"}]
    /\ status \in {"none", "pending", "ready", "torn"}
    /\ source \in Edition /\ hashed \in Edition /\ built \in Edition
    /\ runtime \in BOOLEAN /\ byRun \in BOOLEAN /\ payload \in BOOLEAN
    /\ undo \in Seq(Item) /\ stuck \subseteq Item
    /\ result \in {"none", "ok", "err"}

Whole == \A i \in Item : published[i] = "whole"

(***************************************************************************)
(* A logical publication that returns has published all three items or     *)
(* none, except those whose move back failed and is reported; an adapter   *)
(* that succeeds has published all three.                                  *)
(***************************************************************************)
WholeOrWithdrawn ==
    /\ result = "ok" => Whole
    /\ result = "err" /\ lane \in Logical =>
          Whole \/ \A i \in Item : published[i] # "absent" => i \in stuck

(***************************************************************************)
(* The report of a logical publication is the last item to appear and the  *)
(* first to go: wherever the process is killed, a report in the output     *)
(* folder has its candidate beside it, unless it could not be taken back.  *)
(***************************************************************************)
ReportHasCandidate ==
    lane \in Logical /\ published["report"] # "absent" =>
        Whole \/ "report" \in stuck

(***************************************************************************)
(* "Verifies source immutability": nothing a logical publication leaves in *)
(* the output was made from an edition of the mod other than the one whose *)
(* hash the report names, whenever the mod was edited.                     *)
(***************************************************************************)
MadeFromHashedSource ==
    lane \in Logical /\ (\E i \in Item : published[i] # "absent") => built = hashed

(***************************************************************************)
(* The runtime dependencies come last, and "ready" does not run ahead of   *)
(* them.  (1) Whatever fails or is killed, this run changed the game for   *)
(* them only beside a whole published candidate; the mixed composite lane  *)
(* in a wrapper layout is excepted, it installs inside its nested run.     *)
(* (2) A report says "candidate_ready_for_runtime_test" only with the      *)
(* runtime tools in the game, if the adapter needs any; the plugin-only    *)
(* lane is excepted, to which found payloads are as good.                  *)
(***************************************************************************)
RuntimeLast ==
    /\ byRun => Whole \/ lane = "logical-mixed"
    /\ status = "ready" =>
          \/ runtime
          \/ lane \in {"plain", "logical-plain"}
          \/ lane = "plugin-only" /\ payload
=============================================================================
