---------------------------- MODULE ModlistBatch ---------------------------
(***************************************************************************)
(* The batch over the installed mod list: run_modlist_update,              *)
(* process_container and record_batch_status of src/modlist.rs.            *)
(*                                                                         *)
(* The inventory and the fingerprint of the game are read once.  Each      *)
(* complete container is then analysed, rebuilt against the game as it is  *)
(* at that moment, compared with what is installed and replaced or left;   *)
(* every entry is recorded in the report before the next one begins.  The  *)
(* replacement itself is the module ContainerSwap; here it is one step     *)
(* with the results that module proves.  Meanwhile the game may be         *)
(* patched, and the process may be killed.                                 *)
(***************************************************************************)
EXTENDS Naturals, Sequences, FiniteSets

CONSTANTS
    K,        \* entries of the inventory, in its order
    MaxPatch  \* bound on patches of the game during the batch

ASSUME BoundsAssumption == K \in Nat /\ MaxPatch \in Nat

Entry == 1 .. K
Version == 0 .. MaxPatch

(***************************************************************************)
(* What the files of an installed container are: made for some older game, *)
(* byte for byte what a rebuild for a version yields, equivalent to it in  *)
(* what an armor rebuild compares, or left damaged by a replacement.       *)
(***************************************************************************)
Stale == [is |-> "stale", for |-> 0]
Exact(v) == [is |-> "exact", for |-> v]
Equivalent(v) == [is |-> "equivalent", for |-> v]
Damaged == [is |-> "damaged", for |-> 0]
Container == [is : {"stale", "exact", "equivalent", "damaged"}, for : Version]

Status == {"updated", "already-exact", "already-noop", "skipped-unsupported",
           "skipped-incomplete", "failed"}
Counters == {"updated", "already", "unsupported", "skipped", "failed"}
NoCounts == [c \in Counters |-> 0]

VARIABLES
    pc,          \* step of the current entry, or how the batch ended
    index,       \* the current entry
    complete,    \* entries of which all three files were found
    armor,       \* entries whose adapter is the armor replacement
    disk,        \* the installed containers
    first,       \* history: disk when the inventory was taken
    backups,     \* entries whose original is in the verified backup
    game,        \* version of the installed game
    fingerprint, \* the version the batch took its fingerprint of
    built,       \* the version the current candidate was rebuilt against
    entries,     \* entries of the report in memory
    counts,
    report       \* the report file: its status and how many entries it has

vars == <<pc, index, complete, armor, disk, first, backups, game, fingerprint,
          built, entries, counts, report>>
fixed == <<complete, armor, first, fingerprint>>

Running == {"start", "entry", "rebuild", "decide", "install", "record", "close"}
Ended == {"refused", "aborted", "done", "killed"}

\* A mod may have been released, or converted elsewhere, for a coming patch.
Init ==
    /\ pc = "start" /\ index = 1
    /\ complete \in SUBSET Entry /\ armor \in SUBSET complete
    /\ disk \in [Entry -> {Stale} \cup {Exact(v) : v \in Version}
                               \cup {Equivalent(v) : v \in Version}]
    /\ first = disk
    /\ backups = {} /\ game = 0 /\ fingerprint = 0 /\ built = 0
    /\ entries = <<>> /\ counts = NoCounts
    /\ report = [status |-> "none", entries |-> 0]

-----------------------------------------------------------------------------
\* The game is incomplete or running, the backup folder lies inside ~mods, a
\* link or a duplicate is found, or the fingerprint cannot be read.
Refuse ==
    /\ pc = "start" /\ pc' = "refused"
    /\ UNCHANGED <<index, disk, backups, game, built, entries, counts, report,
                   fixed>>

\* Inventory and fingerprint are taken and the empty report is written.
Start ==
    /\ pc = "start"
    /\ fingerprint' = game
    /\ report' = [status |-> "running", entries |-> 0]
    /\ pc' = IF K = 0 THEN "close" ELSE "entry"
    /\ UNCHANGED <<index, complete, armor, first, disk, backups, game, built,
                   entries, counts>>

\* Mutant of Counted: an unsupported container is not counted as skipped.
CountedOnce(status) ==
    CASE status = "updated" -> {"updated"}
      [] status \in {"already-exact", "already-noop"} -> {"already"}
      [] status = "skipped-unsupported" -> {"unsupported"}
      [] status = "skipped-incomplete" -> {"skipped"}
      [] status = "failed" -> {"failed"}

\* What the entry with this status adds to a counter.
Counted(status) ==
    CASE status = "updated" -> {"updated"}
      [] status \in {"already-exact", "already-noop"} -> {"already"}
      [] status = "skipped-unsupported" -> {"unsupported", "skipped"}
      [] status = "skipped-incomplete" -> {"skipped"}
      [] status = "failed" -> {"failed"}

\* The entry's result is decided and added to the report in memory.
Push(status) ==
    /\ entries' = Append(entries, [status |-> status, built |-> built,
                                   fingerprint |-> fingerprint])
    /\ counts' = [c \in Counters |->
                     counts[c] + IF c \in Counted(status) THEN 1 ELSE 0]
    /\ pc' = "record"

Incomplete ==
    /\ pc = "entry" /\ index \notin complete
    /\ Push("skipped-incomplete")
    /\ UNCHANGED <<index, disk, backups, game, built, report, fixed>>

\* The container is staged and analysed, and the analysis is saved.
Preflight ==
    /\ pc = "entry" /\ index \in complete
    /\ \/ pc' = "rebuild" /\ UNCHANGED <<entries, counts>>
       \/ Push("skipped-unsupported")
    /\ UNCHANGED <<index, disk, backups, game, built, report, fixed>>

\* run_update rebuilds the staged copy against the game as it is now.
Rebuild ==
    /\ pc = "rebuild"
    /\ built' = game
    /\ pc' = "decide"
    /\ UNCHANGED <<index, disk, backups, game, entries, counts, report, fixed>>

RawExact == disk[index] = Exact(built)

\* Mutant of SemanticNoop: the report's game hashes are not compared.
SemanticNoopUnbound == index \in armor /\ disk[index] = Equivalent(built)

\* The armor report shows no mutation and names the game of the fingerprint.
SemanticNoop ==
    /\ index \in armor
    /\ disk[index] = Equivalent(built)
    /\ built = fingerprint

AlreadyConverted ==
    /\ pc = "decide"
    /\ \/ RawExact /\ Push("already-exact")
       \/ ~RawExact /\ SemanticNoop /\ Push("already-noop")
    /\ UNCHANGED <<index, disk, backups, game, built, report, fixed>>

Replace ==
    /\ pc = "decide" /\ ~RawExact /\ ~SemanticNoop
    /\ pc' = "install"
    /\ UNCHANGED <<index, disk, backups, game, built, entries, counts, report,
                   fixed>>

\* ContainerSwap ends "installed".
Installed ==
    /\ pc = "install"
    /\ disk' = [disk EXCEPT ![index] = Exact(built)]
    /\ backups' = backups \cup {index}
    /\ Push("updated")
    /\ UNCHANGED <<index, game, built, report, fixed>>

\* ContainerSwap ends "unchanged" or "restored", or "unrestored".
InstallFails ==
    /\ pc = "install"
    /\ \/ UNCHANGED <<disk, backups>>
       \/ backups' = backups \cup {index} /\ UNCHANGED disk
       \/ /\ disk' = [disk EXCEPT ![index] = Damaged]
          /\ backups' = backups \cup {index}
    /\ Push("failed")
    /\ UNCHANGED <<index, game, built, report, fixed>>

\* Mutant of Fails: an error ends the loop instead of the entry.
FailsAll ==
    /\ \/ pc = "entry" /\ index \in complete
       \/ pc \in {"rebuild", "decide"}
    /\ pc' = "close"
    /\ UNCHANGED <<index, disk, backups, game, built, entries, counts, report,
                   fixed>>

\* Any other error of process_container: the entry is recorded as failed.
Fails ==
    /\ \/ pc = "entry" /\ index \in complete
       \/ pc \in {"rebuild", "decide"}
    /\ Push("failed")
    /\ UNCHANGED <<index, disk, backups, game, built, report, fixed>>

-----------------------------------------------------------------------------
\* The whole report is rewritten after every entry; an error ends the batch.
NextEntry == IF index < K THEN pc' = "entry" /\ index' = index + 1
                         ELSE pc' = "close" /\ UNCHANGED index

\* Mutant of Record: the report is written only at the end.
RecordLater ==
    /\ pc = "record"
    /\ IF index < K THEN pc' = "entry" /\ index' = index + 1
                    ELSE pc' = "close" /\ UNCHANGED index
    /\ UNCHANGED <<disk, backups, game, built, entries, counts, report, fixed>>

Record ==
    /\ pc = "record"
    /\ report' = [status |-> "running", entries |-> Len(entries)]
    /\ NextEntry
    /\ UNCHANGED <<disk, backups, game, built, entries, counts, fixed>>

\* fs::write truncates first: a failed write may leave a torn file.
WriteFails ==
    /\ pc \in {"start", "record", "close"}
    /\ \/ report' = [status |-> "torn", entries |-> 0]
       \/ UNCHANGED report
    /\ pc' = "aborted"
    /\ UNCHANGED <<index, disk, backups, game, built, entries, counts, fixed>>

Verdict == IF counts["failed"] > 0 THEN "complete-with-errors" ELSE "complete"

Close ==
    /\ pc = "close"
    /\ report' = [status |-> Verdict, entries |-> Len(entries)]
    /\ pc' = "done"
    /\ UNCHANGED <<index, disk, backups, game, built, entries, counts, fixed>>

-----------------------------------------------------------------------------
(* The environment. *)

\* The store patches the game: later rebuilds see the new version.
Patch ==
    /\ pc \in Running /\ game < MaxPatch
    /\ game' = game + 1
    /\ UNCHANGED <<pc, index, disk, backups, built, entries, counts, report, fixed>>

\* A killed replacement leaves what ContainerSwap shows it can leave.
Kill ==
    /\ pc \in Running
    /\ pc' = "killed"
    /\ IF pc = "install"
       THEN \/ UNCHANGED <<disk, backups>>
            \/ /\ \E c \in {disk[index], Damaged, Exact(built)} :
                     disk' = [disk EXCEPT ![index] = c]
               /\ backups' = backups \cup {index}
       ELSE UNCHANGED <<disk, backups>>
    /\ IF pc \in {"start", "record", "close"}
       THEN report' \in {report, [status |-> "torn", entries |-> 0]}
       ELSE UNCHANGED report
    /\ UNCHANGED <<index, game, built, entries, counts, fixed>>

-----------------------------------------------------------------------------
Batch ==
    \/ Refuse \/ Start \/ Incomplete \/ Preflight \/ Rebuild \/ AlreadyConverted
    \/ Replace \/ Installed \/ InstallFails \/ Fails \/ Record \/ WriteFails
    \/ Close

Next == Batch \/ Patch \/ Kill

Spec == Init /\ [][Next]_vars

\* The batch runs on a worker thread that waits for nobody.
FairSpec == Spec /\ WF_vars(Batch)

-----------------------------------------------------------------------------
TypeOK ==
    /\ pc \in Running \cup Ended
    /\ index \in Entry \cup {1}
    /\ complete \subseteq Entry /\ armor \subseteq complete
    /\ disk \in [Entry -> Container] /\ first \in [Entry -> Container]
    /\ backups \subseteq Entry
    /\ game \in Version /\ fingerprint \in Version /\ built \in Version
    /\ entries \in Seq([status : Status, built : Version, fingerprint : Version])
    /\ counts \in [Counters -> Nat]
    /\ report \in [status : {"none", "running", "torn", "complete",
                             "complete-with-errors"}, entries : 0 .. K]

Changed(e) == disk[e] # first[e]

(***************************************************************************)
(* The note of the report: containers without a proven adapter, incomplete *)
(* and already converted ones are left byte-identical, whatever happens to *)
(* the game meanwhile and wherever the process is killed; and a container  *)
(* the batch has not come to is not touched.                               *)
(***************************************************************************)
OnlyDecidedChanged ==
    \A e \in Entry :
        Changed(e) =>
            \/ e <= Len(entries) /\ entries[e].status \in {"updated", "failed"}
            \/ e = Len(entries) + 1 /\ e = index /\ pc = "killed"

(***************************************************************************)
(* "Every changed original triple is hash-verified in a backup": a         *)
(* container that is not what it was, damaged ones included, can be put    *)
(* back from this batch's backup.                                          *)
(***************************************************************************)
ChangedIsBackedUp == \A e \in Entry : Changed(e) => e \in backups

(***************************************************************************)
(* A container is kept on the strength of the armor comparison only if the *)
(* candidate it was compared with was rebuilt for the game of the recorded *)
(* fingerprint, although the game may be patched during the batch.         *)
(***************************************************************************)
NoopIsForFingerprint ==
    \A i \in 1 .. Len(entries) :
        entries[i].status = "already-noop" =>
            /\ entries[i].built = entries[i].fingerprint
            /\ disk[i] = Equivalent(entries[i].fingerprint)

Tally(S) == Cardinality({i \in 1 .. Len(entries) : entries[i].status \in S})

(***************************************************************************)
(* The counters agree with the entries, each entry being in exactly one of *)
(* updated, already, skipped and failed; and the status the user is shown  *)
(* is "complete" only if no entry failed and every container has one.      *)
(***************************************************************************)
ReportAgrees ==
    /\ counts["updated"] = Tally({"updated"})
    /\ counts["already"] = Tally({"already-exact", "already-noop"})
    /\ counts["failed"] = Tally({"failed"})
    /\ counts["updated"] + counts["already"] + counts["skipped"] + counts["failed"]
          = Len(entries)
    /\ report.status \in {"complete", "complete-with-errors"} =>
          /\ report.entries = K
          /\ report.status = "complete" <=> Tally({"failed"}) = 0

(***************************************************************************)
(* While the report on disk is whole, at most one changed container is     *)
(* missing from it: a killed batch leaves one container to look after.     *)
(***************************************************************************)
AtMostOneUnrecorded ==
    report.status # "torn" =>
        Cardinality({e \in Entry : Changed(e) /\ e > report.entries}) <= 1

\* The batch ends; one failing container does not hold up the others.
EndsComplete ==
    <>(\/ pc \in {"refused", "aborted", "killed"}
       \/ pc = "done" /\ Len(entries) = K)
=============================================================================
