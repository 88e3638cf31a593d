-------------------------- MODULE ModlistBatchProofs -----------------------
(***************************************************************************)
(* What the report of a batch says of the containers, for every inventory  *)
(* and every number of patches of the game.  The inductive invariant ties  *)
(* the position of the loop to the entries of the report (Position) and    *)
(* says of every container whether its entry has been decided (Decided).   *)
(***************************************************************************)
EXTENDS ModlistBatch, FiniteSetTheorems, TLAPS

AtEntry == {"entry", "rebuild", "decide", "install"}

\* The entries of the report are those of the containers up to the loop's.
Position ==
    /\ pc = "start" => entries = <<>> /\ index = 1
    /\ pc \in AtEntry => index \in Entry /\ Len(entries) = index - 1
    /\ pc = "record" => index \in Entry /\ Len(entries) = index
    /\ pc \in {"close", "done"} => Len(entries) = K

\* A container whose turn has not come is as it was found, but for the one a
\* kill surprised; one that was changed is backed up.
Decided ==
    /\ \A e \in Entry :
          e > Len(entries) =>
              \/ ~Changed(e)
              \/ pc = "killed" /\ e = index /\ e = Len(entries) + 1
    /\ \A e \in Entry :
          e <= Len(entries) /\ Changed(e) => entries[e].status \in {"updated", "failed"}

\* The inductive invariant.
IInv == /\ TypeOK /\ Position /\ Decided /\ ChangedIsBackedUp
        /\ NoopIsForFingerprint

-----------------------------------------------------------------------------
USE BoundsAssumption

ReportEntry == [status : Status, built : Version, fingerprint : Version]

\* Pushing an entry lengthens the list by one and keeps the others.
LEMMA PushProperties ==
    ASSUME TypeOK, NEW status \in Status, Push(status)
    PROVE  /\ entries' \in Seq(ReportEntry)
           /\ Len(entries') = Len(entries) + 1 /\ Len(entries) \in Nat
           /\ \A i \in 1 .. Len(entries) : entries'[i] = entries[i]
           /\ entries'[Len(entries) + 1] =
                 [status |-> status, built |-> built, fingerprint |-> fingerprint]
           /\ counts' \in [Counters -> Nat]
           /\ pc' = "record"
  <1>1. entries \in Seq(ReportEntry)
    BY DEF TypeOK, ReportEntry
  <1>2. [status |-> status, built |-> built, fingerprint |-> fingerprint] \in ReportEntry
    BY DEF TypeOK, ReportEntry
  <1>3. counts' \in [Counters -> Nat]
    BY DEF TypeOK, Push
  <1> QED
    BY <1>1, <1>2, <1>3 DEF Push

\* The invariant holds before the batch begins.
LEMMA InitEstablishes == Init => IInv
  <1> SUFFICES ASSUME Init
               PROVE  IInv
    OBVIOUS
  <1>1. disk \in [Entry -> Container] /\ first \in [Entry -> Container]
    BY DEF Init, Container, Stale, Exact, Equivalent, Version
  <1>2. counts \in [Counters -> Nat] /\ entries \in Seq(ReportEntry) /\ entries = <<>>
    BY DEF Init, NoCounts
  <1>3. report \in [status : {"none", "running", "torn", "complete",
                             "complete-with-errors"}, entries : 0 .. K]
    BY DEF Init
  <1>4. TypeOK
    BY <1>1, <1>2, <1>3 DEF Init, TypeOK, Running, Version, ReportEntry
  <1>5. Position /\ Decided /\ ChangedIsBackedUp /\ NoopIsForFingerprint
    BY <1>2 DEF Init, Position, Decided, Changed, ChangedIsBackedUp, NoopIsForFingerprint,
       AtEntry
  <1> QED
    BY <1>4, <1>5 DEF IInv

\* Deciding the entry of the current container keeps the invariant, if a
\* container that is no longer what it was is backed up and recorded as
\* updated or failed, and a no-op was compared for the recorded fingerprint.
LEMMA PushStep ==
    ASSUME IInv, NEW status \in Status, Push(status), pc \in AtEntry,
           UNCHANGED <<index, complete, armor, first, game, fingerprint, built, report>>,
           disk' \in [Entry -> Container],
           \A e \in Entry : e # index => disk'[e] = disk[e],
           backups \subseteq backups', backups' \subseteq Entry,
           disk'[index] # first[index] =>
              status \in {"updated", "failed"} /\ index \in backups',
           status = "already-noop" =>
              built = fingerprint /\ disk'[index] = Equivalent(fingerprint)
    PROVE  IInv'
  <1>1. /\ entries' \in Seq(ReportEntry)
        /\ Len(entries') = Len(entries) + 1 /\ Len(entries) \in Nat
        /\ \A i \in 1 .. Len(entries) : entries'[i] = entries[i]
        /\ entries'[Len(entries) + 1] =
              [status |-> status, built |-> built, fingerprint |-> fingerprint]
        /\ counts' \in [Counters -> Nat]
        /\ pc' = "record"
    BY PushProperties DEF IInv
  <1>2. index \in Entry /\ Len(entries) = index - 1 /\ index' = index
    BY DEF IInv, Position
  <1>3. TypeOK'
    BY <1>1 DEF IInv, TypeOK, ReportEntry, Running
  <1>4. Position'
    BY <1>1, <1>2 DEF Position, AtEntry, Entry
  <1>5. Decided'
    <2>1. \A e \in Entry : e > index => disk'[e] = first'[e]
      BY <1>1, <1>2 DEF IInv, Decided, Changed, AtEntry, Entry
    <2>2. \A e \in Entry : e < index /\ disk'[e] # first'[e] =>
             entries'[e].status \in {"updated", "failed"}
      BY <1>1, <1>2 DEF IInv, Decided, Changed, Entry
    <2>3. entries'[index].status = status
      BY <1>1, <1>2 DEF Entry
    <2> QED
      BY <1>1, <1>2, <2>1, <2>2, <2>3 DEF Decided, Changed, Entry
  <1>6. ChangedIsBackedUp'
    BY <1>2 DEF IInv, ChangedIsBackedUp, Changed
  <1>7. NoopIsForFingerprint'
    <2> SUFFICES ASSUME NEW i \in 1 .. Len(entries'), entries'[i].status = "already-noop"
                 PROVE  /\ entries'[i].built = entries'[i].fingerprint
                        /\ disk'[i] = Equivalent(entries'[i].fingerprint)
      BY DEF NoopIsForFingerprint, Equivalent
    <2>1. CASE i = index
      BY <1>1, <1>2, <2>1
    <2>2. CASE i # index
      <3>1. i \in 1 .. Len(entries) /\ i \in Entry
        BY <1>1, <1>2, <2>2 DEF Entry
      <3> QED
        BY <1>1, <2>2, <3>1 DEF IInv, NoopIsForFingerprint
    <2> QED
      BY <2>1, <2>2
  <1> QED
    BY <1>3, <1>4, <1>5, <1>6, <1>7 DEF IInv

\* Every step keeps the invariant.
LEMMA IInvStep == IInv /\ [Next]_vars => IInv'
  <1> SUFFICES ASSUME IInv, [Next]_vars
               PROVE  IInv'
    OBVIOUS
  <1>0. /\ disk \in [Entry -> Container] /\ backups \subseteq Entry
        /\ pc \in AtEntry => disk[index] = first[index] /\ index \in Entry
    BY DEF IInv, TypeOK, Position, Decided, Changed, AtEntry, Entry
  <1>1. CASE Refuse
    BY <1>1 DEF Refuse, IInv, TypeOK, Position, Decided, Changed, Running, Ended,
       ChangedIsBackedUp, NoopIsForFingerprint, AtEntry, Entry, fixed, ReportEntry
  <1>2. CASE Start
    BY <1>2 DEF Start, Version, IInv, TypeOK, Position, Decided, Changed, Running, Ended,
       ChangedIsBackedUp, NoopIsForFingerprint, AtEntry, Entry, fixed, ReportEntry
  <1>3. CASE Incomplete
    <2>1. /\ pc \in AtEntry
          /\ UNCHANGED <<index, complete, armor, first, game, fingerprint, built, report,
                          disk, backups>>
      BY <1>3 DEF Incomplete, AtEntry, fixed
    <2> QED
      BY <1>0, <1>3, <2>1, PushStep DEF Incomplete, Status
  <1>4. CASE Preflight
    <2>1. CASE pc' = "rebuild" /\ UNCHANGED <<entries, counts>>
      BY <1>4, <2>1 DEF Preflight, IInv, TypeOK, Position, Decided, Changed, Running,
         ChangedIsBackedUp, NoopIsForFingerprint, AtEntry, fixed
    <2>2. CASE Push("skipped-unsupported")
      <3>1. /\ pc \in AtEntry
            /\ UNCHANGED <<index, complete, armor, first, game, fingerprint, built,
                            report, disk, backups>>
        BY <1>4 DEF Preflight, AtEntry, fixed
      <3> QED
        BY <1>0, <2>2, <3>1, PushStep DEF Status
    <2> QED
      BY <1>4, <2>1, <2>2 DEF Preflight
  <1>5. CASE Rebuild
    BY <1>5 DEF Rebuild, IInv, TypeOK, Position, Decided, Changed, Running, Ended,
       ChangedIsBackedUp, NoopIsForFingerprint, AtEntry, Entry, fixed, ReportEntry
  <1>6. CASE AlreadyConverted
    <2>1. /\ pc \in AtEntry
          /\ UNCHANGED <<index, complete, armor, first, game, fingerprint, built, report,
                          disk, backups>>
      BY <1>6 DEF AlreadyConverted, AtEntry, fixed
    <2>2. CASE Push("already-exact")
      BY <1>0, <2>1, <2>2, PushStep DEF Status
    <2>3. CASE SemanticNoop /\ Push("already-noop")
      BY <1>0, <2>1, <2>3, PushStep DEF Status, SemanticNoop
    <2> QED
      BY <1>6, <2>2, <2>3 DEF AlreadyConverted
  <1>7. CASE Replace
    BY <1>7 DEF Replace, IInv, TypeOK, Position, Decided, Changed, Running, Ended,
       ChangedIsBackedUp, NoopIsForFingerprint, AtEntry, Entry, fixed, ReportEntry
  <1>8. CASE Installed
    <2>1. /\ pc \in AtEntry /\ Push("updated")
          /\ UNCHANGED <<index, complete, armor, first, game, fingerprint, built, report>>
          /\ disk' = [disk EXCEPT ![index] = Exact(built)]
          /\ backups' = backups \cup {index}
      BY <1>8 DEF Installed, AtEntry, fixed
    <2>2. Exact(built) \in Container
      BY DEF IInv, TypeOK, Exact, Container
    <2>3. disk' \in [Entry -> Container] /\ \A e \in Entry : e # index => disk'[e] = disk[e]
      BY <1>0, <2>1, <2>2
    <2> QED
      BY <1>0, <2>1, <2>3, PushStep DEF Status
  <1>9. CASE InstallFails
    <2>1. /\ pc \in AtEntry /\ Push("failed")
          /\ UNCHANGED <<index, complete, armor, first, game, fingerprint, built, report>>
      BY <1>9 DEF InstallFails, AtEntry, fixed
    <2>2. Damaged \in Container
      BY DEF Damaged, Container, Version
    <2>3. \/ UNCHANGED <<disk, backups>>
          \/ backups' = backups \cup {index} /\ disk' \in {disk, [disk EXCEPT ![index] = Damaged]}
      BY <1>9 DEF InstallFails
    <2>4. /\ disk' \in [Entry -> Container] /\ backups' \subseteq Entry
          /\ backups \subseteq backups'
          /\ \A e \in Entry : e # index => disk'[e] = disk[e]
          /\ disk'[index] # first[index] => index \in backups'
      BY <1>0, <2>1, <2>2, <2>3
    <2> QED
      BY <2>1, <2>4, PushStep DEF Status
  <1>10. CASE Fails
    <2>1. /\ pc \in AtEntry
          /\ UNCHANGED <<index, complete, armor, first, game, fingerprint, built, report,
                          disk, backups>>
      BY <1>10 DEF Fails, AtEntry, fixed
    <2> QED
      BY <1>0, <1>10, <2>1, PushStep DEF Fails, Status
  <1>11. CASE Record
    BY <1>11 DEF Record, NextEntry, IInv, TypeOK, Position, Decided, Changed, Running, Ended,
       ChangedIsBackedUp, NoopIsForFingerprint, AtEntry, Entry, fixed, ReportEntry
  <1>12. CASE WriteFails
    BY <1>12 DEF WriteFails, IInv, TypeOK, Position, Decided, Changed, Running, Ended,
       ChangedIsBackedUp, NoopIsForFingerprint, AtEntry, Entry, fixed, ReportEntry
  <1>13. CASE Close
    BY <1>13 DEF Close, Verdict, IInv, TypeOK, Position, Decided, Changed, Running, Ended,
       ChangedIsBackedUp, NoopIsForFingerprint, AtEntry, Entry, fixed, ReportEntry
  <1>14. CASE Patch
    BY <1>14 DEF Patch, Version, IInv, TypeOK, Position, Decided, Changed, Running, Ended,
       ChangedIsBackedUp, NoopIsForFingerprint, AtEntry, Entry, fixed, ReportEntry
  <1>15. CASE Kill
    <2>1. /\ pc \in Running /\ pc' = "killed"
          /\ UNCHANGED <<index, complete, armor, first, game, fingerprint, built, entries,
                          counts>>
      BY <1>15 DEF Kill, fixed
    <2>2. Damaged \in Container /\ Exact(built) \in Container
      BY DEF Damaged, Exact, Container, Version, IInv, TypeOK
    <2>3. /\ disk' \in [Entry -> Container] /\ backups' \subseteq Entry
          /\ backups \subseteq backups'
          /\ \A e \in Entry : disk'[e] # disk[e] =>
                pc = "install" /\ e = index /\ e \in backups'
      <3>1. CASE pc = "install"
        <4>1. index \in Entry /\ disk[index] \in Container
          BY <1>0, <3>1 DEF AtEntry
        <4>2. \/ UNCHANGED <<disk, backups>>
              \/ /\ \E c \in {disk[index], Damaged, Exact(built)} :
                       disk' = [disk EXCEPT ![index] = c]
                 /\ backups' = backups \cup {index}
          BY <1>15, <3>1 DEF Kill
        <4> QED
          BY <1>0, <2>2, <3>1, <4>1, <4>2
      <3>2. CASE pc # "install"
        BY <1>0, <1>15, <3>2 DEF Kill
      <3> QED
        BY <3>1, <3>2
    <2>4. report' \in [status : {"none", "running", "torn", "complete",
                                "complete-with-errors"}, entries : 0 .. K]
      BY <1>15 DEF Kill, IInv, TypeOK
    <2>5. TypeOK'
      BY <2>1, <2>3, <2>4 DEF IInv, TypeOK, Ended
    <2>6. Position' /\ Decided'
      BY <2>1, <2>3 DEF IInv, TypeOK, Position, Decided, Changed, AtEntry, Running, Entry
    <2>7. ChangedIsBackedUp'
      BY <2>1, <2>3 DEF IInv, ChangedIsBackedUp, Changed
    <2>8. NoopIsForFingerprint'
      BY <2>1, <2>3 DEF IInv, Position, AtEntry, NoopIsForFingerprint, Entry, Equivalent, TypeOK
    <2> QED
      BY <2>5, <2>6, <2>7, <2>8 DEF IInv
  <1>16. CASE UNCHANGED vars
    BY <1>16 DEF vars, IInv, TypeOK, Position, Decided, Changed, Running, Ended,
       ChangedIsBackedUp, NoopIsForFingerprint, AtEntry, Entry, fixed, ReportEntry
  <1> QED
    BY <1>1, <1>2, <1>3, <1>4, <1>5, <1>6, <1>7, <1>8, <1>9, <1>10, <1>11, <1>12, <1>13, <1>14, <1>15, <1>16 DEF Next, Batch

\* The invariant holds in every state of every batch.
THEOREM Invariance == Spec => []IInv
  BY InitEstablishes, IInvStep, PTL DEF Spec

(* Types of the batch (run_modlist_update). *)
THEOREM TypeCorrect == Spec => []TypeOK
  <1>1. IInv => TypeOK
    BY DEF IInv
  <1> QED
    BY Invariance, <1>1, PTL

(***************************************************************************)
(* A container the report calls skipped, unsupported or already converted, *)
(* and one the batch has not come to, is byte for byte what it was.        *)
(***************************************************************************)
THEOREM OthersUntouched == Spec => []OnlyDecidedChanged
  <1>1. IInv => OnlyDecidedChanged
    BY DEF IInv, TypeOK, Decided, OnlyDecidedChanged, Entry
  <1> QED
    BY Invariance, <1>1, PTL

(***************************************************************************)
(* Every container the batch has changed or damaged is in its backup.      *)
(***************************************************************************)
THEOREM ChangedBackedUp == Spec => []ChangedIsBackedUp
  <1>1. IInv => ChangedIsBackedUp
    BY DEF IInv
  <1> QED
    BY Invariance, <1>1, PTL

(***************************************************************************)
(* However often the game is patched during the batch, an armor container  *)
(* is left as a semantic no-op only if it was compared with a candidate    *)
(* rebuilt for the game of the recorded fingerprint.                       *)
(***************************************************************************)
THEOREM NoopForFingerprint == Spec => []NoopIsForFingerprint
  <1>1. IInv => NoopIsForFingerprint
    BY DEF IInv
  <1> QED
    BY Invariance, <1>1, PTL

-----------------------------------------------------------------------------
(* The report. *)

\* Every entry is in one of the four counters, and where it belongs.
Tallied ==
    /\ counts["updated"] = Tally({"updated"})
    /\ counts["already"] = Tally({"already-exact", "already-noop"})
    /\ counts["failed"] = Tally({"failed"})
    /\ counts["updated"] + counts["already"] + counts["skipped"] + counts["failed"] = Len(entries)

\* Only the end of the batch writes a final status, of all its entries.
Concluded ==
    report.status \in {"complete", "complete-with-errors"} =>
        /\ pc = "done" /\ report.entries = Len(entries)
        /\ report.status = "complete" <=> counts["failed"] = 0

\* The file is behind by no entry, or by the one that is being recorded; then
\* no container after that one has been touched.
Written ==
    /\ report.status = "torn" => pc \in {"aborted", "killed"}
    /\ pc \in AtEntry \cup {"start", "close", "done"} => report.entries = Len(entries)
    /\ report.status # "torn" =>
          \/ report.entries = Len(entries)
          \/ /\ report.entries = Len(entries) - 1 /\ pc \in {"record", "aborted", "killed"}
             /\ \A e \in Entry : e > Len(entries) => ~Changed(e)

\* A step decides one entry or leaves the entries alone.
LEMMA PushOrKeep ==
    [Next]_vars => UNCHANGED <<entries, counts>> \/ \E status \in Status : Push(status)
  BY DEF Next, Batch, vars, fixed, Status, Refuse, Start, Incomplete, Preflight, Rebuild,
     AlreadyConverted, Replace, Installed, InstallFails, Fails, Record, WriteFails, Close, Patch, Kill

LEMMA TallyStep ==
    ASSUME TypeOK, NEW status \in Status, Push(status), NEW S
    PROVE  Tally(S)' = Tally(S) + IF status \in S THEN 1 ELSE 0
  <1> DEFINE T == {i \in 1 .. Len(entries) : entries[i].status \in S}
             n == Len(entries) + 1
  <1>1. /\ Len(entries) \in Nat /\ Len(entries') = n
        /\ \A i \in 1 .. Len(entries) : entries'[i] = entries[i]
        /\ entries'[n].status = status
    <2>1. /\ Len(entries) \in Nat /\ Len(entries') = Len(entries) + 1
          /\ \A i \in 1 .. Len(entries) : entries'[i] = entries[i]
          /\ entries'[Len(entries) + 1] =
                [status |-> status, built |-> built, fingerprint |-> fingerprint]
      BY PushProperties
    <2> QED
      BY <2>1
  <1>2. IsFiniteSet(T) /\ n \notin T
    <2>1. IsFiniteSet(1 .. Len(entries))
      BY <1>1, FS_Interval
    <2> QED
      BY <1>1, <2>1, FS_Subset
  <1>3. Tally(S)' = Cardinality({i \in 1 .. Len(entries') : entries'[i].status \in S})
        /\ Tally(S) = Cardinality(T)
    BY DEF Tally
  <1>4. {i \in 1 .. Len(entries') : entries'[i].status \in S} = IF status \in S THEN T \cup {n} ELSE T
    BY <1>1
  <1>5. Cardinality(T \cup {n}) = Cardinality(T) + 1 /\ Cardinality(T) \in Nat
    BY <1>2, FS_AddElement, FS_CardinalityType
  <1>6. Tally(S)' = Cardinality(IF status \in S THEN T \cup {n} ELSE T)
    BY <1>3, <1>4
  <1> HIDE DEF T, n
  <1>7. CASE status \in S
    BY <1>3, <1>5, <1>6, <1>7
  <1>8. CASE status \notin S
    BY <1>3, <1>5, <1>6, <1>8
  <1> QED
    BY <1>7, <1>8

LEMMA TalliedStep == TypeOK /\ Tallied /\ [Next]_vars => Tallied'
  <1> SUFFICES ASSUME TypeOK, Tallied, [Next]_vars
               PROVE  Tallied'
    OBVIOUS
  <1>1. CASE UNCHANGED <<entries, counts>>
    BY <1>1 DEF Tallied, Tally
  <1>2. ASSUME NEW status \in Status, Push(status) PROVE Tallied'
    <2>1. \A S : Tally(S)' = Tally(S) + IF status \in S THEN 1 ELSE 0
      BY <1>2, TallyStep
    <2>2. Len(entries') = Len(entries) + 1 /\ Len(entries) \in Nat
      BY <1>2, PushProperties
    <2>3. /\ \A c \in Counters : counts[c] \in Nat
          /\ \A c \in Counters : counts'[c] = counts[c] + IF c \in Counted(status) THEN 1 ELSE 0
      BY <1>2 DEF TypeOK, Push
    <2>4. /\ counts'["updated"] = counts["updated"] + IF status = "updated" THEN 1 ELSE 0
          /\ counts'["already"] = counts["already"]
                + IF status \in {"already-exact", "already-noop"} THEN 1 ELSE 0
          /\ counts'["failed"] = counts["failed"] + IF status = "failed" THEN 1 ELSE 0
          /\ counts'["skipped"] = counts["skipped"]
                + IF status \in {"skipped-unsupported", "skipped-incomplete"} THEN 1 ELSE 0
      BY <2>3 DEF Counted, Counters, Status
    <2>5. /\ Tally({"updated"})' = Tally({"updated"}) + IF status = "updated" THEN 1 ELSE 0
          /\ Tally({"already-exact", "already-noop"})' = Tally({"already-exact", "already-noop"})
                + IF status \in {"already-exact", "already-noop"} THEN 1 ELSE 0
          /\ Tally({"failed"})' = Tally({"failed"}) + IF status = "failed" THEN 1 ELSE 0
      BY <2>1
    <2>6. counts'["updated"] + counts'["already"] + counts'["skipped"] + counts'["failed"]
            = Len(entries')
      <3> DEFINE a == counts["updated"]
                 b == counts["already"]
                 c == counts["skipped"]
                 d == counts["failed"]
      <3>1. a \in Nat /\ b \in Nat /\ c \in Nat /\ d \in Nat /\ a + b + c + d = Len(entries)
        BY <2>3 DEF Counters, Tallied
      <3>2. \/ status = "updated" \/ status \in {"already-exact", "already-noop"}
            \/ status = "failed" \/ status \in {"skipped-unsupported", "skipped-incomplete"}
        BY DEF Status
      <3>3. \/ counts'["updated"] = a + 1 /\ counts'["already"] = b /\ counts'["skipped"] = c /\ counts'["failed"] = d
            \/ counts'["updated"] = a /\ counts'["already"] = b + 1 /\ counts'["skipped"] = c /\ counts'["failed"] = d
            \/ counts'["updated"] = a /\ counts'["already"] = b /\ counts'["skipped"] = c + 1 /\ counts'["failed"] = d
            \/ counts'["updated"] = a /\ counts'["already"] = b /\ counts'["skipped"] = c /\ counts'["failed"] = d + 1
        BY <2>4, <3>1, <3>2
      <3> HIDE DEF a, b, c, d
      <3> QED
        BY <2>2, <3>1, <3>3
    <2> QED
      BY <2>4, <2>5, <2>6 DEF Tallied
  <1> QED
    BY <1>1, <1>2, PushOrKeep

LEMMA WrittenStep == IInv /\ Concluded /\ Written /\ [Next]_vars => Concluded' /\ Written'
  <1> SUFFICES ASSUME IInv, Concluded, Written, [Next]_vars
               PROVE  Concluded' /\ Written'
    OBVIOUS
  <1> USE DEF Concluded, Written, AtEntry, fixed
  <1>1. Len(entries) \in Nat /\ \A c \in Counters : counts[c] \in Nat
    BY DEF IInv, TypeOK
  <1>2. ASSUME NEW status \in Status, Push(status), pc \in AtEntry, UNCHANGED <<first, report>>,
               \A e \in Entry : e # index => disk'[e] = disk[e]
        PROVE  Concluded' /\ Written'
    <2>1. pc' = "record" /\ Len(entries') = Len(entries) + 1
      BY <1>2, PushProperties DEF IInv
    <2>2. index = Len(entries) + 1
      BY <1>1, <1>2 DEF IInv, Position, Entry
    <2>3. \A e \in Entry : e > Len(entries') => disk'[e] = first'[e]
      BY <1>1, <1>2, <2>1, <2>2 DEF IInv, Decided, Changed, Entry
    <2> QED
      BY <1>1, <1>2, <2>1, <2>3 DEF Changed
  <1>3. CASE Refuse
    BY <1>3 DEF Refuse, Changed
  <1>4. CASE Start
    BY <1>4 DEF Start, IInv, Position
  <1>5. CASE Incomplete
    BY <1>2, <1>5 DEF Incomplete, Status
  <1>6. CASE Preflight
    BY <1>2, <1>6 DEF Preflight, Status
  <1>7. CASE Rebuild \/ Replace \/ Patch \/ UNCHANGED vars
    BY <1>7 DEF Rebuild, Replace, Patch, vars, Changed
  <1>8. CASE AlreadyConverted
    BY <1>2, <1>8 DEF AlreadyConverted, Status
  <1>9. CASE Installed
    <2>1. \A e \in Entry : e # index => disk'[e] = disk[e]
      BY <1>9 DEF Installed, IInv, TypeOK
    <2> QED
      BY <1>2, <1>9, <2>1 DEF Installed, Status
  <1>10. CASE InstallFails
    <2>1. \A e \in Entry : e # index => disk'[e] = disk[e]
      BY <1>10 DEF InstallFails, IInv, TypeOK
    <2> QED
      BY <1>2, <1>10, <2>1 DEF InstallFails, Status
  <1>11. CASE Fails
    BY <1>2, <1>11 DEF Fails, Status
  <1>12. CASE Record
    BY <1>1, <1>12 DEF Record, NextEntry, Changed
  <1>13. CASE WriteFails
    <2>1. pc = "record" => \A e \in Entry : e > Len(entries) => ~Changed(e)
      BY DEF IInv, Decided
    <2> QED
      BY <1>1, <1>13, <2>1 DEF WriteFails, Changed
  <1>14. CASE Close
    BY <1>1, <1>14 DEF Close, Verdict, Counters
  <1>15. CASE Kill
    <2>1. pc = "install" => report.entries = Len(entries) /\ UNCHANGED report
      BY <1>15 DEF Kill
    <2>2. pc # "install" => UNCHANGED <<disk, first>>
      BY <1>15 DEF Kill
    <2>3. /\ pc' = "killed" /\ pc \in Running /\ UNCHANGED entries
          /\ report' = report \/ report' = [status |-> "torn", entries |-> 0]
      BY <1>15 DEF Kill
    <2>4. CASE pc = "install"
      BY <2>1, <2>3, <2>4 DEF Running
    <2>5. CASE pc # "install"
      BY <2>2, <2>3, <2>5 DEF Running, Changed
    <2> QED
      BY <2>4, <2>5
  <1> QED
    BY <1>3, <1>4, <1>5, <1>6, <1>7, <1>8, <1>9, <1>10, <1>11, <1>12, <1>13, <1>14, <1>15
       DEF Next, Batch

LEMMA ReportInit == Init => Tallied /\ Concluded /\ Written
  <1> SUFFICES ASSUME Init
               PROVE  Tallied /\ Concluded /\ Written
    OBVIOUS
  <1>1. entries = <<>> /\ Len(entries) = 0 /\ counts = NoCounts
        /\ report = [status |-> "none", entries |-> 0]
    BY DEF Init
  <1>2. \A S : Tally(S) = 0
    <2>1. \A S : {i \in 1 .. Len(entries) : entries[i].status \in S} = {}
      BY <1>1
    <2>2. Cardinality({}) = 0
      BY FS_EmptySet
    <2> QED
      BY <2>1, <2>2 DEF Tally
  <1> QED
    BY <1>1, <1>2 DEF Tallied, Concluded, Written, NoCounts, Counters

\* Entries, counters and file belong together in every state of every batch.
THEOREM ReportInvariance == Spec => [](IInv /\ Tallied /\ Concluded /\ Written)
  <1>1. IInv => TypeOK
    BY DEF IInv
  <1> QED
    BY <1>1, InitEstablishes, IInvStep, ReportInit, TalliedStep, WrittenStep, PTL DEF Spec

(***************************************************************************)
(* However many containers there are and wherever errors strike, the       *)
(* counters shown to the user are those of the entries, and "complete" is  *)
(* said only of a batch without a failed entry.                            *)
(***************************************************************************)
THEOREM ReportIsTrue == Spec => []ReportAgrees
  <1>1. IInv /\ Tallied /\ Concluded => ReportAgrees
    <2> SUFFICES ASSUME IInv, Tallied, Concluded
                 PROVE  ReportAgrees
      OBVIOUS
    <2>1. pc = "done" => Len(entries) = K
      BY DEF IInv, Position
    <2> QED
      BY <2>1 DEF Tallied, Concluded, ReportAgrees
  <1> QED
    BY <1>1, ReportInvariance, PTL

(***************************************************************************)
(* Wherever a batch is killed: if its report can be read, at most one      *)
(* container was changed that the report does not name.                    *)
(***************************************************************************)
THEOREM OneUnrecorded == Spec => []AtMostOneUnrecorded
  <1>1. IInv /\ Written => AtMostOneUnrecorded
    <2> SUFFICES ASSUME IInv, Written, report.status # "torn"
                 PROVE  Cardinality({e \in Entry : Changed(e) /\ e > report.entries}) <= 1
      BY DEF AtMostOneUnrecorded
    <2> DEFINE T == {e \in Entry : Changed(e) /\ e > report.entries}
    <2>1. Len(entries) \in Nat
      BY DEF IInv, TypeOK
    <2>2. \E x : T \subseteq {x}
      <3>1. CASE report.entries = Len(entries)
        <4>1. T \subseteq {Len(entries) + 1}
          BY <2>1, <3>1 DEF IInv, Decided, Entry
        <4> QED
          BY <4>1
      <3>2. CASE report.entries = Len(entries) - 1
                 /\ \A e \in Entry : e > Len(entries) => ~Changed(e)
        <4>1. T \subseteq {Len(entries)}
          BY <2>1, <3>2 DEF Entry
        <4> QED
          BY <4>1
      <3> QED
        BY <3>1, <3>2 DEF Written
    <2> HIDE DEF T
    <2>3. \A x : IsFiniteSet({x}) /\ Cardinality({x}) = 1
      BY FS_Singleton
    <2>4. Cardinality(T) <= 1
      <3>1. PICK x : T \subseteq {x}
        BY <2>2
      <3>2. IsFiniteSet({x}) /\ Cardinality({x}) = 1
        BY <2>3
      <3>3. Cardinality(T) <= Cardinality({x})
        BY <3>1, <3>2, FS_Subset
      <3> QED
        BY <3>2, <3>3
    <2> QED
      BY <2>4 DEF T
  <1> QED
    BY <1>1, ReportInvariance, PTL
=============================================================================
