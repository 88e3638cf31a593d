------------------------ MODULE CandidateInstallProofs ---------------------
(***************************************************************************)
(* Safety of the confirmed installation for every candidate, every number  *)
(* of installations and of writes by other programs.  That backup folders  *)
(* are not reused (Folders) holds always; what a call owes to the files it *)
(* replaces (Progress) holds in a call nobody interferes with, whatever    *)
(* the calls before it left.                                               *)
(***************************************************************************)
EXTENDS CandidateInstall, TLAPS

\* A folder that is not made has no files; the one being filled has none yet
\* at the rows to come.  A call is in a second no later than its number.
Folders ==
    /\ \A s \in Second \ made : \A r \in Row : backup[s][r] = "none"
    /\ pc = "backup" =>
          second \in made /\ \A r \in Row : r >= row => backup[second][r] = "none"
    /\ pc \in Running => second \in Second
    /\ second <= calls
    /\ writes.call <= writes.all

ToReplace == {r \in Row : before[r] # "new"}

\* Comparison and backup: nothing in the game is touched.
Preparing ==
    /\ pc \in {"scan", "mkdir", "backup", "refused"} => dest = before
    /\ pc \in {"scan", "mkdir", "backup", "copy", "verify"} =>
          errors = FALSE /\ miscopied = FALSE
    /\ pc \in {"scan", "mkdir", "backup"} => committed = {}
    /\ pc \in {"scan", "mkdir"} => backedUp = {}
    /\ pc = "scan" => changed = {r \in ToReplace : r < row}
    /\ pc \in {"mkdir", "backup", "copy", "verify", "undo"} => changed = ToReplace
    /\ pc \in {"backup", "copy", "verify", "undo"} =>
          \A r \in backedUp : before[r] # "none" /\ backup[second][r] = before[r]
    /\ pc = "backup" =>
          \A r \in ToReplace : r < row /\ before[r] # "none" => r \in backedUp
    /\ pc \in {"copy", "verify", "undo"} =>
          \A r \in ToReplace : before[r] # "none" => r \in backedUp

\* Only rows in the rollback list differ from what they were.
Copying ==
    /\ pc \in {"copy", "verify", "undo"} =>
          /\ committed \subseteq ToReplace
          /\ \A r \in Row \ committed : dest[r] = before[r]
    /\ pc = "copy" => \A r \in committed : r < row
    /\ pc = "verify" => row \in committed /\ \A r \in committed : r <= row

\* The rollback goes down the rows; unless it noted an error or copied a
\* backup wrongly, those above are back.
Restoring ==
    /\ pc = "undo" =>
          \A r \in Row : r > row => dest[r] = before[r] \/ errors \/ miscopied
    /\ pc = "restored" => dest = before \/ miscopied

\* Whatever differs from what it was is in this call's folder, also when the
\* call has ended or was killed.
Saved ==
    \A r \in Row :
        dest[r] # before[r] /\ before[r] # "none" => backup[second][r] = before[r]

Progress == Preparing /\ Copying /\ Restoring /\ Saved

\* The inductive invariant.
IInv == TypeOK /\ Folders /\ (writes.call = 0 => Progress)

-----------------------------------------------------------------------------
USE NAssumption, BoundsAssumption

\* The invariant holds before the first call.
LEMMA InitEstablishes == Init => IInv
  <1> SUFFICES ASSUME Init
               PROVE  IInv
    OBVIOUS
  <1>1. TypeOK
    <2>1. dest \in [Row -> Contents] /\ before \in [Row -> Contents]
      BY DEF Init, Contents
    <2>2. backup \in [Second -> [Row -> Contents]]
      BY DEF Init, Contents
    <2>3. writes \in [call : 0 .. MaxForeign, all : 0 .. MaxForeign]
      BY DEF Init
    <2>4. row \in Row /\ calls \in 0 .. MaxCalls /\ second \in 0 .. MaxCalls
      BY DEF Init, Row
    <2> QED
      BY <2>1, <2>2, <2>3, <2>4 DEF Init, TypeOK
  <1>2. Folders
    BY DEF Init, Folders, Running
  <1>3. Progress
    BY DEF Init, Progress, Preparing, Copying, Restoring, Saved
  <1> QED
    BY <1>1, <1>2, <1>3 DEF IInv

\* One file of this call's backup folder is written.
LEMMA BackupWrite ==
    ASSUME TypeOK, second \in Second, NEW c \in Contents,
           backup' = [backup EXCEPT ![second][row] = c]
    PROVE  /\ backup' \in [Second -> [Row -> Contents]]
           /\ backup'[second][row] = c
           /\ \A s \in Second, r \in Row :
                 s # second \/ r # row => backup'[s][r] = backup[s][r]
  <1>1. backup \in [Second -> [Row -> Contents]] /\ row \in Row
    BY DEF TypeOK
  <1>2. [backup[second] EXCEPT ![row] = c] \in [Row -> Contents]
    BY <1>1
  <1>3. backup' = [backup EXCEPT ![second] = [backup[second] EXCEPT ![row] = c]]
    BY <1>1
  <1> QED
    BY <1>1, <1>2, <1>3

\* Types: every step keeps every variable in its set.
LEMMA TypeStep ==
    ASSUME TypeOK, Folders, [Next]_vars
    PROVE  TypeOK'
  <1> USE DEF TypeOK, Folders, Running, Results, Contents, Row, Second, files, call
  <1>1. CASE Call
    <2>1. /\ pc' \in {"scan", "refused"} /\ row' \in Row
          /\ calls' \in 0 .. MaxCalls /\ second' \in 0 .. MaxCalls
      BY <1>1 DEF Call
    <2>2. writes' \in [call : 0 .. MaxForeign, all : 0 .. MaxForeign]
      BY <1>1 DEF Call
    <2> QED
      BY <1>1, <2>1, <2>2 DEF Call
  <1>2. CASE Scan
    BY <1>2 DEF Scan, Advance
  <1>3. CASE MakeFolder
    <2>1. pc' \in {"copy", "backup"} /\ row' \in Row
      BY <1>3 DEF MakeFolder
    <2>2. made' \subseteq Second
      BY <1>3 DEF MakeFolder
    <2> QED
      BY <1>3, <2>1, <2>2 DEF MakeFolder
  <1>4. CASE BackUp
    <2>1. pc' \in Running /\ row' \in Row
      BY <1>4 DEF BackUp, Advance
    <2>2. backup' \in [Second -> [Row -> Contents]] /\ backedUp' \subseteq Row
      <3>1. CASE row \in changed /\ Present(row)
        <4>1. /\ backup' = [backup EXCEPT ![second][row] = dest[row]]
              /\ backedUp' = backedUp \cup {row}
          BY <1>4, <3>1 DEF BackUp
        <4>2. second \in Second /\ dest[row] \in Contents
          BY <1>4 DEF BackUp
        <4> QED
          BY <4>1, <4>2, BackupWrite
      <3>2. CASE ~(row \in changed /\ Present(row))
        BY <1>4, <3>2 DEF BackUp
      <3> QED
        BY <3>1, <3>2
    <2> QED
      BY <1>4, <2>1, <2>2 DEF BackUp
  <1>5. CASE PrepareFails
    <2>1. backup' \in [Second -> [Row -> Contents]]
      <3>1. CASE UNCHANGED backup
        BY <3>1
      <3>2. CASE \E c \in {backup[second][row], "torn", dest[row]} :
                    backup' = [backup EXCEPT ![second][row] = c] /\ pc = "backup"
        <4>1. backup[second][row] \in Contents
          BY <3>2
        <4> QED
          BY <3>2, <4>1, BackupWrite
      <3> QED
        BY <1>5, <3>1, <3>2 DEF PrepareFails
    <2> QED
      BY <1>5, <2>1 DEF PrepareFails, Refuse
  <1>6. CASE SkipSame
    BY <1>6 DEF SkipSame, Advance
  <1>7. CASE CopyFile
    BY <1>7 DEF CopyFile, Copied
  <1>8. CASE CopyFails
    <2>1. dest' \in [Row -> Contents] /\ committed' \subseteq Row
      <3>1. CASE UNCHANGED <<committed, dest>>
        BY <3>1
      <3>2. CASE committed' = committed \cup {row} /\
                    \E c \in {dest[row], "junk"} : dest' = [dest EXCEPT ![row] = c]
        <4>1. dest[row] \in Contents
          OBVIOUS
        <4> QED
          BY <3>2, <4>1
      <3> QED
        BY <1>8, <3>1, <3>2 DEF CopyFails
    <2>2. pc' = "undo" /\ row' \in Row
      BY <1>8 DEF CopyFails
    <2> QED
      BY <1>8, <2>1, <2>2 DEF CopyFails
  <1>9. CASE VerifyFile
    BY <1>9 DEF VerifyFile
  <1>10. CASE VerifyFails
    BY <1>10 DEF VerifyFails
  <1>11. CASE SkipUndo
    BY <1>11 DEF SkipUndo, UndoNext, EndUndo
  <1>12. CASE UndoFile
    <2>1. backup[second][row] \in Contents
      BY <1>12 DEF UndoFile
    <2>2. dest' \in [Row -> Contents] /\ miscopied' \in BOOLEAN
      <3>1. CASE row \in backedUp
        <4>1. PICK c \in {backup[second][row], "junk"} :
                 /\ dest' = [dest EXCEPT ![row] = c]
                 /\ miscopied' = (miscopied \/ c = "junk")
          BY <1>12, <3>1 DEF UndoFile, Copied
        <4> QED
          BY <2>1, <4>1
      <3>2. CASE row \notin backedUp
        BY <1>12, <3>2 DEF UndoFile
      <3> QED
        BY <3>1, <3>2
    <2>3. row' \in Row /\ pc' \in Running \cup Results
      BY <1>12 DEF UndoFile, UndoNext, EndUndo
    <2> QED
      BY <1>12, <2>2, <2>3 DEF UndoFile
  <1>13. CASE UndoFails
    <2>1. dest' \in [Row -> Contents]
      BY <1>13 DEF UndoFails
    <2>2. row' \in Row /\ pc' \in Running \cup Results
      BY <1>13 DEF UndoFails, UndoNext, EndUndo
    <2> QED
      BY <1>13, <2>1, <2>2 DEF UndoFails
  <1>14. CASE Crash
    <2>1. dest' \in [Row -> Contents]
      BY <1>14 DEF Crash
    <2>2. backup' \in [Second -> [Row -> Contents]]
      <3>1. CASE UNCHANGED backup
        BY <3>1
      <3>2. CASE \E c \in {backup[second][row], "torn"} :
                    backup' = [backup EXCEPT ![second][row] = c] /\ pc = "backup"
        <4>1. backup[second][row] \in Contents
          BY <3>2
        <4> QED
          BY <3>2, <4>1, BackupWrite
      <3> QED
        BY <1>14, <3>1, <3>2 DEF Crash
    <2> QED
      BY <1>14, <2>1, <2>2 DEF Crash
  <1>15. CASE ForeignWrite
    BY <1>15 DEF ForeignWrite
  <1>16. CASE UNCHANGED vars
    BY <1>16 DEF vars
  <1> QED
    BY <1>1, <1>2, <1>3, <1>4, <1>5, <1>6, <1>7, <1>8, <1>9, <1>10, <1>11, <1>12, <1>13, <1>14, <1>15, <1>16 DEF Next, Forward, Backward

\* Backups are written one at a time, at the row the backup loop is at.
LEMMA BackupSteps ==
    ASSUME TypeOK, Folders, BackUp \/ PrepareFails \/ Crash
    PROVE  \/ UNCHANGED backup
           \/ /\ pc = "backup" /\ second \in made /\ second \in Second /\ row \in Row
              /\ backup[second][row] = "none"
              /\ \A s \in Second, r \in Row :
                    s # second \/ r # row => backup'[s][r] = backup[s][r]
  <1> SUFFICES ASSUME backup' # backup
               PROVE  /\ pc = "backup" /\ second \in made /\ second \in Second /\ row \in Row
                      /\ backup[second][row] = "none"
                      /\ \A s \in Second, r \in Row :
                            s # second \/ r # row => backup'[s][r] = backup[s][r]
    OBVIOUS
  <1>1. pc = "backup" /\ \E c \in Contents : backup' = [backup EXCEPT ![second][row] = c]
    <2>1. dest[row] \in Contents /\ (second \in Second => backup[second][row] \in Contents)
      BY DEF TypeOK
    <2>2. "torn" \in Contents
      BY DEF Contents
    <2>3. CASE BackUp
      BY <2>1, <2>3 DEF BackUp
    <2>4. CASE PrepareFails
      BY <2>1, <2>2, <2>4 DEF PrepareFails, Folders, Running
    <2>5. CASE Crash
      BY <2>1, <2>2, <2>5 DEF Crash, Folders, Running
    <2> QED
      BY <2>3, <2>4, <2>5
  <1>2. second \in made /\ second \in Second /\ row \in Row
    BY <1>1 DEF Folders, TypeOK, Running
  <1>3. backup[second][row] = "none"
    BY <1>1, <1>2 DEF Folders, Row
  <1> QED
    BY <1>1, <1>2, <1>3, BackupWrite

\* The backup loop, and what can end it, keep to the folder of the call.
LEMMA FoldersWritten ==
    ASSUME TypeOK, Folders, BackUp \/ PrepareFails \/ Crash
    PROVE  Folders'
  <1>1. UNCHANGED <<second, calls, writes, made>>
    BY DEF BackUp, PrepareFails, Crash, call
  <1>2. pc' \in Running => pc \in Running
    BY DEF BackUp, PrepareFails, Crash, Running
  <1>3. pc' = "backup" => pc = "backup" /\ row' = row + 1
    BY DEF BackUp, PrepareFails, Crash, Refuse, Advance
  <1>4. ASSUME NEW s \in Second \ made, NEW r \in Row
        PROVE  backup'[s][r] = "none"
    <2>1. backup[s][r] = "none"
      BY DEF Folders
    <2> QED
      BY <2>1, BackupSteps
  <1>5. ASSUME pc' = "backup", NEW r \in Row, r >= row'
        PROVE  second \in made /\ backup'[second][r] = "none"
    <2>1. second \in made /\ second \in Second
      BY <1>3, <1>5 DEF Folders, Running
    <2>2. row \in Row /\ r # row /\ r >= row
      BY <1>3, <1>5 DEF TypeOK, Row
    <2>3. backup[second][r] = "none"
      BY <1>3, <1>5, <2>2 DEF Folders
    <2> QED
      BY <2>1, <2>2, <2>3, BackupSteps
  <1>6. pc' = "backup" => second \in made
    BY <1>3 DEF Folders
  <1> QED
    BY <1>1, <1>2, <1>4, <1>5, <1>6 DEF Folders

\* No step fills a folder that another call has made.
LEMMA FoldersStep ==
    ASSUME TypeOK, TypeOK', Folders, [Next]_vars
    PROVE  Folders'
  <1> USE DEF TypeOK, Folders, Running, Results, Row, Second, files, call
  <1>1. CASE Call
    BY <1>1 DEF Call
  <1>2. CASE Scan
    BY <1>2 DEF Scan, Advance
  <1>3. CASE MakeFolder
    BY <1>3 DEF MakeFolder, MayCreate, Replaced, Present
  <1>4. CASE BackUp
    BY <1>4, FoldersWritten
  <1>5. CASE PrepareFails
    BY <1>5, FoldersWritten
  <1>6. CASE SkipSame
    BY <1>6 DEF SkipSame, Advance
  <1>7. CASE CopyFile
    BY <1>7 DEF CopyFile, Copied
  <1>8. CASE CopyFails
    BY <1>8 DEF CopyFails
  <1>9. CASE VerifyFile
    BY <1>9 DEF VerifyFile
  <1>10. CASE VerifyFails
    BY <1>10 DEF VerifyFails
  <1>11. CASE SkipUndo
    BY <1>11 DEF SkipUndo, UndoNext, EndUndo
  <1>12. CASE UndoFile
    BY <1>12 DEF UndoFile, UndoNext, EndUndo, Copied
  <1>13. CASE UndoFails
    BY <1>13 DEF UndoFails, UndoNext, EndUndo, Present
  <1>14. CASE Crash
    BY <1>14, FoldersWritten
  <1>15. CASE ForeignWrite
    BY <1>15 DEF ForeignWrite
  <1>16. CASE UNCHANGED vars
    BY <1>16 DEF vars
  <1> QED
    BY <1>1, <1>2, <1>3, <1>4, <1>5, <1>6, <1>7, <1>8, <1>9, <1>10, <1>11, <1>12, <1>13, <1>14, <1>15, <1>16 DEF Next, Forward, Backward

\* Unless another program writes, every step of a call keeps to its order.
LEMMA ProgressStep ==
    ASSUME TypeOK, TypeOK', Folders, Progress, [Forward \/ Backward \/ Crash]_vars
    PROVE  Progress'
  <1> USE DEF TypeOK, Folders, Progress, Preparing, Copying, Restoring, Saved,
              ToReplace, Running, Row, Second, files, call
  <1>1. CASE Scan
    <2>1. /\ UNCHANGED <<dest, backup, backedUp, committed, errors, second,
                          miscopied, before>>
          /\ pc = "scan" /\ dest = before /\ committed = {} /\ backedUp = {}
      BY <1>1 DEF Scan
    <2>2. changed' = {r \in ToReplace : r < row + 1}
      BY <1>1 DEF Scan
    <2>3. \/ row < N /\ row' = row + 1 /\ pc' = "scan"
          \/ row = N /\ row' = 1 /\ pc' = "mkdir"
      BY <1>1 DEF Scan, Advance
    <2> QED
      BY <2>1, <2>2, <2>3
  <1>2. CASE MakeFolder
    <2>1. /\ UNCHANGED <<dest, changed, backup, backedUp, committed, errors,
                          second, miscopied, before>>
          /\ pc = "mkdir" /\ dest = before /\ committed = {} /\ backedUp = {}
          /\ changed = ToReplace /\ row' = 1
      BY <1>2 DEF MakeFolder
    <2>2. \/ pc' = "backup"
          \/ pc' = "copy" /\ \A r \in ToReplace : before[r] = "none"
      BY <1>2, <2>1 DEF MakeFolder, Replaced, Present
    <2> QED
      BY <2>1, <2>2
  <1>3. CASE BackUp
    <2>1. /\ UNCHANGED <<dest, changed, committed, errors, second, miscopied,
                          before>>
          /\ pc = "backup" /\ dest = before /\ committed = {} /\ changed = ToReplace
          /\ second \in Second
      BY <1>3 DEF BackUp
    <2>2. /\ \A r \in backedUp' : before[r] # "none" /\ backup'[second][r] = before[r]
          /\ \A r \in ToReplace :
                r < row + 1 /\ before[r] # "none" => r \in backedUp'
      <3>1. CASE row \in changed /\ Present(row)
        <4>1. /\ backup' = [backup EXCEPT ![second][row] = dest[row]]
              /\ backedUp' = backedUp \cup {row} /\ before[row] # "none"
          BY <1>3, <2>1, <3>1 DEF BackUp, Present
        <4>2. /\ backup'[second][row] = before[row]
              /\ \A r \in Row : r # row => backup'[second][r] = backup[second][r]
          BY <2>1, <4>1, BackupWrite
        <4> QED
          BY <2>1, <4>1, <4>2
      <3>2. CASE ~(row \in changed /\ Present(row))
        <4>1. UNCHANGED <<backup, backedUp>>
          BY <1>3, <3>2 DEF BackUp
        <4>2. row \in ToReplace => before[row] = "none"
          BY <2>1, <3>2 DEF Present
        <4> QED
          BY <2>1, <4>1, <4>2
      <3> QED
        BY <3>1, <3>2
    <2>3. \/ row < N /\ row' = row + 1 /\ pc' = "backup"
          \/ row = N /\ row' = 1 /\ pc' = "copy"
      BY <1>3 DEF BackUp, Advance
    <2> QED
      BY <2>1, <2>2, <2>3
  <1>4. CASE PrepareFails
    BY <1>4 DEF PrepareFails, Refuse
  <1>5. CASE SkipSame
    BY <1>5 DEF SkipSame, Advance
  <1>6. CASE CopyFile
    BY <1>6 DEF CopyFile, Copied
  <1>7. CASE CopyFails
    <2>1. /\ UNCHANGED <<changed, backup, backedUp, errors, second, miscopied,
                          before>>
          /\ pc = "copy" /\ pc' = "undo" /\ row' = N /\ changed = ToReplace
          /\ row \in ToReplace
      BY <1>7 DEF CopyFails
    <2>2. /\ committed' \subseteq ToReplace
          /\ \A r \in Row \ committed' : dest'[r] = before[r]
      <3>1. CASE UNCHANGED <<committed, dest>>
        BY <2>1, <3>1
      <3>2. CASE committed' = committed \cup {row} /\
                    \E c \in {dest[row], "junk"} : dest' = [dest EXCEPT ![row] = c]
        BY <2>1, <3>2
      <3> QED
        BY <1>7, <3>1, <3>2 DEF CopyFails
    <2> QED
      BY <2>1, <2>2
  <1>8. CASE VerifyFile
    BY <1>8 DEF VerifyFile
  <1>9. CASE VerifyFails
    BY <1>9 DEF VerifyFails
  <1>10. CASE SkipUndo
    BY <1>10 DEF SkipUndo, UndoNext, EndUndo
  <1>11. CASE UndoFile
    <2>1. /\ UNCHANGED <<changed, backup, backedUp, committed, errors, second,
                          before>>
          /\ pc = "undo" /\ row \in committed /\ row \in ToReplace
      BY <1>11 DEF UndoFile
    <2>2. /\ dest'[row] = before[row] \/ miscopied'
          /\ \A r \in Row : r # row => dest'[r] = dest[r]
          /\ miscopied => miscopied'
      <3>1. CASE row \in backedUp
        <4>1. PICK c \in {backup[second][row], "junk"} :
                 /\ dest' = [dest EXCEPT ![row] = c]
                 /\ miscopied' = (miscopied \/ c = "junk")
          BY <1>11, <3>1 DEF UndoFile, Copied
        <4>2. /\ dest'[row] = c
              /\ \A r \in Row : r # row => dest'[r] = dest[r]
          BY <4>1
        <4>3. backup[second][row] = before[row]
          BY <2>1, <3>1
        <4>4. /\ miscopied => miscopied'
              /\ c = "junk" => miscopied'
          BY <4>1, Zenon
        <4> QED
          BY <4>1, <4>2, <4>3, <4>4
      <3>2. CASE row \notin backedUp
        <4>1. before[row] = "none"
          BY <2>1, <3>2
        <4> QED
          BY <1>11, <3>2, <4>1 DEF UndoFile
      <3> QED
        BY <3>1, <3>2
    <2>3. \A r \in Row : r >= row => dest'[r] = before[r] \/ errors \/ miscopied'
      BY <2>1, <2>2
    <2>4. \A r \in Row \ committed : dest'[r] = before[r]
      BY <2>1, <2>2
    <2>5. \A r \in Row : dest'[r] # before[r] /\ before[r] # "none" =>
             backup[second][r] = before[r]
      BY <2>1, <2>4
    <2>6. CASE row > 1 /\ row' = row - 1 /\ pc' = "undo"
      BY <2>1, <2>3, <2>4, <2>5, <2>6
    <2>7. CASE row = 1 /\ row' = 1 /\ ~errors /\ pc' = "restored"
      <3>1. dest' = before \/ miscopied'
        BY <2>3, <2>7
      <3> QED
        BY <2>1, <2>5, <2>7, <3>1
    <2>8. CASE row = 1 /\ row' = 1 /\ pc' = "notrestored"
      BY <2>1, <2>5, <2>8
    <2>9. IF row > 1 THEN row' = row - 1 /\ pc' = pc
                     ELSE row' = 1 /\ pc' = EndUndo(errors)
      BY <1>11 DEF UndoFile, UndoNext
    <2>10. row > 1 \/ row = 1
      OBVIOUS
    <2>11. errors => EndUndo(errors) = "notrestored"
      BY DEF EndUndo
    <2>12. ~errors => EndUndo(errors) = "restored"
      BY DEF EndUndo
    <2> QED
      BY <2>1, <2>6, <2>7, <2>8, <2>9, <2>10, <2>11, <2>12
  <1>12. CASE UndoFails
    <2>1. /\ UNCHANGED <<changed, backup, backedUp, committed, second, miscopied,
                          before>>
          /\ pc = "undo" /\ row \in committed /\ errors' = TRUE
      BY <1>12 DEF UndoFails
    <2>2. \A r \in Row : r # row => dest'[r] = dest[r]
      BY <1>12 DEF UndoFails
    <2>3. \A r \in Row \ committed : dest'[r] = before[r]
      BY <2>1, <2>2
    <2>4. \A r \in Row : dest'[r] # before[r] /\ before[r] # "none" =>
             backup[second][r] = before[r]
      BY <2>1, <2>3
    <2>5. pc' \in {"undo", "notrestored"}
      BY <1>12, <2>1 DEF UndoFails, UndoNext, EndUndo
    <2> QED
      BY <2>1, <2>3, <2>4, <2>5
  <1>13. CASE Crash
    <2>1. UNCHANGED <<before, second>> /\ pc' = "idle" /\ pc \in Running
      BY <1>13 DEF Crash
    <2>2. \A r \in Row : dest'[r] # dest[r] =>
             pc \in {"copy", "undo"} /\ r \in ToReplace
      BY <1>13 DEF Crash
    <2>3. backup' = backup \/ pc = "backup"
      BY <1>13 DEF Crash
    <2>4. Saved'
      <3>1. CASE pc = "backup"
        BY <2>1, <2>2, <3>1
      <3>2. CASE pc # "backup"
        BY <2>1, <2>2, <2>3, <3>2
      <3> QED
        BY <3>1, <3>2
    <2> QED
      BY <2>1, <2>4
  <1>14. CASE UNCHANGED vars
    BY <1>14 DEF vars
  <1> QED
    BY <1>1, <1>2, <1>3, <1>4, <1>5, <1>6, <1>7, <1>8, <1>9, <1>10, <1>11, <1>12, <1>13, <1>14 DEF Forward, Backward

\* A call begins from whatever it finds.
LEMMA CallBegins == TypeOK /\ Call => Progress'
  BY DEF TypeOK, Call, Progress, Preparing, Copying, Restoring, Saved, ToReplace,
         Running, Row, files

\* Every step keeps the invariant.
LEMMA IInvStep == IInv /\ [Next]_vars => IInv'
  <1> SUFFICES ASSUME IInv, [Next]_vars
               PROVE  IInv'
    OBVIOUS
  <1>1. TypeOK'
    BY TypeStep DEF IInv
  <1>2. Folders'
    BY <1>1, FoldersStep DEF IInv
  <1>3. CASE Call
    BY <1>1, <1>2, <1>3, CallBegins DEF IInv
  <1>4. CASE ForeignWrite
    <2>1. writes'.call # 0
      BY <1>4 DEF ForeignWrite, IInv, TypeOK
    <2> QED
      BY <1>1, <1>2, <2>1 DEF IInv
  <1>5. CASE [Forward \/ Backward \/ Crash]_vars
    <2>1. writes' = writes
      BY <1>5 DEF Forward, Backward, Scan, MakeFolder, BackUp, PrepareFails,
         SkipSame, CopyFile, CopyFails, VerifyFile, VerifyFails, SkipUndo,
         UndoFile, UndoFails, Crash, vars, call
    <2> QED
      BY <1>1, <1>2, <1>5, <2>1, ProgressStep DEF IInv
  <1> QED
    BY <1>3, <1>4, <1>5 DEF Next

\* The invariant holds in every state of every sequence of installations.
THEOREM Invariance == Spec => []IInv
  BY InitEstablishes, IInvStep, PTL DEF Spec

(* Types of the confirmed installation (install_candidate of installer.rs). *)
THEOREM TypeCorrect == Spec => []TypeOK
  <1>1. IInv => TypeOK
    BY DEF IInv
  <1> QED
    BY Invariance, <1>1, PTL

(***************************************************************************)
(* An installation that fails before its first copy, or reports a rollback *)
(* without errors, leaves every file as the call found it, unless a copy   *)
(* back was wrong, which rollback does not check.                          *)
(***************************************************************************)
THEOREM RollbackRestores == Spec => []FailureRestores
  <1>1. IInv => FailureRestores
    BY DEF IInv, Progress, Preparing, Restoring, FailureRestores
  <1> QED
    BY Invariance, <1>1, PTL

(***************************************************************************)
(* At every instant, after a kill too, the bytes of every file the call    *)
(* has replaced are in its backup folder.                                  *)
(***************************************************************************)
THEOREM BackedUp == Spec => []BackupsComplete
  <1>1. IInv => BackupsComplete
    BY DEF IInv, Progress, Saved, BackupsComplete
  <1> QED
    BY Invariance, <1>1, PTL

(***************************************************************************)
(* No later call, not even one in the same second, overwrites a backup.    *)
(***************************************************************************)
THEOREM BackupsStay == Spec => BackupsKept
  <1>1. IInv /\ [Next]_vars => [KeepsBackups]_vars
    <2> SUFFICES ASSUME IInv, [Next]_vars, NEW s \in Second, NEW r \in Row,
                        s \in made, backup[s][r] = "old"
                 PROVE  backup'[s][r] = "old"
      BY DEF KeepsBackups
    <2>1. TypeOK /\ Folders
      BY DEF IInv
    <2>2. BackUp \/ PrepareFails \/ Crash \/ UNCHANGED backup
      BY DEF Next, Forward, Backward, Call, Scan, MakeFolder, SkipSame, CopyFile,
         CopyFails, VerifyFile, VerifyFails, SkipUndo, UndoFile, UndoFails,
         ForeignWrite, vars, files
    <2>3. \/ UNCHANGED backup
          \/ backup[second][row] = "none" /\ (s # second \/ r # row => backup'[s][r] = backup[s][r])
      BY <2>1, <2>2, BackupSteps
    <2> QED
      BY <2>3
  <1> QED
    BY Invariance, <1>1, PTL DEF Spec, BackupsKept

-----------------------------------------------------------------------------
(* Refinement of SafeReplace. *)

\* Broken copies stay in the backup folder: no file of the game is one, and no
\* backup a running call has verified.
NeverTorn ==
    /\ \A r \in Row : dest[r] # "torn" /\ before[r] # "torn"
    /\ pc \in Running => \A r \in backedUp : backup[second][r] # "torn"

\* In a call nobody interferes with, the rows before the copy loop's are the
\* candidate's.
InstalledSoFar ==
    writes.call = 0 =>
        /\ pc \in {"copy", "verify"} => \A r \in Row : r < row => dest[r] = "new"
        /\ pc = "installed" => \A r \in Row : dest[r] = "new"

\* Only verified backups are copied back.
LEMMA NeverTornStep == IInv /\ NeverTorn /\ [Next]_vars => NeverTorn'
  <1> SUFFICES ASSUME IInv, NeverTorn, [Next]_vars
               PROVE  NeverTorn'
    OBVIOUS
  <1>t. TypeOK /\ (pc \in Running => second \in Second)
    BY DEF IInv, Folders
  <1>1. CASE Call
    BY <1>1 DEF Call, NeverTorn, files
  <1>2. CASE BackUp
    <2>1. UNCHANGED <<dest, before, second>> /\ pc \in Running /\ second \in Second
      BY <1>t, <1>2 DEF BackUp, call, Running
    <2>2. CASE row \in changed /\ Present(row)
      <3>1. /\ backup' = [backup EXCEPT ![second][row] = dest[row]]
            /\ backedUp' = backedUp \cup {row}
        BY <1>2, <2>2 DEF BackUp
      <3>2. /\ backup'[second][row] = dest[row]
            /\ \A r \in Row : r # row => backup'[second][r] = backup[second][r]
        BY <1>t, <2>1, <3>1, BackupWrite DEF TypeOK
      <3> QED
        BY <1>t, <2>1, <3>1, <3>2 DEF NeverTorn, TypeOK
    <2>3. CASE ~(row \in changed /\ Present(row))
      BY <1>2, <2>1, <2>3 DEF BackUp, NeverTorn
    <2> QED
      BY <2>2, <2>3
  <1>3. CASE PrepareFails
    BY <1>3 DEF PrepareFails, Refuse, NeverTorn, Running, call
  <1>4. CASE CopyFile \/ CopyFails
    <2>1. /\ UNCHANGED <<before, backup, backedUp, second>> /\ pc \in Running
          /\ \A r \in Row : dest'[r] \in {dest[r], "new", "junk"}
      BY <1>t, <1>4 DEF CopyFile, CopyFails, Copied, Running, TypeOK, call
    <2> QED
      BY <2>1 DEF NeverTorn
  <1>5. CASE UndoFile
    <2>1. UNCHANGED <<before, backup, backedUp, second>> /\ pc \in Running
      BY <1>5 DEF UndoFile, Running
    <2>2. \A r \in Row : dest'[r] # "torn"
      BY <1>t, <1>5, <2>1 DEF UndoFile, Copied, NeverTorn, TypeOK
    <2> QED
      BY <2>1, <2>2 DEF NeverTorn
  <1>6. CASE UndoFails
    <2>1. /\ UNCHANGED <<before, backup, backedUp, second>> /\ pc \in Running
          /\ \A r \in Row : dest'[r] \in {dest[r], "junk"}
      BY <1>t, <1>6 DEF UndoFails, Running, TypeOK, call
    <2> QED
      BY <2>1 DEF NeverTorn
  <1>7. CASE Crash
    <2>1. /\ UNCHANGED before /\ pc' \notin Running
          /\ \A r \in Row : dest'[r] \in {dest[r], "junk"}
      BY <1>t, <1>7 DEF Crash, Running, TypeOK, call
    <2> QED
      BY <2>1 DEF NeverTorn
  <1>8. CASE ForeignWrite
    BY <1>t, <1>8 DEF ForeignWrite, NeverTorn, TypeOK
  <1>9. CASE Scan \/ MakeFolder \/ SkipSame \/ VerifyFile \/ VerifyFails \/ SkipUndo
    <2>1. UNCHANGED <<dest, before, backup, backedUp, second>> /\ pc \in Running
      BY <1>9 DEF Scan, MakeFolder, SkipSame, VerifyFile, VerifyFails, SkipUndo,
         Running, files, call
    <2> QED
      BY <2>1 DEF NeverTorn
  <1>10. CASE UNCHANGED vars
    BY <1>10 DEF vars, NeverTorn
  <1> QED
    BY <1>1, <1>2, <1>3, <1>4, <1>5, <1>6, <1>7, <1>8, <1>9, <1>10 DEF Next, Forward, Backward

\* The copy loop leaves a row only when its file is the candidate's.
LEMMA InstalledStep == IInv /\ InstalledSoFar /\ [Next]_vars => InstalledSoFar'
  <1> SUFFICES ASSUME IInv, InstalledSoFar, [Next]_vars, writes'.call = 0
               PROVE  /\ pc' \in {"copy", "verify"} => \A r \in Row : r < row' => dest'[r] = "new"
                      /\ pc' = "installed" => \A r \in Row : dest'[r] = "new"
    BY DEF InstalledSoFar
  <1>t. TypeOK
    BY DEF IInv
  <1>1. CASE ForeignWrite
    BY <1>t, <1>1 DEF ForeignWrite, TypeOK
  <1>2. CASE MakeFolder \/ BackUp
    <2>1. pc' = "backup" \/ (pc' = "copy" /\ row' = 1)
      BY <1>2 DEF MakeFolder, BackUp, Advance
    <2> QED
      BY <2>1 DEF Row
  <1>3. CASE SkipSame
    <2>1. /\ writes.call = 0 /\ pc = "copy" /\ UNCHANGED <<dest, before>> /\ row \notin changed
      BY <1>3 DEF SkipSame, call, files
    <2>2. row \notin committed /\ before[row] = "new"
      BY <1>t, <2>1 DEF IInv, Progress, Preparing, Copying, ToReplace, TypeOK
    <2>3. dest[row] = "new"
      BY <1>t, <2>1, <2>2 DEF IInv, Progress, Copying, TypeOK
    <2>4. \/ row < N /\ row' = row + 1
          \/ row = N /\ row' = 1 /\ pc' = "installed"
      BY <1>t, <1>3 DEF SkipSame, Advance, TypeOK, Row
    <2>5. pc' = "copy" => row' = row + 1
      BY <1>3, <2>1 DEF SkipSame, Advance
    <2>6. pc' = "installed" => row = N
      BY <1>3, <2>1, <1>t DEF SkipSame, Advance, TypeOK, Row
    <2>7. pc' # "verify"
      BY <1>3, <2>1 DEF SkipSame, Advance
    <2> QED
      BY <1>t, <2>1, <2>3, <2>5, <2>6, <2>7 DEF InstalledSoFar, TypeOK, Row
  <1>4. CASE CopyFile
    <2>1. /\ writes.call = 0 /\ pc = "copy" /\ pc' = "verify" /\ row' = row
          /\ \A r \in Row : r # row => dest'[r] = dest[r]
      BY <1>t, <1>4 DEF CopyFile, Copied, call, TypeOK
    <2> QED
      BY <1>t, <2>1 DEF InstalledSoFar, TypeOK, Row
  <1>5. CASE VerifyFile
    <2>1. /\ writes.call = 0 /\ pc = "verify" /\ dest[row] = "new" /\ dest' = dest
          /\ pc' = "copy" => row' = row + 1
          /\ pc' = "installed" => row = N
          /\ pc' # "verify"
      BY <1>t, <1>5 DEF VerifyFile, call, files, TypeOK, Row
    <2> QED
      BY <1>t, <2>1 DEF InstalledSoFar, TypeOK, Row
  <1>6. CASE \/ Call \/ Scan \/ PrepareFails \/ CopyFails \/ VerifyFails
             \/ SkipUndo \/ UndoFile \/ UndoFails \/ Crash
    <2>1. pc' \notin {"copy", "verify", "installed"}
      BY <1>6 DEF Call, Scan, Advance, PrepareFails, Refuse, CopyFails, VerifyFails,
         SkipUndo, UndoFile, UndoFails, UndoNext, EndUndo, Crash
    <2> QED
      BY <2>1
  <1>7. CASE UNCHANGED vars
    BY <1>7 DEF vars, InstalledSoFar
  <1> QED
    BY <1>1, <1>2, <1>3, <1>4, <1>5, <1>6, <1>7 DEF Next, Forward, Backward

\* Both hold in every state.
LEMMA KeepsBoth == Spec => [](NeverTorn /\ InstalledSoFar)
  <1>1. Init => NeverTorn /\ InstalledSoFar
    BY DEF Init, NeverTorn, InstalledSoFar, Running
  <1> QED
    BY Invariance, <1>1, NeverTornStep, InstalledStep, PTL DEF Spec

\* The first state is one of the promise.
LEMMA AbsInit == Init => Abs!Init
  <1> SUFFICES ASSUME Init
               PROVE  Abs!Init
    OBVIOUS
  <1>1. dest \in [Row -> Contents] /\ [r \in Row |-> "new"] \in [Row -> Contents]
    BY DEF Init, Contents
  <1>2. Phase = "idle"
    BY DEF Init, Phase, Running
  <1>3. KeptContents = [r \in Row |-> {}]
    <2>1. \A r \in Row : {backup[s][r] : s \in Second} \ {"none", "torn"} = {}
      BY DEF Init
    <2> QED
      BY <2>1 DEF KeptContents
  <1> QED
    BY <1>1, <1>2, <1>3 DEF Init, Abs!Init

\* A call begins a transaction.
LEMMA AbsCall == TypeOK /\ TypeOK' /\ Call => Abs!Begin
  <1> SUFFICES ASSUME TypeOK, TypeOK', Call
               PROVE  Abs!Begin
    OBVIOUS
  <1>1. Phase # "working"
    BY DEF Call, Phase, TypeOK, Running, Results
  <1>2. Phase' \in {"working", "undone"}
    BY DEF Call, Phase, Running, TypeOK
  <1>3. before' = dest /\ dest' = dest /\ KeptContents' = KeptContents
    BY DEF Call, files, KeptContents
  <1>4. [r \in Row |-> "new"] \in [Row -> Contents]
    BY DEF Contents
  <1> QED
    BY <1>1, <1>2, <1>3, <1>4 DEF Abs!Begin, Abs!Phases

\* The backups of a file only grow, and by what the file is.
LEMMA KeptGrows ==
    ASSUME TypeOK, Folders, Forward \/ Backward \/ Crash, NEW r \in Row
    PROVE  /\ KeptContents[r] \subseteq KeptContents'[r]
           /\ KeptContents'[r] \subseteq KeptContents[r] \cup {dest[r]}
  <1>1. CASE UNCHANGED backup
    BY <1>1 DEF KeptContents
  <1>2. CASE ~UNCHANGED backup
    <2>1. BackUp \/ PrepareFails \/ Crash
      BY <1>2 DEF Forward, Backward, Scan, MakeFolder, SkipSame, CopyFile, CopyFails,
         VerifyFile, VerifyFails, SkipUndo, UndoFile, UndoFails, files
    <2>2. /\ second \in Second /\ row \in Row
          /\ backup[second][row] = "none"
          /\ \A s \in Second, q \in Row :
                s # second \/ q # row => backup'[s][q] = backup[s][q]
      BY <1>2, <2>1, BackupSteps
    <2>3. backup'[second][row] \in {"none", "torn", dest[row]}
      <3>1. PICK c \in {"none", "torn", dest[row]} :
               backup' = [backup EXCEPT ![second][row] = c]
        BY <1>2, <2>1, <2>2 DEF BackUp, PrepareFails, Crash
      <3>2. c \in Contents
        BY <2>2 DEF TypeOK, Contents
      <3> QED
        BY <2>2, <3>1, <3>2, BackupWrite
    <2>4. \A s \in Second : backup'[s][r] # backup[s][r] =>
             /\ backup[s][r] = "none"
             /\ backup'[s][r] \in {"none", "torn", dest[r]}
      BY <2>2, <2>3
    <2>5. /\ KeptContents[r] = {backup[s][r] : s \in Second} \ {"none", "torn"}
          /\ KeptContents'[r] = {backup'[s][r] : s \in Second} \ {"none", "torn"}
      BY DEF KeptContents
    <2> QED
      BY <2>4, <2>5
  <1> QED
    BY <1>1, <1>2

\* A step of a call nobody interferes with changes at most the row it is at,
\* one that is to change, and only once all such rows are backed up.
LEMMA OneRow ==
    ASSUME IInv, NeverTorn, writes.call = 0, Forward \/ Backward \/ Crash
    PROVE  /\ \A r \in Row \ {row} : dest'[r] = dest[r]
           /\ dest'[row] # dest[row] =>
                 /\ before[row] # "new"
                 /\ \A r \in Row : before[r] \in KeptContents[r] \cup {"none", "new"}
  <1>t. TypeOK /\ Folders /\ Preparing /\ Copying
    BY DEF IInv, Progress
  <1>1. \A r \in Row \ {row} : dest'[r] = dest[r]
    BY <1>t DEF Forward, Backward, Scan, MakeFolder, BackUp, PrepareFails, SkipSame,
       CopyFile, CopyFails, VerifyFile, VerifyFails, SkipUndo, UndoFile, UndoFails,
       Crash, files, TypeOK
  <1>2. ASSUME dest' # dest
        PROVE  \/ pc = "copy" /\ row \in changed
               \/ pc = "undo" /\ row \in committed
    BY <1>2 DEF Forward, Backward, Scan, MakeFolder, BackUp, PrepareFails, SkipSame,
       CopyFile, CopyFails, VerifyFile, VerifyFails, SkipUndo, UndoFile, UndoFails,
       Crash, files
  <1>3. ASSUME pc \in {"copy", "undo"}, row \in changed \/ row \in committed
        PROVE  /\ before[row] # "new"
               /\ \A r \in Row : before[r] \in KeptContents[r] \cup {"none", "new"}
    <2>1. row \in ToReplace /\ second \in Second
      BY <1>t, <1>3 DEF Preparing, Copying, Folders, Running
    <2>2. ASSUME NEW r \in Row, before[r] \notin {"none", "new"}
          PROVE  before[r] \in KeptContents[r]
      <3>1. r \in backedUp /\ backup[second][r] = before[r]
        BY <1>t, <1>3, <2>2 DEF Preparing, ToReplace
      <3>2. before[r] # "torn"
        BY DEF NeverTorn
      <3> QED
        BY <2>1, <2>2, <3>1, <3>2 DEF KeptContents
    <2> QED
      BY <2>1, <2>2 DEF ToReplace
  <1> QED
    BY <1>1, <1>2, <1>3

\* Every step is a step of the promise or a stutter.
LEMMA AbsStep ==
    IInv /\ IInv' /\ NeverTorn /\ InstalledSoFar' /\ [Next]_vars => [Abs!Next]_(Abs!vars)
  <1> SUFFICES ASSUME IInv, IInv', NeverTorn, InstalledSoFar', [Next]_vars
               PROVE  [Abs!Next]_(Abs!vars)
    OBVIOUS
  <1>t. /\ TypeOK /\ TypeOK' /\ Folders
        /\ writes.call \in Nat /\ writes'.call \in Nat
    BY DEF IInv, TypeOK
  <1>1. CASE UNCHANGED vars
    BY <1>1 DEF vars, Abs!vars, KeptContents, Phase
  <1>2. CASE Call
    BY <1>2, <1>t, AbsCall DEF Abs!Next
  <1>3. ASSUME ForeignWrite \/ Forward \/ Backward \/ Crash
        PROVE  pc \in Running /\ UNCHANGED <<before, calls>>
    BY <1>3 DEF ForeignWrite, Forward, Backward, Scan, MakeFolder, BackUp, PrepareFails,
       SkipSame, CopyFile, CopyFails, VerifyFile, VerifyFails, SkipUndo, UndoFile,
       UndoFails, Crash, Running, call
  <1>4. ASSUME Forward \/ Backward \/ Crash
        PROVE  writes' = writes /\ (miscopied => miscopied')
    <2>1. CASE UndoFile
      <3>1. CASE row \in backedUp
        <4>1. PICK c \in Copied(backup[second][row]) : miscopied' = (miscopied \/ c = "junk")
          BY <2>1, <3>1 DEF UndoFile
        <4>2. miscopied => miscopied'
          BY <4>1, Zenon
        <4> QED
          BY <2>1, <4>2 DEF UndoFile
      <3> QED
        BY <2>1, <3>1 DEF UndoFile
    <2>2. CASE ~UndoFile
      <3>1. writes' = writes /\ miscopied' = miscopied
        BY <1>4, <2>2 DEF Forward, Backward, Scan, MakeFolder, BackUp, PrepareFails,
           SkipSame, CopyFile, CopyFails, VerifyFile, VerifyFails, SkipUndo, UndoFails,
           Crash, call
      <3> QED
        BY <3>1
    <2> QED
      BY <2>1, <2>2
  <1>5. CASE ForeignWrite \/ ((Forward \/ Backward \/ Crash) /\ (writes.call > 0 \/ miscopied'))
    <2>1. Phase \in {"working", "lost"} /\ before' = before
      BY <1>3, <1>5 DEF Phase, Running
    <2>2. writes'.call > 0 \/ miscopied'
      <3>1. CASE ForeignWrite
        BY <1>t, <3>1 DEF ForeignWrite
      <3>2. CASE ~ForeignWrite
        BY <1>4, <1>5, <3>2
      <3> QED
        BY <3>1, <3>2
    <2>3. Phase' = "lost"
      BY <2>2 DEF Phase
    <2> QED
      BY <1>t, <2>1, <2>3 DEF Abs!Next, Abs!Interfere, TypeOK
  <1>6. CASE (Forward \/ Backward \/ Crash) /\ writes.call = 0 /\ ~miscopied'
    <2>1. /\ pc \in Running /\ UNCHANGED <<before, calls>>
          /\ writes'.call = 0 /\ ~miscopied
      BY <1>3, <1>4, <1>6
    <2>2. Phase = "working"
      BY <1>6, <2>1 DEF Phase, Running
    <2>3. calls > 0 /\ calls \in Nat
      BY <1>t, <2>1 DEF Folders, TypeOK, Second
    <2>4. Phase' \in {"working", "done", "undone", "stuck"}
      BY <1>6, <1>t, <2>1, <2>3 DEF Phase, TypeOK, Running, Results
    <2>5. row \in Row /\ \A s \in Row \ {row} : dest'[s] = dest[s]
      BY <1>t, <1>6, OneRow DEF TypeOK
    <2>6. \A r \in Row : dest'[r] # dest[r] =>
             Abs!AllKept /\ before[r] # [q \in Row |-> "new"][r]
      BY <1>6, OneRow DEF Abs!AllKept
    <2>7. \A r \in Row : /\ KeptContents[r] \subseteq KeptContents'[r]
                         /\ KeptContents'[r] \subseteq KeptContents[r] \cup {dest[r]}
      BY <1>t, <1>6, KeptGrows
    <2>8. Phase' = "done" => dest' = [r \in Row |-> "new"]
      <3>1. Phase' = "done" => pc' = "installed"
        BY <1>t DEF Phase, TypeOK, Running, Results
      <3>2. pc' = "installed" => \A r \in Row : dest'[r] = "new"
        BY <2>1 DEF InstalledSoFar
      <3> QED
        BY <1>t, <3>1, <3>2 DEF TypeOK
    <2>9. Phase' = "undone" => dest' = before
      <3>1. Phase' = "undone" => pc' \in {"refused", "restored"}
        BY <1>t DEF Phase, TypeOK, Running, Results
      <3>2. (Preparing /\ Restoring)'
        BY <2>1 DEF IInv, Progress
      <3> QED
        BY <1>6, <2>1, <3>1, <3>2 DEF Preparing, Restoring
    <2> QED
      BY <2>1, <2>2, <2>4, <2>5, <2>6, <2>7, <2>8, <2>9 DEF Abs!Next, Abs!Work
  <1>7. writes.call > 0 \/ writes.call = 0
    BY <1>t
  <1> QED
    BY <1>1, <1>2, <1>5, <1>6, <1>7 DEF Next

(***************************************************************************)
(* install_candidate and its rollback implement SafeReplace, for every     *)
(* candidate and through every sequence of calls, failures and kills.      *)
(***************************************************************************)
THEOREM Refines == Spec => ImplementsSafeReplace
  BY AbsInit, AbsStep, Invariance, KeepsBoth, PTL
     DEF Spec, ImplementsSafeReplace, Abs!Spec
=============================================================================
