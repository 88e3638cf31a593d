------------------------- MODULE ContainerSwapProofs -----------------------
(***************************************************************************)
(* Safety of the container swap for every number of files and every number *)
(* of writes by other programs.  The properties about the originals are    *)
(* claimed as long as nobody else has written a target (writes = 0), so    *)
(* the inductive invariant is a part that always holds and a part, Layout, *)
(* that holds until the first such write.                                  *)
(***************************************************************************)
EXTENDS ContainerSwap, TLAPS

Untouched == {"backup", "check", "prepare", "cleanup", "unchanged"}

\* From the side-file check on, both side names belong to this transaction;
\* a side file of others never becomes a target.
SideFilesOurs ==
    /\ \A r \in Row : target[r] # "alien"
    /\ pc \notin {"backup", "check", "unchanged"} =>
          \A r \in Row : prepared[r] # "alien" /\ rollback[r] # "alien"

\* Where the original and the candidate of a row are while files move.
InPlace(r) == target[r] = "old" /\ rollback[r] = "none"
Aside(r)   == target[r] = "none" /\ rollback[r] = "old"
Replaced(r) == target[r] = "new" /\ rollback[r] = "old"

Kept ==
    pc \in Untouched => \A r \in Row : target[r] = "old" /\ rollback[r] # "old"

Saved ==
    /\ pc = "backup" => \A r \in Row : r < row => backup[r] = "old"
    /\ pc \notin {"backup", "unchanged"} => \A r \in Row : backup[r] = "old"

Copied ==
    /\ pc = "prepare" => \A r \in Row : r < row => prepared[r] = "new"
    /\ pc = "aside" => \A r \in Row : prepared[r] = "new"
    /\ pc = "place" => \A r \in Row : r >= row => prepared[r] = "new"
    /\ pc \in {"prepare", "cleanup"} => \A r \in Row : rollback[r] = "none"

Moved ==
    /\ pc = "aside" =>
          \A r \in Row : IF r < row THEN Aside(r) ELSE InPlace(r)
    /\ pc = "place" =>
          \A r \in Row : IF r < row THEN Replaced(r) ELSE Aside(r)
    /\ pc = "verify" => \A r \in Row : Replaced(r)
    /\ pc \in {"drop", "installed"} =>
          \A r \in Row : target[r] = "new" /\ rollback[r] \in {"old", "none"}

Returning ==
    /\ pc \in Restoring \cup {"unrestored"} =>
          \A r \in Row : InPlace(r) \/ Aside(r) \/ Replaced(r)
    /\ pc \in Restoring =>
          \A r \in Row : r < row => InPlace(r) \/ broken
    /\ pc = "rename" => Aside(row)
    /\ pc = "tidy" => InPlace(row) \/ broken
    /\ pc = "restored" => \A r \in Row : InPlace(r)

Layout == Kept /\ Saved /\ Copied /\ Moved /\ Returning

\* The inductive invariant.
IInv == TypeOK /\ SideFilesOurs /\ (writes = 0 => Layout)

-----------------------------------------------------------------------------
USE NAssumption, MaxForeignAssumption

\* A loop's next row is a row, whichever way the loop goes on.
LEMMA AdvanceStaysInRow ==
    ASSUME NEW loop, NEW next, row \in Row, Advance(loop, next)
    PROVE  /\ row' \in Row
           /\ \/ row < N /\ row' = row + 1 /\ pc' = loop
              \/ row = N /\ row' = 1 /\ pc' = next
  BY DEF Row, Advance

\* The invariant holds before the first backup.
LEMMA InitEstablishes == Init => IInv
  <1>1. 1 \in Row
    BY DEF Row
  <1>2. ASSUME Init PROVE TypeOK
    <2>1. target \in [Row -> Contents] /\ backup \in [Row -> Contents]
      BY <1>2 DEF Init, Contents
    <2>2. prepared \in [Row -> Contents] /\ rollback \in [Row -> Contents]
      BY <1>2 DEF Init, Contents
    <2>3. writes \in 0 .. MaxForeign
      BY <1>2 DEF Init
    <2> QED
      BY <1>1, <1>2, <2>1, <2>2, <2>3 DEF Init, TypeOK, Running
  <1>3. Init => SideFilesOurs /\ Layout
    BY DEF Init, SideFilesOurs, Contents, Layout, Kept, Saved, Copied, Moved, Returning,
           Untouched, Restoring, Row
  <1> QED
    BY <1>2, <1>3 DEF IInv

\* Types: every step keeps every variable in its set.
LEMMA TypeStep == TypeOK /\ [Next]_vars => TypeOK'
  <1> SUFFICES ASSUME TypeOK, [Next]_vars
               PROVE  TypeOK'
    OBVIOUS
  <1> USE DEF TypeOK, At, Running, Final, Contents
  <1>0. 1 \in Row
    BY DEF Row
  <1>1. CASE BackUp
    BY <1>0, <1>1, AdvanceStaysInRow DEF BackUp
  <1>2. CASE BackUpFails
    BY <1>0, <1>2 DEF BackUpFails, FailedCopy, Jump
  <1>3. CASE CheckSideFiles
    BY <1>0, <1>3 DEF CheckSideFiles, Jump
  <1>4. CASE Prepare
    BY <1>0, <1>4, AdvanceStaysInRow DEF Prepare
  <1>5. CASE PrepareFails
    BY <1>0, <1>5 DEF PrepareFails, FailedCopy, Jump
  <1>6. CASE CleanUp
    BY <1>0, <1>6, AdvanceStaysInRow DEF CleanUp
  <1>7. CASE MoveAside
    BY <1>0, <1>7, AdvanceStaysInRow DEF MoveAside
  <1>8. CASE PutInPlace
    BY <1>0, <1>8, AdvanceStaysInRow DEF PutInPlace
  <1>9. CASE VerifyInstalled
    BY <1>0, <1>9, AdvanceStaysInRow DEF VerifyInstalled
  <1>10. CASE SwapFails
    BY <1>0, <1>10 DEF SwapFails, Jump
  <1>11. CASE DropRollback
    BY <1>0, <1>11, AdvanceStaysInRow DEF DropRollback
  <1>12. CASE SkipRemoval
    BY <1>0, <1>12 DEF SkipRemoval
  <1>13. CASE RemoveReplacement
    BY <1>0, <1>13 DEF RemoveReplacement
  <1>14. CASE RemovalFails
    BY <1>0, <1>14, AdvanceStaysInRow DEF RemovalFails, AfterRestore
  <1>15. CASE RenameBack
    BY <1>0, <1>15 DEF RenameBack
  <1>16. CASE RenameBackFails
    BY <1>0, <1>16 DEF RenameBackFails
  <1>17. CASE TidyPrepared
    BY <1>0, <1>17, AdvanceStaysInRow DEF TidyPrepared, AfterRestore
  <1>18. CASE Crash
    BY <1>18 DEF Crash
  <1>19. CASE ForeignWrite
    BY <1>19 DEF ForeignWrite
  <1>20. CASE UNCHANGED vars
    BY <1>20 DEF vars
  <1> QED
    BY <1>1, <1>2, <1>3, <1>4, <1>5, <1>6, <1>7, <1>8, <1>9, <1>10, <1>11, <1>12, <1>13, <1>14, <1>15, <1>16, <1>17, <1>18, <1>19, <1>20 DEF Next, Install, Restore

\* No step brings a side file of others under a name of this transaction.
LEMMA SideFilesStep == TypeOK /\ SideFilesOurs /\ [Next]_vars => SideFilesOurs'
  <1> SUFFICES ASSUME TypeOK, SideFilesOurs, [Next]_vars
               PROVE  SideFilesOurs'
    OBVIOUS
  <1> USE DEF TypeOK, At, SideFilesOurs, Running, Contents
  <1>1. CASE BackUp
    BY <1>1, AdvanceStaysInRow DEF BackUp
  <1>2. CASE BackUpFails
    BY <1>2 DEF BackUpFails, FailedCopy, Jump
  <1>3. CASE CheckSideFiles
    BY <1>3 DEF CheckSideFiles, Jump, NoSideFiles
  <1>4. CASE Prepare
    BY <1>4, AdvanceStaysInRow DEF Prepare
  <1>5. CASE PrepareFails
    BY <1>5 DEF PrepareFails, FailedCopy, Jump
  <1>6. CASE CleanUp
    BY <1>6, AdvanceStaysInRow DEF CleanUp
  <1>7. CASE MoveAside
    BY <1>7, AdvanceStaysInRow DEF MoveAside
  <1>8. CASE PutInPlace
    BY <1>8, AdvanceStaysInRow DEF PutInPlace
  <1>9. CASE VerifyInstalled
    BY <1>9, AdvanceStaysInRow DEF VerifyInstalled
  <1>10. CASE SwapFails
    BY <1>10 DEF SwapFails, Jump
  <1>11. CASE DropRollback
    BY <1>11, AdvanceStaysInRow DEF DropRollback
  <1>12. CASE SkipRemoval
    BY <1>12 DEF SkipRemoval
  <1>13. CASE RemoveReplacement
    BY <1>13 DEF RemoveReplacement
  <1>14. CASE RemovalFails
    BY <1>14, AdvanceStaysInRow DEF RemovalFails, AfterRestore
  <1>15. CASE RenameBack
    BY <1>15 DEF RenameBack
  <1>16. CASE RenameBackFails
    BY <1>16 DEF RenameBackFails
  <1>17. CASE TidyPrepared
    BY <1>17, AdvanceStaysInRow DEF TidyPrepared, AfterRestore
  <1>18. CASE Crash
    BY <1>18 DEF Crash
  <1>19. CASE ForeignWrite
    BY <1>19 DEF ForeignWrite
  <1>20. CASE UNCHANGED vars
    BY <1>20 DEF vars
  <1> QED
    BY <1>1, <1>2, <1>3, <1>4, <1>5, <1>6, <1>7, <1>8, <1>9, <1>10, <1>11, <1>12, <1>13, <1>14, <1>15, <1>16, <1>17, <1>18, <1>19, <1>20 DEF Next, Install, Restore

\* Until another program writes a target, every step keeps the layout.
LEMMA LayoutStep ==
    ASSUME TypeOK, SideFilesOurs, Layout, [Install \/ Restore \/ Crash]_vars
    PROVE  Layout'
  <1> USE DEF TypeOK, At, Running, Final, Restoring, Untouched, Row,
              InPlace, Aside, Replaced,
              SideFilesOurs, Layout, Kept, Saved, Copied, Moved, Returning
  <1>1. CASE BackUp
    BY <1>1, AdvanceStaysInRow DEF BackUp
  <1>2. CASE BackUpFails
    BY <1>2 DEF BackUpFails, FailedCopy, Jump
  <1>3. CASE CheckSideFiles
    BY <1>3 DEF CheckSideFiles, Jump, NoSideFiles
  <1>4. CASE Prepare
    BY <1>4, AdvanceStaysInRow DEF Prepare
  <1>5. CASE PrepareFails
    BY <1>5 DEF PrepareFails, FailedCopy, Jump
  <1>6. CASE CleanUp
    BY <1>6, AdvanceStaysInRow DEF CleanUp
  <1>7. CASE MoveAside
    BY <1>7, AdvanceStaysInRow DEF MoveAside
  <1>8. CASE PutInPlace
    BY <1>8, AdvanceStaysInRow DEF PutInPlace
  <1>9. CASE VerifyInstalled
    BY <1>9, AdvanceStaysInRow DEF VerifyInstalled
  <1>10. CASE SwapFails
    BY <1>10 DEF SwapFails, Jump
  <1>11. CASE DropRollback
    BY <1>11, AdvanceStaysInRow DEF DropRollback
  <1>12. CASE SkipRemoval
    BY <1>12 DEF SkipRemoval
  <1>13. CASE RemoveReplacement
    BY <1>13 DEF RemoveReplacement
  <1>14. CASE RemovalFails
    BY <1>14, AdvanceStaysInRow DEF RemovalFails, AfterRestore
  <1>15. CASE RenameBack
    BY <1>15 DEF RenameBack
  <1>16. CASE RenameBackFails
    BY <1>16 DEF RenameBackFails
  <1>17. CASE TidyPrepared
    BY <1>17, AdvanceStaysInRow DEF TidyPrepared, AfterRestore
  <1>18. CASE Crash
    <2>1. CASE pc = "backup"
      <3>1. UNCHANGED <<pc, row, target, prepared, rollback, broken, writes>>
        BY <1>18, <2>1 DEF Crash
      <3>2. \A r \in Row : r # row => backup'[r] = backup[r]
        BY <1>18, <2>1 DEF Crash
      <3> QED
        BY <2>1, <3>1, <3>2
    <2>2. CASE pc = "prepare"
      BY <1>18, <2>2 DEF Crash
    <2>3. CASE pc \notin {"backup", "prepare"}
      BY <1>18, <2>3 DEF Crash
    <2> QED
      BY <2>1, <2>2, <2>3
  <1>19. CASE UNCHANGED vars
    BY <1>19 DEF vars
  <1> QED
    BY <1>1, <1>2, <1>3, <1>4, <1>5, <1>6, <1>7, <1>8, <1>9, <1>10, <1>11, <1>12, <1>13, <1>14, <1>15, <1>16, <1>17, <1>18, <1>19 DEF Install, Restore

\* Every step keeps the invariant.
LEMMA IInvStep == IInv /\ [Next]_vars => IInv'
  <1> SUFFICES ASSUME IInv, [Next]_vars
               PROVE  IInv'
    OBVIOUS
  <1>1. TypeOK' /\ SideFilesOurs'
    BY TypeStep, SideFilesStep DEF IInv
  <1>2. CASE ForeignWrite
    <2>1. writes' # 0
      BY <1>2 DEF ForeignWrite, IInv, TypeOK
    <2> QED
      BY <1>1, <2>1 DEF IInv
  <1>3. CASE [Install \/ Restore \/ Crash]_vars
    <2>1. writes' = writes
      BY <1>3 DEF Install, Restore, vars, BackUp, BackUpFails,
         CheckSideFiles, Prepare, PrepareFails, CleanUp, MoveAside,
         PutInPlace, VerifyInstalled, SwapFails, DropRollback, SkipRemoval,
         RemoveReplacement, RemovalFails, RenameBack, RenameBackFails,
         TidyPrepared, Crash
    <2> QED
      BY <1>1, <1>3, <2>1, LayoutStep DEF IInv
  <1> QED
    BY <1>2, <1>3 DEF Next

(***************************************************************************)
(* The invariant holds in every state of install_candidate and             *)
(* restore_swap, for every number of files.                                *)
(***************************************************************************)
THEOREM Invariance == Spec => []IInv
  BY InitEstablishes, IInvStep, PTL DEF Spec

-----------------------------------------------------------------------------
(* Type correctness of the container swap (install_candidate, restore_swap). *)
THEOREM TypeCorrect == Spec => []TypeOK
  <1>1. IInv => TypeOK
    BY DEF IInv
  <1> QED
    BY Invariance, <1>1, PTL

(***************************************************************************)
(* install_candidate moves no installed file away before all of them are   *)
(* in the backup with the original bytes.                                  *)
(***************************************************************************)
THEOREM BackupFirst == Spec => []BackedUpBeforeSwap
  <1>1. IInv => BackedUpBeforeSwap
    BY DEF IInv, Layout, Kept, Saved, Untouched, BackedUpBeforeSwap
  <1> QED
    BY Invariance, <1>1, PTL

(***************************************************************************)
(* At every instant, after a kill too, every original is still in the mods *)
(* folder or the whole candidate is installed.                             *)
(***************************************************************************)
THEOREM AllOrNothing == Spec => []OriginalsOrWholeCandidate
  <1>1. IInv => OriginalsOrWholeCandidate
    BY DEF IInv, TypeOK, Running, Final, Restoring, Untouched, Layout, Kept,
           Moved, Returning, InPlace, Aside, Replaced, Original,
           OriginalsOrWholeCandidate
  <1> QED
    BY Invariance, <1>1, PTL

(***************************************************************************)
(* No mixture of original and candidate files outside restore_swap.        *)
(***************************************************************************)
THEOREM NeverMixed == Spec => []NoMixedContainer
  <1>1. IInv => NoMixedContainer
    BY DEF IInv, TypeOK, Running, Final, Restoring, Untouched, Layout, Kept,
           Moved, Returning, InPlace, Aside, Replaced, NoMixedContainer
  <1> QED
    BY Invariance, <1>1, PTL

(***************************************************************************)
(* The result install_candidate returns describes the files.               *)
(***************************************************************************)
THEOREM TrueResult == Spec => []ResultIsTrue
  <1>1. IInv => ResultIsTrue
    BY DEF IInv, Untouched, Layout, Kept, Moved, Returning, InPlace,
           ResultIsTrue
  <1> QED
    BY Invariance, <1>1, PTL

(***************************************************************************)
(* The transaction leaves side files it did not create alone: it gives up  *)
(* at the side-file check, before the first step that writes one.          *)
(***************************************************************************)
THEOREM OthersKept == Spec => SideFilesOfOthersKept
  <1>1. IInv /\ [Next]_vars => [KeepsOthers]_vars
    <2> SUFFICES ASSUME IInv, [Next]_vars, NEW r \in Row
                 PROVE  /\ prepared[r] = "alien" => prepared'[r] = "alien"
                        /\ rollback[r] = "alien" => rollback'[r] = "alien"
      BY DEF KeepsOthers
    <2>1. CASE pc \in {"backup", "check", "unchanged"}
      BY <2>1 DEF Next, Install, Restore, At,
             BackUp, BackUpFails, CheckSideFiles, Prepare, PrepareFails,
             CleanUp, MoveAside, PutInPlace, VerifyInstalled, SwapFails, DropRollback,
             SkipRemoval, RemoveReplacement, RemovalFails, RenameBack,
             RenameBackFails, TidyPrepared, Crash, ForeignWrite, vars
    <2>2. CASE pc \notin {"backup", "check", "unchanged"}
      BY <2>2 DEF IInv, SideFilesOurs
    <2> QED
      BY <2>1, <2>2
  <1> QED
    BY Invariance, <1>1, PTL DEF Spec, SideFilesOfOthersKept

(***************************************************************************)
(* When no other program writes installed files, a rollback file is given  *)
(* up only if its bytes are in the backup.                                 *)
(***************************************************************************)
THEOREM DeletedBackedUp ==
    ASSUME MaxForeign = 0
    PROVE  Spec => DeletedOnlyIfBackedUp
  <1>1. IInv /\ [Next]_vars => [DeletesBackedUp]_vars
    <2> SUFFICES ASSUME IInv, [Next]_vars, NEW r \in Row,
                        rollback[r] # "none", rollback'[r] = "none"
                 PROVE  target'[r] = rollback[r] \/ backup[r] = rollback[r]
      BY DEF DeletesBackedUp
    <2>1. Layout /\ TypeOK
      BY DEF IInv, TypeOK
    <2>2. DropRollback \/ RenameBack \/ MoveAside
      BY DEF Next, Install, Restore,
             BackUp, BackUpFails, CheckSideFiles, Prepare, PrepareFails,
             CleanUp, MoveAside, PutInPlace, VerifyInstalled, SwapFails, DropRollback,
             SkipRemoval, RemoveReplacement, RemovalFails, RenameBack,
             RenameBackFails, TidyPrepared, Crash, ForeignWrite, vars
    <2>3. CASE DropRollback
      BY <2>1, <2>3 DEF DropRollback, At, Layout, Saved, Moved
    <2>4. CASE RenameBack
      BY <2>1, <2>4 DEF RenameBack, TypeOK
    <2>5. CASE MoveAside
      BY <2>1, <2>5 DEF MoveAside, At, Layout, Moved, InPlace, TypeOK, Row
    <2> QED
      BY <2>2, <2>3, <2>4, <2>5
  <1> QED
    BY Invariance, <1>1, PTL DEF Spec, DeletedOnlyIfBackedUp

-----------------------------------------------------------------------------
(* Refinement of SafeReplace. *)

\* No backup is there before the loop has reached its row.
Fresh == pc = "backup" /\ alive => \A r \in Row : r >= row => backup[r] = "none"

\* Backups are made in the order of the rows.
LEMMA FreshInvariant == Spec => []Fresh
  <1>1. Init => Fresh
    BY DEF Init, Fresh
  <1>2. IInv /\ Fresh /\ [Next]_vars => Fresh'
    <2> SUFFICES ASSUME IInv, Fresh, [Next]_vars, pc' = "backup", alive'
                 PROVE  \A r \in Row : r >= row' => backup'[r] = "none"
      BY DEF Fresh
    <2>0. row \in Row /\ backup \in [Row -> Contents]
      BY DEF IInv, TypeOK
    <2>1. CASE BackUp
      BY <2>0, <2>1 DEF BackUp, Advance, At, Fresh, Row
    <2>2. CASE ~BackUp
      <3>1. UNCHANGED <<pc, row, backup>> /\ alive
        BY <2>2 DEF Next, Install, Restore, At, Advance, AfterRestore, Jump,
             BackUpFails, CheckSideFiles, Prepare, PrepareFails,
             CleanUp, MoveAside, PutInPlace, VerifyInstalled, SwapFails, DropRollback,
             SkipRemoval, RemoveReplacement, RemovalFails, RenameBack,
             RenameBackFails, TidyPrepared, Crash, ForeignWrite, vars
      <3> QED
        BY <3>1 DEF Fresh
    <2> QED
      BY <2>1, <2>2
  <1> QED
    BY Invariance, <1>1, <1>2, PTL DEF Spec

\* A step of the code changes at most the target of its row, and none before
\* all backups are made.
LEMMA OneTarget ==
    ASSUME IInv, writes = 0, Install \/ Restore \/ Crash
    PROVE  /\ \A r \in Row \ {row} : target'[r] = target[r]
           /\ target' # target => \A r \in Row : backup[r] = "old"
  <1> USE DEF IInv, TypeOK, Layout, Saved, At
  <1>1. CASE MoveAside
    BY <1>1 DEF MoveAside
  <1>2. CASE PutInPlace
    BY <1>2 DEF PutInPlace
  <1>3. CASE RemoveReplacement
    BY <1>3 DEF RemoveReplacement
  <1>4. CASE RenameBack
    BY <1>4 DEF RenameBack
  <1>5. CASE ~(MoveAside \/ PutInPlace \/ RemoveReplacement \/ RenameBack)
    <2>1. target' = target
      BY <1>5 DEF Install, Restore, BackUp, BackUpFails, CheckSideFiles, Prepare,
         PrepareFails, CleanUp, VerifyInstalled, SwapFails, DropRollback, SkipRemoval,
         RemovalFails, RenameBackFails, TidyPrepared, Crash
    <2> QED
      BY <2>1
  <1> QED
    BY <1>1, <1>2, <1>3, <1>4, <1>5

\* Backups are only added, each of the file then installed.
LEMMA BackupsAdded ==
    ASSUME IInv, Fresh, writes = 0, Install \/ Restore \/ Crash, NEW r \in Row
    PROVE  /\ backup[r] = "old" => backup'[r] = "old"
           /\ backup'[r] = "old" => backup[r] = "old" \/ target[r] = "old"
  <1>1. CASE pc # "backup"
    BY <1>1 DEF Install, Restore, At, BackUp, BackUpFails, CheckSideFiles, Prepare,
         PrepareFails, CleanUp, MoveAside, PutInPlace, VerifyInstalled, SwapFails,
         DropRollback, SkipRemoval, RemoveReplacement, RemovalFails, RenameBack,
         RenameBackFails, TidyPrepared, Crash
  <1>2. CASE pc = "backup"
    <2>1. target[r] = "old" /\ row \in Row /\ backup \in [Row -> Contents]
      BY <1>2 DEF IInv, TypeOK, Layout, Kept, Untouched
    <2>2. BackUp \/ BackUpFails \/ Crash
      BY <1>2 DEF Install, Restore, At, BackUp, BackUpFails, CheckSideFiles, Prepare,
         PrepareFails, CleanUp, MoveAside, PutInPlace, VerifyInstalled, SwapFails,
         DropRollback, SkipRemoval, RemoveReplacement, RemovalFails, RenameBack,
         RenameBackFails, TidyPrepared, Crash
    <2>3. alive /\ (r # row => backup'[r] = backup[r])
      BY <1>2, <2>1, <2>2 DEF BackUp, BackUpFails, Crash, At
    <2>4. backup[row] = "none"
      BY <1>2, <2>1, <2>3 DEF Fresh, Row
    <2> QED
      BY <2>1, <2>3, <2>4
  <1> QED
    BY <1>1, <1>2

\* The first state is one of the promise.
LEMMA AbsInit == Init => Abs!Init
  <1> SUFFICES ASSUME Init
               PROVE  Abs!Init
    OBVIOUS
  <1>1. target \in [Row -> Contents] /\ [r \in Row |-> "new"] \in [Row -> Contents]
    BY DEF Init, Contents
  <1>2. SavedOld = [r \in Row |-> {}]
    BY DEF Init, SavedOld
  <1>3. Phase = "working"
    BY DEF Init, Phase, Running
  <1> QED
    BY <1>1, <1>2, <1>3 DEF Init, Abs!Init

\* Every step is a step of the promise or a stutter.
LEMMA AbsStep ==
    IInv /\ IInv' /\ Fresh /\ [Next]_vars => [Abs!Next]_(Abs!vars)
  <1> SUFFICES ASSUME IInv, IInv', Fresh, [Next]_vars
               PROVE  [Abs!Next]_(Abs!vars)
    OBVIOUS
  <1>1. CASE UNCHANGED vars
    BY <1>1 DEF vars, Abs!vars, SavedOld, Phase
  <1>t. writes \in Nat /\ writes' \in Nat /\ target' \in [Row -> Contents]
    BY DEF IInv, TypeOK
  <1>2. CASE Next /\ (writes > 0 \/ ForeignWrite)
    <2>1. Phase \in {"working", "lost"}
      <3>1. CASE writes > 0
        BY <3>1 DEF Phase
      <3>2. CASE ~(writes > 0)
        BY <1>2, <3>2 DEF ForeignWrite, Phase, Running
      <3> QED
        BY <3>1, <3>2
    <2>2. writes' > 0
      <3>1. ~ForeignWrite => writes' = writes
        BY <1>2 DEF Next, Install, Restore, BackUp, BackUpFails, CheckSideFiles,
           Prepare, PrepareFails, CleanUp, MoveAside, PutInPlace, VerifyInstalled,
           SwapFails, DropRollback, SkipRemoval, RemoveReplacement, RemovalFails,
           RenameBack, RenameBackFails, TidyPrepared, Crash
      <3>2. ForeignWrite => writes' = writes + 1
        BY DEF ForeignWrite
      <3> QED
        BY <1>2, <1>t, <3>1, <3>2
    <2>3. Phase' = "lost"
      BY <2>2 DEF Phase
    <2> QED
      BY <2>1, <2>3, <1>t DEF Abs!Next, Abs!Interfere
  <1>3. CASE (Install \/ Restore \/ Crash) /\ writes = 0
    <2>1. alive /\ pc \in Running /\ writes' = 0
      BY <1>3 DEF Running, At, Install, Restore, BackUp, BackUpFails, CheckSideFiles,
         Prepare, PrepareFails, CleanUp, MoveAside, PutInPlace, VerifyInstalled,
         SwapFails, DropRollback, SkipRemoval, RemoveReplacement, RemovalFails,
         RenameBack, RenameBackFails, TidyPrepared, Crash
    <2>2. Phase = "working"
      BY <1>3, <2>1 DEF Phase, Running
    <2>3. \E r \in Row : \A s \in Row \ {r} : target'[s] = target[s]
      BY <1>3, OneTarget DEF IInv, TypeOK
    <2>4. \A r \in Row : target'[r] # target[r] =>
             Abs!AllKept /\ [q \in Row |-> "old"][r] # [q \in Row |-> "new"][r]
      <3> SUFFICES ASSUME NEW r \in Row, target'[r] # target[r]
                   PROVE  Abs!AllKept
        OBVIOUS
      <3>1. \A q \in Row : SavedOld[q] = {"old"}
        BY <1>3, OneTarget DEF SavedOld
      <3> QED
        BY <3>1 DEF Abs!AllKept
    <2>5. \A r \in Row : /\ SavedOld[r] \subseteq SavedOld'[r]
                         /\ SavedOld'[r] \subseteq SavedOld[r] \cup {target[r]}
      <3> TAKE r \in Row
      <3>1. /\ backup[r] = "old" => backup'[r] = "old"
            /\ backup'[r] = "old" => backup[r] = "old" \/ target[r] = "old"
        BY <1>3, BackupsAdded
      <3>2. /\ SavedOld[r] = IF backup[r] = "old" THEN {"old"} ELSE {}
            /\ SavedOld'[r] = IF backup'[r] = "old" THEN {"old"} ELSE {}
        BY DEF SavedOld
      <3> QED
        BY <3>1, <3>2
    <2>6. Phase' \in {"working", "done", "undone", "stuck"}
      BY <2>1 DEF Phase
    <2>7. ResultIsTrue'
      BY DEF IInv, Untouched, Layout, Kept, Moved, Returning, InPlace, ResultIsTrue
    <2>8. Phase' = "done" => target' = [r \in Row |-> "new"]
      BY <1>t, <2>1, <2>7 DEF Phase, ResultIsTrue
    <2>9. Phase' = "undone" => target' = [r \in Row |-> "old"]
      <3>1. Phase' = "undone" => pc' \in {"restored", "unchanged"}
        BY DEF Phase, IInv, TypeOK, Final
      <3> QED
        BY <1>t, <2>1, <2>7, <3>1 DEF ResultIsTrue
    <2> QED
      BY <2>2, <2>3, <2>4, <2>5, <2>6, <2>8, <2>9 DEF Abs!Next, Abs!Work
  <1> QED
    BY <1>1, <1>2, <1>3, <1>t DEF Next

(***************************************************************************)
(* install_candidate with restore_swap implements SafeReplace, for any     *)
(* number of files: backups before changes, "done" and "undone" truthful.  *)
(***************************************************************************)
THEOREM Refines == Spec => ImplementsSafeReplace
  BY AbsInit, AbsStep, Invariance, FreshInvariant, PTL
     DEF Spec, ImplementsSafeReplace, Abs!Spec
=============================================================================
