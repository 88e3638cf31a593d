------------------------- MODULE DependencyTxnProofs -----------------------
(***************************************************************************)
(* Safety of the runtime-dependency transaction for every payload, every   *)
(* number of calls and of writes by other programs.  What the transaction  *)
(* owes to files of others (Guarded) holds always; what it owes to the     *)
(* game folder as a whole (Progress) holds in a call nobody interferes     *)
(* with, and is re-established by the next call from whatever it finds.    *)
(***************************************************************************)
EXTENDS DependencyTxn, TLAPS

Committing == {"recheck", "remove", "rename", "verify"}
Undoing == {"undo", "recopy"}

\* A file of the user, or one another program wrote before the re-check.
Theirs == {"old", "foreign"}

\* The writes during a call are among all writes.  In a running call, every
\* staged row is backed up; a row this call has changed, or is about to
\* rename into, holds a file of others only with a backup of it.
Guarded ==
    /\ writes.call <= writes.all
    /\ pc \in Running =>
        /\ \A r \in Row : planned[r] \in Theirs => planned[r] \in saved[r]
        /\ \A r \in touched : planned[r] # "unchanged"
        /\ \A r \in touched : dest[r] \in Theirs => dest[r] \in saved[r]
        /\ pc = "plan" => touched = {}
        /\ pc = "recheck" => \A r \in touched : r < row
        /\ pc \in {"remove", "rename", "verify"} =>
              /\ planned[row] # "unchanged"
              /\ \A r \in touched : r <= row
              /\ dest[row] \in Theirs => pc = "remove" /\ dest[row] \in saved[row]
        /\ pc = "recopy" => row \in touched

\* What a row of this call's plan records; Goal is what the call makes of it.
Plan(r) == IF InPlan(r) /\ before[r] # "new" THEN before[r] ELSE "unchanged"

\* Planning touches nothing; the commit replaces the rows in order.
Forward ==
    /\ pc \in Running => needed = {k \in Kinds : \E m \in Markers :
                                       KindOf[m] = k /\ before[m] = "none"}
    /\ pc \in {"plan", "refused", "rolledback"} => dest = before
    /\ pc = "plan" => \A r \in Row :
          planned[r] = IF r < row THEN Plan(r) ELSE "unchanged"
    /\ pc \in Committing \cup Undoing => \A r \in Row : planned[r] = Plan(r)
    /\ pc \in {"plan"} \cup Committing => failures = FALSE
    /\ pc \in Committing =>
          /\ \A r \in Row : r < row => dest[r] = Goal(r)
          /\ \A r \in Row : r > row => dest[r] = before[r]
          /\ \A r \in Row : r \notin touched /\ (r # row \/ pc # "verify") =>
                dest[r] = before[r]
    /\ pc \in {"recheck", "remove"} => dest[row] = before[row]
    /\ pc = "rename" => dest[row] = "none"
    /\ pc = "verify" => row \in touched /\ dest[row] = "new"
    /\ pc = "installed" => SuccessIsWhole

\* The rollback goes down the rows; without a failure, those above are back.
Backward ==
    pc \in Undoing =>
        \A r \in Row :
            /\ r > row => dest[r] = before[r] \/ failures
            /\ r <= row /\ r \notin touched => dest[r] = before[r]

Progress == Forward /\ Backward

\* The inductive invariant.
IInv == TypeOK /\ Guarded /\ (writes.call = 0 => Progress)

-----------------------------------------------------------------------------
USE NAssumption, KindAssumption, MarkersAssumption, BoundsAssumption

\* The invariant holds before the first call.
LEMMA InitEstablishes == Init => IInv
  <1> SUFFICES ASSUME Init
               PROVE  IInv
    OBVIOUS
  <1>1. TypeOK
    <2>1. dest \in [Row -> Contents] /\ planned \in [Row -> Contents \cup {"unchanged"}]
      BY DEF Init, Contents
    <2>2. saved \in [Row -> SUBSET Contents]
      BY DEF Init
    <2>3. writes \in [call : 0 .. MaxForeign, all : 0 .. MaxForeign]
      BY DEF Init
    <2>4. row \in Row /\ calls \in 0 .. MaxCalls
      BY DEF Init, Row
    <2> QED
      BY <2>1, <2>2, <2>3, <2>4 DEF Init, TypeOK
  <1>2. Guarded /\ Progress
    BY DEF Init, Guarded, Progress, Forward, Backward, Running, Committing, Undoing
  <1> QED
    BY <1>1, <1>2 DEF IInv

\* Types: every step keeps every variable in its set.
LEMMA TypeStep == TypeOK /\ Guarded /\ [Next]_vars => TypeOK'
  <1> SUFFICES ASSUME TypeOK, Guarded, [Next]_vars
               PROVE  TypeOK'
    OBVIOUS
  <1> USE DEF TypeOK, Running, Results, Contents, Row
  <1>1. CASE Call
    <2>1. needed' \subseteq Kinds
      BY <1>1 DEF Call, Missing
    <2>2. writes' \in [call : 0 .. MaxForeign, all : 0 .. MaxForeign]
      BY <1>1 DEF Call
    <2>3. planned' \in [Row -> Contents \cup {"unchanged"}]
      BY <1>1 DEF Call
    <2>4. pc' \in Running \cup Results /\ row' \in Row /\ calls' \in 0 .. MaxCalls
      BY <1>1 DEF Call
    <2> QED
      BY <1>1, <2>1, <2>2, <2>3, <2>4 DEF Call
  <1>2. CASE PlanRow
    <2>1. planned' \in [Row -> Contents \cup {"unchanged"}]
      BY <1>2 DEF PlanRow
    <2>2. saved' \in [Row -> SUBSET Contents]
      BY <1>2 DEF PlanRow
    <2> QED
      BY <1>2, <2>1, <2>2 DEF PlanRow, GoOn
  <1>3. CASE PlanFails
    BY <1>3 DEF PlanFails
  <1>4. CASE SkipUnchanged
    BY <1>4 DEF SkipUnchanged, GoOn, Committed
  <1>5. CASE Recheck
    BY <1>5 DEF Recheck
  <1>6. CASE RemoveOld
    BY <1>6 DEF RemoveOld
  <1>7. CASE PutStaged
    BY <1>7 DEF PutStaged
  <1>8. CASE CommitRow
    BY <1>8 DEF CommitRow, Committed
  <1>9. CASE CommitFails
    BY <1>9 DEF CommitFails
  <1>10. CASE SkipUndo
    BY <1>10 DEF SkipUndo, UndoNext, EndUndo
  <1>11. CASE UndoRow
    BY <1>11 DEF UndoRow, UndoNext, EndUndo
  <1>12. CASE CopyBack
    <2>1. planned[row] \in Contents
      BY <1>12 DEF CopyBack, Guarded
    <2> QED
      BY <1>12, <2>1 DEF CopyBack, UndoNext, EndUndo
  <1>13. CASE UndoFails
    <2>1. dest' \in [Row -> Contents]
      BY <1>13 DEF UndoFails, Guarded
    <2>2. row' \in Row /\ pc' \in Running \cup Results
      BY <1>13 DEF UndoFails, UndoNext, EndUndo
    <2> QED
      BY <1>13, <2>1, <2>2 DEF UndoFails
  <1>14. CASE Crash
    BY <1>14 DEF Crash
  <1>15. CASE ForeignWrite
    <2>1. writes' \in [call : 0 .. MaxForeign, all : 0 .. MaxForeign]
      BY <1>15 DEF ForeignWrite, Guarded
    <2>2. dest' \in [Row -> Contents]
      BY <1>15 DEF ForeignWrite
    <2> QED
      BY <1>15, <2>1, <2>2 DEF ForeignWrite
  <1>16. CASE UNCHANGED vars
    BY <1>16 DEF vars
  <1> QED
    BY <1>1, <1>2, <1>3, <1>4, <1>5, <1>6, <1>7, <1>8, <1>9, <1>10, <1>11, <1>12, <1>13, <1>14, <1>15, <1>16 DEF Next, Transaction, Commit, Rollback

\* No step gives up a file of others that has no backup.
LEMMA GuardedStep == TypeOK /\ TypeOK' /\ Guarded /\ [Next]_vars => Guarded'
  <1> SUFFICES ASSUME TypeOK, TypeOK', Guarded, [Next]_vars
               PROVE  Guarded'
    OBVIOUS
  <1> USE DEF TypeOK, Guarded, Running, Results, Contents, Row, Theirs
  <1>1. CASE Call
    BY <1>1 DEF Call, Missing, Results
  <1>2. CASE PlanRow
    BY <1>2 DEF PlanRow, GoOn, InPlan
  <1>3. CASE PlanFails
    BY <1>3 DEF PlanFails
  <1>4. CASE SkipUnchanged
    BY <1>4 DEF SkipUnchanged, GoOn, Committed, Staged
  <1>5. CASE Recheck
    BY <1>5 DEF Recheck, Staged, AsPlanned, Present
  <1>6. CASE RemoveOld
    BY <1>6 DEF RemoveOld
  <1>7. CASE PutStaged
    BY <1>7 DEF PutStaged
  <1>8. CASE CommitRow
    BY <1>8 DEF CommitRow, Committed
  <1>9. CASE CommitFails
    BY <1>9 DEF CommitFails, Staged
  <1>10. CASE SkipUndo
    BY <1>10 DEF SkipUndo, UndoNext, EndUndo
  <1>11. CASE UndoRow
    BY <1>11 DEF UndoRow, UndoNext, EndUndo
  <1>12. CASE CopyBack
    BY <1>12 DEF CopyBack, UndoNext, EndUndo
  <1>13. CASE UndoFails
    <2>1. /\ \A r \in Row : r # row => dest'[r] = dest[r]
          /\ dest'[row] \in {dest[row], "none", "junk", planned[row]}
          /\ row \in touched
      BY <1>13 DEF UndoFails
    <2>2. UNCHANGED <<planned, touched, saved, writes>>
      BY <1>13 DEF UndoFails
    <2>3. pc' = "undo" \/ pc' \notin Running
      BY <1>13 DEF UndoFails, UndoNext, EndUndo
    <2>4. pc \in Running
      BY <1>13 DEF UndoFails
    <2> QED
      BY <2>1, <2>2, <2>3, <2>4
  <1>14. CASE Crash
    BY <1>14 DEF Crash
  <1>15. CASE ForeignWrite
    BY <1>15 DEF ForeignWrite, Rechecked
  <1>16. CASE UNCHANGED vars
    BY <1>16 DEF vars
  <1> QED
    BY <1>1, <1>2, <1>3, <1>4, <1>5, <1>6, <1>7, <1>8, <1>9, <1>10, <1>11, <1>12, <1>13, <1>14, <1>15, <1>16 DEF Next, Transaction, Commit, Rollback

\* A call begins from whatever it finds.
LEMMA CallBegins == TypeOK /\ Call => Progress'
  <1> SUFFICES ASSUME TypeOK, Call
               PROVE  Progress'
    OBVIOUS
  <1>1. /\ pc' \in {"ready", "plan", "refused"} /\ row' = 1
        /\ dest' = dest /\ before' = dest /\ failures' = FALSE
        /\ planned' = [r \in Row |-> "unchanged"]
        /\ needed' = Missing
    BY DEF Call
  <1> QED
    BY <1>1 DEF Progress, Forward, Backward, Missing, Present, Running, Committing, Undoing, Row

\* Unless another program writes, every step of the call keeps to its plan.
LEMMA ProgressStep ==
    ASSUME TypeOK, Guarded, Progress, [Transaction \/ Crash]_vars
    PROVE  Progress'
  <1> USE DEF TypeOK, Guarded, Progress, Forward, Backward, Running, Committing,
              Undoing, Row, Plan, Goal, InPlan, Contents
  <1>1. CASE PlanRow
    <2>1. /\ \A r \in Row : r # row => planned'[r] = planned[r]
          /\ planned'[row] = Plan(row)
      BY <1>1 DEF PlanRow
    <2>2. /\ UNCHANGED <<needed, dest, touched, failures, before>>
          /\ pc = "plan" /\ touched = {} /\ failures = FALSE
      BY <1>1 DEF PlanRow
    <2>3. \/ row < N /\ row' = row + 1 /\ pc' = "plan"
          \/ row = N /\ row' = 1 /\ pc' = "recheck"
      BY <1>1 DEF PlanRow, GoOn
    <2> QED
      BY <2>1, <2>2, <2>3
  <1>2. CASE PlanFails
    BY <1>2 DEF PlanFails
  <1>3. CASE SkipUnchanged
    <2>1. /\ UNCHANGED <<needed, dest, planned, touched, failures, before, writes>>
          /\ pc = "recheck" /\ planned[row] = "unchanged" /\ dest[row] = Goal(row)
      BY <1>3 DEF SkipUnchanged, Staged
    <2>2. CASE row < N /\ row' = row + 1 /\ pc' = "recheck"
      BY <2>1, <2>2
    <2>3. CASE row = N /\ pc' = "installed"
      <3>1. \A r \in Row : dest[r] = Goal(r)
        BY <2>1, <2>3
      <3>2. \A m \in Markers : dest[m] # "none"
        BY <2>1, <3>1
      <3> QED
        BY <2>1, <2>3, <3>1, <3>2 DEF SuccessIsWhole, Present
    <2>4. \/ row < N /\ row' = row + 1 /\ pc' = "recheck"
          \/ row = N /\ pc' = "installed"
      BY <1>3 DEF SkipUnchanged, GoOn, Committed
    <2> QED
      BY <2>2, <2>3, <2>4
  <1>4. CASE Recheck
    BY <1>4 DEF Recheck, Staged, AsPlanned, Present
  <1>5. CASE RemoveOld
    BY <1>5 DEF RemoveOld
  <1>6. CASE PutStaged
    BY <1>6 DEF PutStaged
  <1>7. CASE CommitRow
    BY <1>7 DEF CommitRow, Committed, SuccessIsWhole, Present
  <1>8. CASE CommitFails
    BY <1>8 DEF CommitFails, Staged
  <1>9. CASE SkipUndo
    BY <1>9 DEF SkipUndo, UndoNext, EndUndo
  <1>10. CASE UndoRow
    BY <1>10 DEF UndoRow, UndoNext, EndUndo
  <1>11. CASE CopyBack
    BY <1>11 DEF CopyBack, UndoNext, EndUndo
  <1>12. CASE UndoFails
    BY <1>12 DEF UndoFails, UndoNext, EndUndo
  <1>13. CASE Crash
    BY <1>13 DEF Crash
  <1>14. CASE UNCHANGED vars
    BY <1>14 DEF vars, SuccessIsWhole, Present
  <1> QED
    BY <1>1, <1>2, <1>3, <1>4, <1>5, <1>6, <1>7, <1>8, <1>9, <1>10, <1>11, <1>12, <1>13, <1>14 DEF Transaction, Commit, Rollback

\* Every step keeps the invariant.
LEMMA IInvStep == IInv /\ [Next]_vars => IInv'
  <1> SUFFICES ASSUME IInv, [Next]_vars
               PROVE  IInv'
    OBVIOUS
  <1>1. TypeOK'
    BY TypeStep DEF IInv
  <1>2. Guarded'
    BY <1>1, GuardedStep DEF IInv
  <1>3. CASE Call
    BY <1>1, <1>2, <1>3, CallBegins DEF IInv
  <1>4. CASE ForeignWrite
    <2>1. writes'.call # 0
      BY <1>4 DEF ForeignWrite, IInv, TypeOK
    <2> QED
      BY <1>1, <1>2, <2>1 DEF IInv
  <1>5. CASE [Transaction \/ Crash]_vars
    <2>1. writes' = writes
      BY <1>5 DEF Transaction, Commit, Rollback, PlanRow, PlanFails, SkipUnchanged,
         Recheck, RemoveOld, PutStaged, CommitRow, CommitFails, SkipUndo, UndoRow,
         CopyBack, UndoFails, Crash, vars
    <2> QED
      BY <1>1, <1>2, <1>5, <2>1, ProgressStep DEF IInv
  <1> QED
    BY <1>3, <1>4, <1>5 DEF Next

\* The invariant holds in every state of every sequence of calls.
THEOREM Invariance == Spec => []IInv
  BY InitEstablishes, IInvStep, PTL DEF Spec

(* Types of the dependency transaction (check_or_install). *)
THEOREM TypeCorrect == Spec => []TypeOK
  <1>1. IInv => TypeOK
    BY DEF IInv
  <1> QED
    BY Invariance, <1>1, PTL

(***************************************************************************)
(* An error of check_or_install that reports a complete rollback, or comes *)
(* before the commit, leaves every payload file as the call found it.      *)
(***************************************************************************)
THEOREM RollbackRestores == Spec => []FailureRestores
  <1>1. IInv => FailureRestores
    BY DEF IInv, Progress, Forward, FailureRestores
  <1> QED
    BY Invariance, <1>1, PTL

(***************************************************************************)
(* A check_or_install that installs leaves both dependencies whole.        *)
(***************************************************************************)
THEOREM InstalledWhole == Spec => []SuccessIsWhole
  <1>1. IInv => SuccessIsWhole
    BY DEF IInv, Progress, Forward, SuccessIsWhole
  <1> QED
    BY Invariance, <1>1, PTL

(***************************************************************************)
(* Whatever fails or is killed, the files of the user and those another    *)
(* program wrote before the re-check of their row are given up only with a *)
(* backup of the same bytes.                                               *)
(***************************************************************************)
THEOREM OthersBackedUp == Spec => OnlyBackedUpReplaced
  <1>1. IInv /\ [Next]_vars => [ReplacesBackedUp]_vars
    <2> SUFFICES ASSUME IInv, [Next]_vars, NEW r \in Row,
                        dest[r] \in Theirs, dest'[r] # dest[r]
                 PROVE  dest[r] \in saved[r] \/ dest'[r] \in {"foreign", "late"}
      BY DEF ReplacesBackedUp, Theirs
    <2>1. TypeOK /\ Guarded
      BY DEF IInv
    <2>2. RemoveOld \/ PutStaged \/ UndoRow \/ CopyBack \/ UndoFails \/ Crash
             \/ ForeignWrite
      BY DEF Next, Transaction, Commit, Rollback, Call, PlanRow, PlanFails,
         SkipUnchanged, Recheck, CommitRow, CommitFails, SkipUndo, vars
    <2>3. CASE RemoveOld \/ PutStaged
      BY <2>1, <2>3 DEF RemoveOld, PutStaged, Guarded, Running, TypeOK
    <2>4. CASE UndoRow \/ CopyBack \/ UndoFails
      BY <2>1, <2>4 DEF UndoRow, CopyBack, UndoFails, Guarded, Running, TypeOK
    <2>5. CASE Crash
      BY <2>1, <2>5 DEF Crash, Guarded, Running, TypeOK
    <2>6. CASE ForeignWrite
      BY <2>1, <2>6 DEF ForeignWrite, TypeOK
    <2> QED
      BY <2>2, <2>3, <2>4, <2>5, <2>6
  <1> QED
    BY Invariance, <1>1, PTL DEF Spec, OnlyBackedUpReplaced

-----------------------------------------------------------------------------
(* Refinement of SafeReplace. *)

\* A running call has been counted, and whatever it planned to replace, broken
\* files of an earlier call included, is in a backup.
PlanSaved ==
    pc \in Running =>
        /\ calls > 0
        /\ \A r \in Row : planned[r] \in saved[r] \cup {"unchanged", "none"}

\* Only planning adds to the plan, and it backs up what it adds.
LEMMA PlanSavedInvariant == Spec => []PlanSaved
  <1>1. Init => PlanSaved
    BY DEF Init, PlanSaved, Running
  <1>2. IInv /\ PlanSaved /\ [Next]_vars => PlanSaved'
    <2> SUFFICES ASSUME IInv, PlanSaved, [Next]_vars, pc' \in Running
                 PROVE  calls' > 0 /\ \A r \in Row : planned'[r] \in saved'[r] \cup {"unchanged", "none"}
      BY DEF PlanSaved
    <2>0. TypeOK
      BY DEF IInv
    <2>1. CASE Call
      BY <2>0, <2>1 DEF Call, TypeOK
    <2>2. CASE PlanRow
      <3>1. pc \in Running /\ calls' = calls
        BY <2>2 DEF PlanRow, Running
      <3>2. \A r \in Row : planned'[r] \in saved'[r] \cup {"unchanged", "none"}
        BY <2>0, <2>2, <3>1 DEF PlanRow, PlanSaved, TypeOK
      <3> QED
        BY <3>1, <3>2 DEF PlanSaved
    <2>3. CASE ~Call /\ ~PlanRow
      <3>1. pc \in Running /\ UNCHANGED <<calls, planned, saved>>
        BY <2>3 DEF Next, Transaction, Commit, Rollback, PlanFails, SkipUnchanged, Recheck,
           RemoveOld, PutStaged, CommitRow, CommitFails, SkipUndo, UndoRow, CopyBack,
           UndoFails, Crash, ForeignWrite, vars, Running
      <3> QED
        BY <3>1 DEF PlanSaved
    <2> QED
      BY <2>1, <2>2, <2>3
  <1> QED
    BY Invariance, <1>1, <1>2, PTL DEF Spec

\* A step of a call nobody interferes with changes at most the row it is at,
\* one that is to change, and only once all such rows are in a backup.
LEMMA OneRow ==
    ASSUME IInv, PlanSaved, writes.call = 0, Transaction \/ Crash
    PROVE  /\ \A r \in Row \ {row} : dest'[r] = dest[r]
           /\ dest'[row] # dest[row] =>
                 /\ before[row] # Goal(row)
                 /\ \A r \in Row : before[r] \in saved[r] \cup {"none", Goal(r)}
  <1>0. TypeOK /\ Guarded /\ Forward
    BY DEF IInv, Progress
  <1>1. CASE RemoveOld \/ PutStaged \/ UndoRow \/ CopyBack \/ UndoFails \/ (Crash /\ pc = "recopy")
    <2>1. \A r \in Row \ {row} : dest'[r] = dest[r]
      BY <1>0, <1>1 DEF RemoveOld, PutStaged, UndoRow, CopyBack, UndoFails, Crash, TypeOK
    <2>2. pc \in {"remove", "rename", "undo", "recopy"} /\ (pc = "undo" => row \in touched)
      BY <1>1 DEF RemoveOld, PutStaged, UndoRow, CopyBack, UndoFails
    <2>3. /\ pc \in Running /\ pc \in Committing \cup Undoing
          /\ row \in Row /\ planned[row] # "unchanged"
      BY <1>0, <2>2 DEF Running, Committing, Undoing, Guarded, TypeOK
    <2>4. \A r \in Row : planned[r] = Plan(r)
      BY <1>0, <2>3 DEF Forward
    <2>5. before[row] # Goal(row)
      BY <2>3, <2>4 DEF Plan, Goal
    <2>6. \A r \in Row : before[r] \in saved[r] \cup {"none", Goal(r)}
      <3> TAKE r \in Row
      <3>1. before[r] # "unchanged"
        BY <1>0 DEF TypeOK, Contents
      <3>2. planned[r] = Plan(r) /\ planned[r] \in saved[r] \cup {"unchanged", "none"}
        BY <2>3, <2>4 DEF PlanSaved
      <3> QED
        BY <3>1, <3>2 DEF Plan, Goal
    <2> QED
      BY <2>1, <2>5, <2>6
  <1>2. CASE ~(RemoveOld \/ PutStaged \/ UndoRow \/ CopyBack \/ UndoFails \/ (Crash /\ pc = "recopy"))
    <2>1. dest' = dest
      BY <1>2 DEF Transaction, Commit, Rollback, PlanRow, PlanFails, SkipUnchanged, Recheck,
         CommitRow, CommitFails, SkipUndo, Crash
    <2> QED
      BY <2>1
  <1> QED
    BY <1>1, <1>2

\* The first state is one of the promise.
LEMMA AbsInit == Init => Abs!Init
  <1> SUFFICES ASSUME Init
               PROVE  Abs!Init
    OBVIOUS
  <1>1. dest \in [Row -> Contents] /\ [r \in Row |-> Goal(r)] \in [Row -> Contents]
    BY DEF Init, Contents, Goal, InPlan
  <1>2. Phase = "idle"
    BY DEF Init, Phase, Running
  <1> QED
    BY <1>1, <1>2 DEF Init, Abs!Init

\* A call begins a transaction; one that finds nothing missing has done it.
LEMMA AbsCall == TypeOK /\ TypeOK' /\ Call => Abs!Begin
  <1> SUFFICES ASSUME TypeOK, TypeOK', Call
               PROVE  Abs!Begin
    OBVIOUS
  <1>1. Phase # "working"
    BY DEF Call, Phase
  <1>2. Phase' \in Abs!Phases
    BY DEF Phase, Abs!Phases
  <1>3. before' = dest /\ UNCHANGED <<dest, saved>>
    BY DEF Call
  <1>4. [r \in Row |-> Goal(r)]' \in [Row -> Contents]
    BY DEF TypeOK, Goal, Contents
  <1>5. Phase' = "done" => dest = [r \in Row |-> Goal(r)]'
    <2> SUFFICES ASSUME Phase' = "done"
                 PROVE  dest = [r \in Row |-> Goal(r)]'
      OBVIOUS
    <2>1. pc' \in {"ready", "plan", "refused"} /\ needed' = Missing
      BY DEF Call
    <2>2. pc' \in {"ready", "installed"}
      BY DEF Phase
    <2>3. needed' = {}
      BY <2>1, <2>2 DEF Call
    <2> QED
      BY <1>3, <2>3 DEF TypeOK, Goal, InPlan
  <1> QED
    BY <1>1, <1>2, <1>3, <1>4, <1>5 DEF Abs!Begin

\* Every step is a step of the promise or a stutter.
LEMMA AbsStep == IInv /\ IInv' /\ PlanSaved /\ [Next]_vars => [Abs!Next]_(Abs!vars)
  <1> SUFFICES ASSUME IInv, IInv', PlanSaved, [Next]_vars
               PROVE  [Abs!Next]_(Abs!vars)
    OBVIOUS
  <1>t. /\ TypeOK /\ TypeOK'
        /\ writes.call \in Nat /\ writes'.call \in Nat
    BY DEF IInv, TypeOK
  <1>1. CASE UNCHANGED vars
    <2>1. [r \in Row |-> Goal(r)]' = [r \in Row |-> Goal(r)] /\ Phase' = Phase
      BY <1>1 DEF vars, Goal, InPlan, Phase
    <2> QED
      BY <1>1, <2>1 DEF vars, Abs!vars
  <1>2. CASE Call
    BY <1>2, <1>t, AbsCall DEF Abs!Next
  <1>3. CASE ForeignWrite \/ ((Transaction \/ Crash) /\ writes.call > 0)
    <2>1. pc \in Running /\ UNCHANGED <<needed, before>>
      BY <1>3 DEF ForeignWrite, Transaction, Commit, Rollback, PlanRow, PlanFails, SkipUnchanged,
         Recheck, RemoveOld, PutStaged, CommitRow, CommitFails, SkipUndo, UndoRow, CopyBack,
         UndoFails, Crash, Running
    <2>2. Phase \in {"working", "lost"}
      BY <2>1 DEF Phase
    <2>3. writes'.call > 0
      <3>1. CASE ForeignWrite
        BY <1>t, <3>1 DEF ForeignWrite
      <3>2. CASE (Transaction \/ Crash) /\ writes.call > 0
        BY <3>2 DEF Transaction, Commit, Rollback, PlanRow, PlanFails, SkipUnchanged,
           Recheck, RemoveOld, PutStaged, CommitRow, CommitFails, SkipUndo, UndoRow, CopyBack,
           UndoFails, Crash
      <3> QED
        BY <1>3, <3>1, <3>2
    <2>4. Phase' = "lost"
      BY <2>3 DEF Phase
    <2>5. [r \in Row |-> Goal(r)]' = [r \in Row |-> Goal(r)] /\ before' = before
      BY <2>1 DEF Goal, InPlan
    <2> QED
      BY <1>t, <2>2, <2>4, <2>5 DEF Abs!Next, Abs!Interfere, TypeOK
  <1>4. CASE (Transaction \/ Crash) /\ writes.call = 0
    <2>1. pc \in Running /\ UNCHANGED <<needed, before, calls, writes>>
      BY <1>4 DEF Transaction, Commit, Rollback, PlanRow, PlanFails, SkipUnchanged,
         Recheck, RemoveOld, PutStaged, CommitRow, CommitFails, SkipUndo, UndoRow, CopyBack,
         UndoFails, Crash, Running
    <2>2. Phase = "working"
      BY <1>4, <2>1 DEF Phase
    <2>3. \E r \in Row : \A s \in Row \ {r} : dest'[s] = dest[s]
      BY <1>t, <1>4, OneRow DEF TypeOK
    <2>4. \A r \in Row : dest'[r] # dest[r] =>
             Abs!AllKept /\ before[r] # [q \in Row |-> Goal(q)][r]
      BY <1>4, OneRow DEF Abs!AllKept
    <2>5. \A r \in Row : /\ saved[r] \subseteq saved'[r]
                         /\ saved'[r] \subseteq saved[r] \cup {dest[r]}
      <3>1. CASE PlanRow
        BY <1>t, <3>1 DEF PlanRow, TypeOK
      <3>2. CASE ~PlanRow
        <4>1. saved' = saved
          BY <1>4, <3>2 DEF Transaction, Commit, Rollback, PlanFails, SkipUnchanged,
             Recheck, RemoveOld, PutStaged, CommitRow, CommitFails, SkipUndo, UndoRow, CopyBack,
             UndoFails, Crash
        <4> QED
          BY <4>1
      <3> QED
        BY <3>1, <3>2
    <2>6. calls > 0 /\ calls \in Nat
      BY <1>t, <2>1 DEF PlanSaved, TypeOK
    <2>7. Phase' \in {"working", "done", "undone", "stuck"}
      BY <1>4, <2>1, <2>6 DEF Phase
    <2>8. Forward' /\ writes'.call = 0
      BY <1>4, <2>1 DEF IInv, Progress
    <2>9. pc' # "ready"
      BY <1>4 DEF Transaction, Commit, Rollback, PlanRow, PlanFails, SkipUnchanged,
         Recheck, RemoveOld, PutStaged, CommitRow, CommitFails, SkipUndo, UndoRow, CopyBack,
         UndoFails, Crash, GoOn, Committed, UndoNext, EndUndo
    <2>10. Phase' = "done" => dest' = [r \in Row |-> Goal(r)]
      <3>1. Phase' = "done" => pc' = "installed"
        BY <2>9 DEF Phase
      <3>2. pc' = "installed" => \A r \in Row : dest'[r] = Goal(r)
        BY <2>1, <2>8 DEF Forward, SuccessIsWhole, Goal, InPlan
      <3> QED
        BY <1>t, <3>1, <3>2 DEF TypeOK
    <2>11. Phase' = "undone" => dest' = before
      <3>1. Phase' = "undone" => pc' \in {"refused", "rolledback"}
        BY DEF Phase
      <3> QED
        BY <2>1, <2>8, <3>1 DEF Forward
    <2>12. [r \in Row |-> Goal(r)]' = [r \in Row |-> Goal(r)] /\ before' = before
      BY <2>1 DEF Goal, InPlan
    <2> QED
      BY <2>2, <2>3, <2>4, <2>5, <2>7, <2>10, <2>11, <2>12 DEF Abs!Next, Abs!Work
  <1> QED
    BY <1>1, <1>2, <1>3, <1>4, <1>t DEF Next

(***************************************************************************)
(* check_or_install implements SafeReplace, for every payload and through  *)
(* every sequence of calls, retries and kills.                             *)
(***************************************************************************)
THEOREM Refines == Spec => ImplementsSafeReplace
  BY AbsInit, AbsStep, Invariance, PlanSavedInvariant, PTL
     DEF Spec, ImplementsSafeReplace, Abs!Spec
=============================================================================
