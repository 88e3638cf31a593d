----------------------------- MODULE SafeReplace ---------------------------
(***************************************************************************)
(* What every part of the updater that writes into the user's game folder  *)
(* promises of its files: before any of them changes, the bytes of all     *)
(* that are to change are kept in a backup; "done" means every file has    *)
(* the contents the transaction was to install, "undone" that every file   *)
(* is as it was.  A transaction that can promise neither (it was killed,   *)
(* or restoring failed) is "stuck", and the kept bytes are what is left to *)
(* the user.  A transaction that someone else interferes with, writing the *)
(* same files, is "lost": of it nothing is promised.                       *)
(***************************************************************************)
CONSTANTS Row, Content, Nothing

VARIABLES
    files,  \* the files in the game folder
    kept,   \* the contents each file's backups hold
    orig,   \* the files when the transaction began
    goal,   \* the files the transaction is to leave
    phase

vars == <<files, kept, orig, goal, phase>>

Phases == {"idle", "working", "done", "undone", "stuck", "lost"}

Init ==
    /\ files \in [Row -> Content] /\ orig = files
    /\ kept = [r \in Row |-> {}]
    /\ goal \in [Row -> Content]
    /\ phase \in {"idle", "working"}

\* A transaction begins, or begins again, from the files as they are.
Begin ==
    /\ phase # "working"
    /\ phase' \in Phases
    /\ orig' = files
    /\ goal' \in [Row -> Content]
    /\ phase' = "done" => files = goal'
    /\ UNCHANGED <<files, kept>>

AllKept == \A r \in Row : orig[r] \in kept[r] \cup {Nothing, goal[r]}

\* A step changes at most one file, one that has to change, and none before
\* all originals to be replaced are kept; the last step tells the truth.
Work ==
    /\ phase = "working"
    /\ \E r \in Row : \A s \in Row \ {r} : files'[s] = files[s]
    /\ \A r \in Row :
          files'[r] # files[r] => AllKept /\ orig[r] # goal[r]
    /\ \A r \in Row : /\ kept[r] \subseteq kept'[r]
                      /\ kept'[r] \subseteq kept[r] \cup {files[r]}
    /\ phase' \in {"working", "done", "undone", "stuck"}
    /\ phase' = "done" => files' = goal
    /\ phase' = "undone" => files' = orig
    /\ UNCHANGED <<orig, goal>>

\* Someone else writes the files, and the transaction goes on.
Interfere ==
    /\ phase \in {"working", "lost"} /\ phase' = "lost"
    /\ files' \in [Row -> Content]
    /\ UNCHANGED <<orig, goal>>

Next == Begin \/ Work \/ Interfere

Spec == Init /\ [][Next]_vars
=============================================================================
