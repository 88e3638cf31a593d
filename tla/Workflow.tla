------------------------------ MODULE Workflow -----------------------------
(***************************************************************************)
(* The window and its jobs: the callbacks of src/updater.rs, the gates of  *)
(* ui/main.slint, and the worker threads.                                  *)
(*                                                                         *)
(* Callbacks run on the event loop.  A job is one worker thread; it reads  *)
(* what it was given when it started, may store its candidate in the       *)
(* shared AppState, and ends by queueing a closure that sets the flags of  *)
(* the window.  Dialogs cover the window; closing it ends the process with *)
(* whatever its workers are doing.                                         *)
(***************************************************************************)
EXTENDS Naturals, Sequences, FiniteSets

CONSTANTS
    Games,   \* game folders the user has
    MaxJobs  \* bound on the jobs started in one session

ASSUME WorkflowAssumption == MaxJobs \in Nat

Job == 1 .. MaxJobs
None == [job |-> 0]
\* A candidate of an adapter the installer has a layout for, or of another.
Candidate == [job : Job, game : Games, layout : BOOLEAN]
Worker == [kind : {"update", "fix"}, job : Job, game : Games]
          \cup [kind : {"made", "install"}, job : Job, game : Games, of : Candidate]
Outcomes == [update |-> {"report-only", "error"}, fix |-> {"fixed", "fix-error"},
             made |-> {"candidate"}, install |-> {"installed", "install-error"}]
UpdateEnds == {"candidate", "report-only", "error", "fixed", "fix-error"}
InstallEnds == {"installed", "install-error"}

VARIABLES
    keyboard,  \* in this session, focus reaches the controls under a dialog
    notice, prompt, warning, risk,             \* dialogs and the checkbox
    updateRunning, updateComplete,             \* flags of the window
    installRunning, installComplete, installAvailable,
    gamePath,  \* the game folder in the window
    target,    \* the install target the prompt shows
    candidate, \* AppState.last_installable_candidate
    workers,   \* running worker threads
    events,    \* closures queued to the event loop, with their job
    jobs,      \* jobs started so far
    installed, \* history: jobs whose candidate was installed
    closed

dialogs == <<notice, prompt, warning, risk>>
update == <<updateRunning, updateComplete>>
install == <<installRunning, installComplete, installAvailable>>
threads == <<workers, events, jobs, installed>>
session == <<keyboard, closed>>
vars == <<dialogs, update, install, gamePath, target, candidate, threads, session>>

Init ==
    /\ keyboard \in BOOLEAN
    /\ notice = TRUE /\ prompt = FALSE /\ warning = FALSE /\ risk = FALSE
    /\ updateRunning = FALSE /\ updateComplete = FALSE
    /\ installRunning = FALSE /\ installComplete = FALSE
    /\ installAvailable = FALSE
    /\ gamePath \in Games /\ target \in Games /\ candidate = None
    /\ workers = {} /\ events = <<>> /\ jobs = 0 /\ installed = {}
    /\ closed = FALSE

-----------------------------------------------------------------------------
(* What the user can reach, and the gates of the controls. *)

\* The dialog on top covers what is below it.
Top == CASE warning -> "warning"
         [] ~warning /\ prompt -> "prompt"
         [] ~warning /\ ~prompt /\ notice -> "notice"
         [] OTHER -> "main"

Reach(layer) == ~closed /\ (keyboard \/ Top = layer)

CanInstall == /\ installAvailable /\ updateComplete
              /\ ~updateRunning /\ ~installRunning /\ ~installComplete
\* Mutant of CanUpdate: a running installation does not withhold the others.
CanUpdateMeanwhile == ~updateRunning /\ ~prompt /\ ~notice

CanUpdate == ~updateRunning /\ ~installRunning /\ ~prompt /\ ~notice
CanFix == CanUpdate /\ ~warning

AcceptNotice ==
    /\ Reach("notice") /\ notice /\ notice' = FALSE
    /\ UNCHANGED <<prompt, warning, risk, update, install, gamePath, target,
                   candidate, threads, session>>

OpenPrompt ==
    /\ Reach("main") /\ CanInstall /\ prompt' = TRUE
    /\ UNCHANGED <<notice, warning, risk, update, install, gamePath, target,
                   candidate, threads, session>>

DismissPrompt ==
    /\ Reach("prompt") /\ prompt /\ prompt' = FALSE
    /\ UNCHANGED <<notice, warning, risk, update, install, gamePath, target,
                   candidate, threads, session>>

OpenWarning ==
    /\ Reach("main") /\ CanFix /\ warning' = TRUE /\ risk' = FALSE
    /\ UNCHANGED <<notice, prompt, update, install, gamePath, target,
                   candidate, threads, session>>

ToggleRisk ==
    /\ Reach("warning") /\ warning /\ risk' = ~risk
    /\ UNCHANGED <<notice, prompt, warning, update, install, gamePath, target,
                   candidate, threads, session>>

CancelWarning ==
    /\ Reach("warning") /\ warning /\ warning' = FALSE /\ risk' = FALSE
    /\ UNCHANGED <<notice, prompt, update, install, gamePath, target,
                   candidate, threads, session>>

\* Found, chosen or typed; a candidate made before keeps its own folder.
ChooseGame ==
    /\ Reach("main") /\ ~updateRunning
    /\ \E g \in Games \ {gamePath} : gamePath' = g
    /\ UNCHANGED <<dialogs, update, install, target, candidate, threads, session>>

-----------------------------------------------------------------------------
(* The callbacks that start a job. *)

Start(worker) ==
    /\ jobs < MaxJobs /\ jobs' = jobs + 1
    /\ workers' = workers \cup {worker}
    /\ UNCHANGED <<events, installed>>

\* What on_update_mod and on_fix_modlist reset once their inputs are valid.
Reset ==
    /\ candidate' = None
    /\ updateRunning' = TRUE /\ updateComplete' = FALSE
    /\ installRunning' = FALSE /\ installComplete' = FALSE
    /\ installAvailable' = FALSE /\ prompt' = FALSE

UpdateMod ==
    /\ Reach("main") /\ CanUpdate /\ ~updateRunning
    /\ Reset
    /\ Start([kind |-> "update", job |-> jobs + 1, game |-> gamePath])
    /\ UNCHANGED <<notice, warning, risk, gamePath, target, session>>

FixModlist ==
    /\ Reach("warning") /\ warning /\ risk
    /\ ~updateRunning
    /\ Reset
    /\ warning' = FALSE /\ risk' = FALSE
    /\ Start([kind |-> "fix", job |-> jobs + 1, game |-> gamePath])
    /\ UNCHANGED <<notice, gamePath, target, session>>

\* Mutant of InstallOutput: the game folder is read from the window.
InstallIntoWindow ==
    /\ Reach("prompt") /\ prompt
    /\ ~updateRunning /\ ~installRunning /\ updateComplete
    /\ prompt' = FALSE
    /\ candidate # None
    /\ installRunning' = TRUE /\ installComplete' = FALSE
    /\ Start([kind |-> "install", job |-> jobs + 1, game |-> gamePath, of |-> candidate])
    /\ UNCHANGED <<notice, warning, risk, update, gamePath, target, candidate,
                   installAvailable, session>>

\* The candidate and its game folder come from AppState, not from the window.
InstallOutput ==
    /\ Reach("prompt") /\ prompt
    /\ ~updateRunning /\ ~installRunning /\ updateComplete
    /\ prompt' = FALSE
    /\ IF candidate = None
       THEN /\ installAvailable' = FALSE
            /\ UNCHANGED <<installRunning, installComplete, threads>>
       ELSE /\ installRunning' = TRUE /\ installComplete' = FALSE
            /\ Start([kind |-> "install", job |-> jobs + 1,
                      game |-> candidate.game, of |-> candidate])
            /\ UNCHANGED installAvailable
    /\ UNCHANGED <<notice, warning, risk, update, gamePath, target, candidate,
                   session>>

-----------------------------------------------------------------------------
(* The worker threads. *)

\* run_update returns a candidate, and the worker stores it in AppState.
StoreCandidate ==
    /\ \E w \in workers, layout \in BOOLEAN :
          /\ w.kind = "update"
          /\ LET c == [job |-> w.job, game |-> w.game, layout |-> layout] IN
                /\ candidate' = c
                /\ workers' = (workers \ {w}) \cup
                      {[kind |-> "made", job |-> w.job, game |-> w.game, of |-> c]}
    /\ UNCHANGED <<dialogs, update, install, gamePath, target, events, jobs,
                   installed, session>>

\* The worker queues its completion and ends; an adapter without a layout is
\* refused by the installer.
Finish ==
    /\ \E w \in workers : \E outcome \in Outcomes[w.kind] :
          /\ outcome = "installed" => w.of.layout
          /\ workers' = workers \ {w}
          /\ events' = Append(events, [is |-> outcome, job |-> w.job, game |-> w.game])
          /\ installed' = IF outcome = "installed" THEN installed \cup {w.of.job}
                                                   ELSE installed
    /\ UNCHANGED <<dialogs, update, install, gamePath, target, candidate, jobs, session>>

-----------------------------------------------------------------------------
(* The closures, in the order they were queued. *)

Ended == Head(events).is

CandidateCreated ==
    /\ Ended = "candidate"
    /\ updateRunning' = FALSE /\ updateComplete' = TRUE
    /\ installRunning' = FALSE /\ installComplete' = FALSE
    /\ installAvailable' = TRUE
    /\ target' = Head(events).game /\ prompt' = TRUE

\* Mutant of UpdateStopped: a report without a candidate keeps the job running.
UpdateStoppedBusy ==
    /\ Ended \in {"report-only", "error"}
    /\ UNCHANGED updateRunning /\ updateComplete' = FALSE
    /\ installAvailable' = FALSE /\ prompt' = FALSE
    /\ UNCHANGED <<installRunning, installComplete, target>>

UpdateStopped ==
    /\ Ended \in {"report-only", "error"}
    /\ updateRunning' = FALSE /\ updateComplete' = FALSE
    /\ installAvailable' = FALSE /\ prompt' = FALSE
    /\ UNCHANGED <<installRunning, installComplete, target>>

FixEnded ==
    /\ Ended \in {"fixed", "fix-error"}
    /\ updateRunning' = FALSE /\ updateComplete' = (Ended = "fixed")
    /\ UNCHANGED <<install, target, prompt>>

InstallEnded ==
    /\ Ended \in {"installed", "install-error"}
    /\ installRunning' = FALSE
    /\ installComplete' = (installComplete \/ Ended = "installed")
    /\ UNCHANGED <<update, installAvailable, target, prompt>>

Deliver ==
    /\ ~closed /\ events # <<>>
    /\ events' = Tail(events)
    /\ CandidateCreated \/ UpdateStopped \/ FixEnded \/ InstallEnded
    /\ UNCHANGED <<notice, warning, risk, gamePath, candidate, workers, jobs,
                   installed, session>>

\* The event loop ends, and the process with it.
Close ==
    /\ ~closed /\ closed' = TRUE
    /\ workers' = {} /\ events' = <<>>
    /\ UNCHANGED <<keyboard, dialogs, update, install, gamePath, target, candidate,
                   jobs, installed>>

-----------------------------------------------------------------------------
User ==
    \/ AcceptNotice \/ OpenPrompt \/ DismissPrompt \/ OpenWarning \/ ToggleRisk
    \/ CancelWarning \/ ChooseGame \/ UpdateMod \/ FixModlist \/ InstallOutput
    \/ Close

Next == User \/ StoreCandidate \/ Finish \/ Deliver

Spec == Init /\ [][Next]_vars

(***************************************************************************)
(* A worker computes without waiting for anyone, and the event loop runs   *)
(* the closures queued to it; nothing is assumed of the user.              *)
(***************************************************************************)
FairSpec == Spec /\ WF_vars(StoreCandidate \/ Finish) /\ WF_vars(Deliver)

-----------------------------------------------------------------------------
TypeOK ==
    /\ keyboard \in BOOLEAN /\ closed \in BOOLEAN
    /\ notice \in BOOLEAN /\ prompt \in BOOLEAN
    /\ warning \in BOOLEAN /\ risk \in BOOLEAN
    /\ updateRunning \in BOOLEAN /\ updateComplete \in BOOLEAN
    /\ installRunning \in BOOLEAN /\ installComplete \in BOOLEAN
    /\ installAvailable \in BOOLEAN
    /\ gamePath \in Games /\ target \in Games
    /\ candidate \in Candidate \cup {None}
    /\ workers \subseteq Worker
    /\ events \in Seq([is : UpdateEnds \cup InstallEnds, job : Job, game : Games])
    /\ jobs \in 0 .. MaxJobs /\ installed \subseteq Job

Converting == {w \in workers : w.kind \in {"update", "fix", "made"}}
Installing == {w \in workers : w.kind = "install"}
Pending(outcomes) == {i \in 1 .. Len(events) : events[i].is \in outcomes}

(***************************************************************************)
(* At most one update or batch runs, by whatever means the controls are    *)
(* reached: on_update_mod and on_fix_modlist look at the flag themselves.  *)
(***************************************************************************)
OneConversion == Cardinality(Converting) <= 1

(***************************************************************************)
(* One worker at a time while a dialog covers what is below it: an         *)
(* installation of a candidate and a replacement of installed containers   *)
(* never write the game together.                                          *)
(***************************************************************************)
OneJob == ~keyboard => Cardinality(workers) <= 1

(***************************************************************************)
(* In such a session, the flags that gate the controls are up exactly      *)
(* while their worker runs or its completion waits in the event queue.     *)
(***************************************************************************)
FlagsAgree ==
    ~keyboard /\ ~closed =>
    /\ updateRunning <=>
          Converting # {} \/ Pending(UpdateEnds) # {}
    /\ installRunning <=>
          Installing # {} \/ Pending(InstallEnds) # {}

(***************************************************************************)
(* The prompt speaks of the candidate that a Yes would install and of the  *)
(* folder it would be installed into, although the game folder of the      *)
(* window may have been changed and other jobs run since it was made.      *)
(***************************************************************************)
PromptIsForCandidate ==
    prompt => candidate # None /\ target = candidate.game

(***************************************************************************)
(* In such a session, a running installation is of the candidate the       *)
(* window still offers, in the folder it names.                            *)
(***************************************************************************)
InstallIsOfOffered ==
    ~keyboard => \A w \in Installing : w.of = candidate /\ w.game = target

(***************************************************************************)
(* In such a session, "Installed" is shown and Install to game withheld    *)
(* only when the current candidate has been installed.                     *)
(***************************************************************************)
InstalledIsTrue ==
    ~keyboard /\ installComplete => candidate # None /\ candidate.job \in installed

\* A job that runs gives the controls back, unless the window is closed.
JobsEnd ==
    /\ updateRunning ~> (~updateRunning \/ closed)
    /\ installRunning ~> (~installRunning \/ closed)
=============================================================================
