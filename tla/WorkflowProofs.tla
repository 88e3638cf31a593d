---------------------------- MODULE WorkflowProofs -------------------------
(***************************************************************************)
(* Safety of the workflow for any number of game folders and of jobs.  A   *)
(* job is accounted for by its worker and then by the closure the worker   *)
(* queued; the invariant says that there is at most one such token of a    *)
(* conversion (in every session) and of any job (in a session in which     *)
(* dialogs cover what is below them), and that the flags are up exactly    *)
(* while there is one.                                                     *)
(*                                                                         *)
(* Then the publication, which the worker of an update ends in, for every  *)
(* set of adapters and every number of edits of the selected mod.  Its     *)
(* invariant says, step by step, which items are in the output folder,     *)
(* which edition of the mod they were made from, and what is known of the  *)
(* runtime dependencies.                                                   *)
(***************************************************************************)
EXTENDS Workflow, Publication, FiniteSetTheorems, TLAPS

Event == [is : UpdateEnds \cup InstallEnds, job : Job, game : Games]

\* Closure i of the queue q ends a job of the kind that has these ends.
Waits(q, i, ends) == i \in 1 .. Len(q) /\ q[i].is \in ends

\* One token of the job while it runs, a worker of the group or a closure of
\* the queue, and none otherwise.
OneToken(running, group, q, ends) ==
    /\ \A v, w \in group : v = w
    /\ \A i, j \in Nat : Waits(q, i, ends) /\ Waits(q, j, ends) => i = j
    /\ \A w \in group : \A i \in Nat : ~Waits(q, i, ends)
    /\ group # {} => running
    /\ \A i \in Nat : Waits(q, i, ends) => running
    /\ running => group # {} \/ \E i \in Nat : Waits(q, i, ends)

Covered == ~closed /\ ~keyboard

Tokens ==
    /\ closed => workers = {} /\ events = <<>>
    /\ ~closed => OneToken(updateRunning, Converting, events, UpdateEnds)
    /\ Covered => OneToken(installRunning, Installing, events, InstallEnds)
    /\ Covered => ~(updateRunning /\ installRunning)
    /\ Covered /\ warning => ~updateRunning /\ ~installRunning

\* What the prompt and the button offer, from AppState to the closure.
Offered ==
    /\ \A w \in workers : w.kind = "made" => candidate = w.of /\ candidate.game = w.game
    /\ \A i \in Nat : Waits(events, i, {"candidate"}) =>
          candidate # None /\ candidate.game = events[i].game
    /\ installAvailable \/ prompt => candidate # None /\ target = candidate.game
    /\ ~closed /\ updateRunning => ~installAvailable /\ ~prompt

\* What an installation is of, and what its success is remembered for.
Installed ==
    ~keyboard =>
        /\ \A w \in Installing : w.of = candidate /\ w.game = target
        /\ \A i \in Nat : Waits(events, i, {"installed"}) =>
              candidate # None /\ candidate.job \in installed
        /\ installComplete => candidate # None /\ candidate.job \in installed
        /\ ~closed /\ updateRunning => ~installComplete

\* The inductive invariant.
IInv == TypeOK /\ Tokens /\ Offered /\ Installed

-----------------------------------------------------------------------------
(* One token: the five things that happen to it. *)

\* A closure put at the end of the queue.
LEMMA Appended ==
    ASSUME NEW q \in Seq(Event), NEW e \in Event, NEW ends
    PROVE  \A i \in Nat : Waits(Append(q, e), i, ends) <=>
              Waits(q, i, ends) \/ (i = Len(q) + 1 /\ e.is \in ends)
  BY DEF Waits

\* The closure at the head of the queue taken off.
LEMMA Delivered ==
    ASSUME NEW q \in Seq(Event), q # <<>>, NEW ends
    PROVE  /\ \A i \in Nat : Waits(Tail(q), i, ends) <=>
                 i \in Nat \ {0} /\ Waits(q, i + 1, ends)
           /\ Waits(q, 1, ends) <=> Head(q).is \in ends
  BY DEF Waits

\* What waits when the head is gone waited before, one place further.
LEMMA WaitedBefore ==
    ASSUME NEW q \in Seq(Event), q # <<>>, NEW ends
    PROVE  \A i \in Nat : Waits(Tail(q), i, ends) =>
              i + 1 \in Nat /\ Waits(q, i + 1, ends) /\ Tail(q)[i] = q[i + 1]
  BY DEF Waits

\* A job that does not run has no token.
LEMMA NoToken ==
    ASSUME NEW group, NEW q, NEW ends, OneToken(FALSE, group, q, ends)
    PROVE  group = {} /\ \A i \in Nat : ~Waits(q, i, ends)
  BY DEF OneToken

\* A job starts: its token is its worker.
LEMMA TokenStarts ==
    ASSUME NEW group, NEW q, NEW ends, NEW w, OneToken(FALSE, group, q, ends)
    PROVE  OneToken(TRUE, group \cup {w}, q, ends)
  BY NoToken DEF OneToken

\* The token passes to another worker.
LEMMA TokenPasses ==
    ASSUME NEW running, NEW group, NEW q, NEW ends, NEW w \in group, NEW v,
           OneToken(running, group, q, ends)
    PROVE  OneToken(running, (group \ {w}) \cup {v}, q, ends)
  BY DEF OneToken

\* The worker ends: the token passes to its closure.
LEMMA TokenQueued ==
    ASSUME NEW running, NEW group, NEW q \in Seq(Event), NEW ends, NEW w \in group,
           NEW e \in Event, e.is \in ends, OneToken(running, group, q, ends)
    PROVE  OneToken(running, group \ {w}, Append(q, e), ends)
  <1>1. Len(q) + 1 \in Nat
    OBVIOUS
  <1> QED
    BY <1>1, Appended DEF OneToken

\* A closure of another job is queued.
LEMMA OtherQueued ==
    ASSUME NEW running, NEW group, NEW q \in Seq(Event), NEW ends, NEW e \in Event,
           e.is \notin ends, OneToken(running, group, q, ends)
    PROVE  OneToken(running, group, Append(q, e), ends)
  BY Appended DEF OneToken

\* The closure runs: the token is gone.
LEMMA TokenDelivered ==
    ASSUME NEW running, NEW group, NEW q \in Seq(Event), NEW ends, q # <<>>,
           Head(q).is \in ends, OneToken(running, group, q, ends)
    PROVE  /\ OneToken(FALSE, group, Tail(q), ends)
           /\ running /\ group = {}
  <1>1. Waits(q, 1, ends)
    BY Delivered
  <1>2. \A i \in Nat : ~Waits(Tail(q), i, ends)
    BY <1>1, Delivered DEF OneToken
  <1> QED
    BY <1>1, <1>2 DEF OneToken

\* The closure of another job runs.
LEMMA OtherDelivered ==
    ASSUME NEW running, NEW group, NEW q \in Seq(Event), NEW ends, q # <<>>,
           Head(q).is \notin ends, OneToken(running, group, q, ends)
    PROVE  OneToken(running, group, Tail(q), ends)
  <1>1. \A i \in Nat : Waits(Tail(q), i, ends) => Waits(q, i + 1, ends) /\ i + 1 \in Nat
    BY Delivered
  <1>2. \A i \in Nat : Waits(q, i, ends) =>
           \E j \in Nat : i = j + 1 /\ Waits(Tail(q), j, ends)
    <2> TAKE i \in Nat
    <2> HAVE Waits(q, i, ends)
    <2>1. i # 1 /\ i # 0
      BY Delivered DEF Waits
    <2>2. PICK j \in Nat \ {0} : i = j + 1
      <3>1. i - 1 \in Nat \ {0} /\ i = (i - 1) + 1
        BY <2>1
      <3> QED
        BY <3>1
    <2>3. j \in Nat /\ Waits(q, j + 1, ends)
      BY <2>2
    <2>4. Waits(Tail(q), j, ends)
      BY <2>2, <2>3, Delivered
    <2> QED
      BY <2>2, <2>3, <2>4
  <1> QED
    BY <1>1, <1>2 DEF OneToken

-----------------------------------------------------------------------------
(* The first state, and what the actions share. *)

USE WorkflowAssumption

\* The window as it opens.
LEMMA InitEstablishes == Init => IInv
  <1> SUFFICES ASSUME Init
               PROVE  IInv
    OBVIOUS
  <1>1. TypeOK
    <2>1. events \in Seq([is : UpdateEnds \cup InstallEnds, job : Job, game : Games])
      BY DEF Init
    <2>2. 0 \in 0 .. MaxJobs
      OBVIOUS
    <2>3. /\ workers \subseteq Worker /\ installed \subseteq Job
          /\ candidate \in Candidate \cup {None}
          /\ jobs \in 0 .. MaxJobs /\ gamePath \in Games /\ target \in Games
      BY <2>2 DEF Init
    <2>4. /\ notice \in BOOLEAN /\ prompt \in BOOLEAN
          /\ warning \in BOOLEAN /\ risk \in BOOLEAN
          /\ updateRunning \in BOOLEAN /\ updateComplete \in BOOLEAN
          /\ installRunning \in BOOLEAN /\ installComplete \in BOOLEAN
          /\ installAvailable \in BOOLEAN
          /\ keyboard \in BOOLEAN /\ closed \in BOOLEAN
      BY DEF Init
    <2> QED
      BY <2>1, <2>3, <2>4 DEF TypeOK
  <1>2. \A ends : \A i \in Nat : ~Waits(events, i, ends)
    BY DEF Init, Waits
  <1>3. Tokens /\ Offered /\ Installed
    BY <1>2 DEF Init, Tokens, Offered, Installed, OneToken, Covered, Converting, Installing
  <1> QED
    BY <1>1, <1>3 DEF IInv

\* A candidate is not the absence of one.
LEMMA CandidateIsSome == \A c \in Candidate : c # None
  <1>1. \A c \in Candidate : c.job # 0
    BY DEF Candidate, Job
  <1>2. None.job = 0
    BY DEF None
  <1> QED
    BY <1>1, <1>2

\* What a worker has, by its kind.
LEMMA WorkerFields ==
    ASSUME NEW w \in Worker
    PROVE  /\ w.kind \in {"update", "fix", "made", "install"}
           /\ w.job \in Job /\ w.game \in Games
           /\ w.kind \in {"made", "install"} => w.of \in Candidate
  BY DEF Worker

\* The closures a worker may queue end a job of its kind.
LEMMA OutcomesEnd ==
    /\ \A kind \in {"update", "fix", "made"} : Outcomes[kind] \subseteq UpdateEnds
    /\ Outcomes["install"] = InstallEnds
    /\ \A kind \in {"update", "fix"} : "candidate" \notin Outcomes[kind]
    /\ UpdateEnds \cap InstallEnds = {}
    /\ "candidate" \in UpdateEnds /\ "installed" \in InstallEnds
  BY DEF Outcomes, UpdateEnds, InstallEnds

\* The controls that start no job.
Controls == \/ AcceptNotice \/ OpenPrompt \/ DismissPrompt \/ OpenWarning
            \/ ToggleRisk \/ CancelWarning \/ ChooseGame

\* Types, action by action.
LEMMA TypeStep == TypeOK /\ [Next]_vars => TypeOK'
  <1> SUFFICES ASSUME TypeOK, [Next]_vars
               PROVE  TypeOK'
    OBVIOUS
  <1> USE DEF dialogs, update, install, threads, session
  <1>1. CASE Controls
    <2>1. CASE AcceptNotice
      BY <2>1 DEF AcceptNotice, TypeOK
    <2>2. CASE OpenPrompt
      BY <2>2 DEF OpenPrompt, TypeOK
    <2>3. CASE DismissPrompt
      BY <2>3 DEF DismissPrompt, TypeOK
    <2>4. CASE OpenWarning
      BY <2>4 DEF OpenWarning, TypeOK
    <2>5. CASE ToggleRisk
      BY <2>5 DEF ToggleRisk, TypeOK
    <2>6. CASE CancelWarning
      BY <2>6 DEF CancelWarning, TypeOK
    <2>7. CASE ChooseGame
      BY <2>7 DEF ChooseGame, TypeOK
    <2> QED
      BY <1>1, <2>1, <2>2, <2>3, <2>4, <2>5, <2>6, <2>7 DEF Controls
  <1>2. ASSUME NEW w, w \in Worker, Start(w)
        PROVE  jobs' \in 0 .. MaxJobs /\ workers' \subseteq Worker
                  /\ events' = events /\ installed' = installed
    BY <1>2 DEF Start, TypeOK
  <1>3. jobs < MaxJobs => jobs + 1 \in Job
    BY DEF TypeOK, Job
  <1>4. CASE UpdateMod
    <2>1. jobs < MaxJobs
      BY <1>4 DEF UpdateMod, Start
    <2>2. [kind |-> "update", job |-> jobs + 1, game |-> gamePath] \in Worker
      BY <2>1, <1>3 DEF Worker, TypeOK
    <2> QED
      BY <1>4, <1>2, <2>2 DEF UpdateMod, Reset, TypeOK
  <1>5. CASE FixModlist
    <2>1. jobs < MaxJobs
      BY <1>5 DEF FixModlist, Start
    <2>2. [kind |-> "fix", job |-> jobs + 1, game |-> gamePath] \in Worker
      BY <2>1, <1>3 DEF Worker, TypeOK
    <2> QED
      BY <1>5, <1>2, <2>2 DEF FixModlist, Reset, TypeOK
  <1>6. CASE InstallOutput
    <2>1. CASE candidate = None
      BY <1>6, <2>1 DEF InstallOutput, TypeOK
    <2>2. CASE candidate # None
      <3>1. jobs < MaxJobs /\ candidate \in Candidate
        BY <1>6, <2>2 DEF InstallOutput, Start, TypeOK
      <3>2. candidate.game \in Games
        BY <3>1 DEF Candidate
      <3>3. [kind |-> "install", job |-> jobs + 1, game |-> candidate.game,
             of |-> candidate] \in Worker
        BY <3>1, <3>2, <1>3 DEF Worker
      <3> QED
        BY <1>6, <2>2, <1>2, <3>3 DEF InstallOutput, TypeOK
    <2> QED
      BY <2>1, <2>2
  <1>7. CASE StoreCandidate
    <2>1. PICK w \in workers, layout \in BOOLEAN :
             LET c == [job |-> w.job, game |-> w.game, layout |-> layout] IN
                /\ candidate' = c
                /\ workers' = (workers \ {w}) \cup
                      {[kind |-> "made", job |-> w.job, game |-> w.game, of |-> c]}
      BY <1>7 DEF StoreCandidate
    <2>2. w \in Worker /\ w.job \in Job /\ w.game \in Games
      BY WorkerFields DEF TypeOK
    <2>3. candidate' \in Candidate
      BY <2>1, <2>2 DEF Candidate
    <2>4. [kind |-> "made", job |-> w.job, game |-> w.game, of |-> candidate'] \in Worker
      BY <2>2, <2>3 DEF Worker
    <2>5. workers' \subseteq Worker
      BY <2>1, <2>4 DEF TypeOK
    <2> QED
      BY <1>7, <2>3, <2>5 DEF StoreCandidate, TypeOK
  <1>8. CASE Finish
    <2>1. PICK w \in workers : \E outcome \in Outcomes[w.kind] :
             /\ workers' = workers \ {w}
             /\ events' = Append(events, [is |-> outcome, job |-> w.job, game |-> w.game])
             /\ installed' = IF outcome = "installed" THEN installed \cup {w.of.job}
                                                      ELSE installed
      BY <1>8 DEF Finish
    <2>2. PICK outcome \in Outcomes[w.kind] :
             /\ workers' = workers \ {w}
             /\ events' = Append(events, [is |-> outcome, job |-> w.job, game |-> w.game])
             /\ installed' = IF outcome = "installed" THEN installed \cup {w.of.job}
                                                      ELSE installed
      BY <2>1
    <2>3. w \in Worker /\ w.job \in Job /\ w.game \in Games
      BY WorkerFields DEF TypeOK
    <2>4. outcome \in UpdateEnds \cup InstallEnds
      BY <2>3, WorkerFields, OutcomesEnd
    <2>5. outcome = "installed" => w.of.job \in Job
      <3> HAVE outcome = "installed"
      <3>1. w.kind = "install"
        BY <2>3, WorkerFields, OutcomesEnd
      <3> QED
        BY <3>1, <2>3, WorkerFields DEF Candidate
    <2>6. events' \in Seq([is : UpdateEnds \cup InstallEnds, job : Job, game : Games])
      BY <2>2, <2>3, <2>4 DEF TypeOK
    <2> QED
      BY <1>8, <2>2, <2>5, <2>6 DEF Finish, TypeOK
  <1>9. CASE Deliver
    <2>1. events \in Seq(Event) /\ events # <<>> /\ events' = Tail(events)
      BY <1>9 DEF Deliver, TypeOK, Event
    <2>2. events' \in Seq(Event) /\ Head(events) \in Event
      BY <2>1
    <2>0. Head(events).game \in Games
      BY <2>2 DEF Event
    <2>3. CASE CandidateCreated
      BY <1>9, <2>2, <2>0, <2>3 DEF Deliver, CandidateCreated, TypeOK, Event
    <2>4. CASE UpdateStopped
      BY <1>9, <2>2, <2>0, <2>4 DEF Deliver, UpdateStopped, TypeOK, Event
    <2>5. CASE FixEnded
      BY <1>9, <2>2, <2>0, <2>5 DEF Deliver, FixEnded, TypeOK, Event
    <2>6. CASE InstallEnded
      BY <1>9, <2>2, <2>0, <2>6 DEF Deliver, InstallEnded, TypeOK, Event
    <2> QED
      BY <1>9, <2>3, <2>4, <2>5, <2>6 DEF Deliver
  <1>10. CASE Close
    <2>1. <<>> \in Seq([is : UpdateEnds \cup InstallEnds, job : Job, game : Games])
      OBVIOUS
    <2> QED
      BY <1>10, <2>1 DEF Close, TypeOK
  <1>11. CASE UNCHANGED vars
    BY <1>11 DEF vars, TypeOK
  <1> QED
    BY <1>1, <1>4, <1>5, <1>6, <1>7, <1>8, <1>9, <1>10, <1>11 DEF Next, User, Controls

(***************************************************************************)
(* The tokens, action by action.                                           *)
(***************************************************************************)
LEMMA TokensStep == TypeOK /\ Tokens /\ [Next]_vars => Tokens'
  <1> SUFFICES ASSUME TypeOK, Tokens, [Next]_vars
               PROVE  Tokens'
    OBVIOUS
  <1> USE DEF dialogs, update, install, threads, session
  <1>q. events \in Seq(Event)
    BY DEF TypeOK, Event
  <1>b. /\ updateRunning \in BOOLEAN /\ installRunning \in BOOLEAN
        /\ warning \in BOOLEAN /\ prompt \in BOOLEAN /\ notice \in BOOLEAN
        /\ keyboard \in BOOLEAN /\ closed \in BOOLEAN
    BY DEF TypeOK
  <1>t. ~keyboard =>
           /\ Reach("main") => ~closed /\ ~warning /\ ~prompt /\ ~notice
           /\ Reach("prompt") => ~closed /\ ~warning
    BY <1>b DEF Reach, Top
  \* Nothing but dialogs changes, and no warning is opened over a job.
  <1>same. ASSUME UNCHANGED <<keyboard, closed, updateRunning, installRunning,
                              workers, events>>,
                  Covered /\ warning' => ~updateRunning /\ ~installRunning
           PROVE  Tokens'
    BY <1>same DEF Tokens, Covered, Converting, Installing
  <1>1. CASE Controls
    <2>1. CASE AcceptNotice
      BY <2>1, <1>same DEF AcceptNotice, Tokens
    <2>2. CASE OpenPrompt
      BY <2>2, <1>same DEF OpenPrompt, Tokens
    <2>3. CASE DismissPrompt
      BY <2>3, <1>same DEF DismissPrompt, Tokens
    <2>4. CASE OpenWarning
      BY <2>4, <1>same DEF OpenWarning, CanFix, CanUpdate
    <2>5. CASE ToggleRisk
      BY <2>5, <1>same DEF ToggleRisk, Tokens
    <2>6. CASE CancelWarning
      BY <2>6, <1>same DEF CancelWarning, Tokens
    <2>7. CASE ChooseGame
      BY <2>7, <1>same DEF ChooseGame, Tokens
    <2> QED
      BY <1>1, <2>1, <2>2, <2>3, <2>4, <2>5, <2>6, <2>7 DEF Controls
  \* A conversion starts: there is no token of one, and none of an
  \* installation where dialogs cover.
  <1>go. ASSUME NEW w, w.kind \in {"update", "fix"}, Start(w), Reset,
                UNCHANGED session, ~closed, ~updateRunning,
                Covered => ~installRunning /\ ~warning'
         PROVE  Tokens'
    <2>1. OneToken(FALSE, Converting, events, UpdateEnds)
      BY <1>go, <1>b DEF Tokens
    <2>2. Converting' = Converting \cup {w} /\ Installing' = Installing
      BY <1>go DEF Start, Converting, Installing
    <2>3. OneToken(TRUE, Converting', events, UpdateEnds)
      BY <2>1, <2>2, TokenStarts
    <2>4. Covered => OneToken(FALSE, Installing', events, InstallEnds)
      BY <1>go, <1>b, <2>2 DEF Tokens
    <2>5. /\ updateRunning' = TRUE /\ installRunning' = FALSE /\ events' = events
          /\ keyboard' = keyboard /\ closed' = closed
      BY <1>go DEF Reset, Start
    <2>6. Covered' => Covered /\ ~warning'
      BY <1>go, <2>5 DEF Covered
    <2>7. OneToken(updateRunning', Converting', events', UpdateEnds)
      BY <2>3, <2>5
    <2>8. Covered' => OneToken(installRunning', Installing', events', InstallEnds)
      BY <2>4, <2>5, <2>6
    <2> QED
      BY <1>go, <2>5, <2>6, <2>7, <2>8 DEF Tokens
  <1>2. CASE UpdateMod
    <2> DEFINE w == [kind |-> "update", job |-> jobs + 1, game |-> gamePath]
    <2>1. w.kind \in {"update", "fix"}
      OBVIOUS
    <2>2. Start(w) /\ Reset /\ UNCHANGED session /\ warning' = warning
      BY <1>2 DEF UpdateMod
    <2>3. ~closed /\ ~updateRunning /\ (Covered => ~installRunning /\ ~warning')
      BY <1>2, <1>t, <2>2 DEF UpdateMod, CanUpdate, Reach, Covered
    <2> HIDE DEF w
    <2> QED
      BY <2>1, <2>2, <2>3, <1>go
  <1>3. CASE FixModlist
    <2> DEFINE w == [kind |-> "fix", job |-> jobs + 1, game |-> gamePath]
    <2>1. w.kind \in {"update", "fix"}
      OBVIOUS
    <2>2. Start(w) /\ Reset /\ UNCHANGED session /\ warning' = FALSE
      BY <1>3 DEF FixModlist
    <2>3. ~closed /\ ~updateRunning /\ (Covered => ~installRunning /\ ~warning')
      BY <1>3, <2>2 DEF FixModlist, Reach, Covered, Tokens
    <2> HIDE DEF w
    <2> QED
      BY <2>1, <2>2, <2>3, <1>go
  <1>4. CASE InstallOutput
    <2>1. CASE candidate = None
      <3>1. UNCHANGED <<keyboard, closed, updateRunning, installRunning,
                        workers, events, warning>>
        BY <1>4, <2>1 DEF InstallOutput
      <3> QED
        BY <3>1, <1>same DEF Tokens
    <2>2. CASE candidate # None
      <3> DEFINE w == [kind |-> "install", job |-> jobs + 1,
                       game |-> candidate.game, of |-> candidate]
      <3>1. /\ Start(w) /\ installRunning' = TRUE /\ ~installRunning /\ ~updateRunning
            /\ UNCHANGED <<keyboard, closed, updateRunning, warning>> /\ ~closed
            /\ Covered => ~warning
        BY <1>4, <2>2, <1>t DEF InstallOutput, Reach, Covered
      <3>2. w.kind = "install"
        OBVIOUS
      <3> HIDE DEF w
      <3>3. Installing' = Installing \cup {w} /\ Converting' = Converting
               /\ events' = events
        BY <3>1, <3>2 DEF Start, Converting, Installing
      <3>4. Covered => OneToken(TRUE, Installing', events, InstallEnds)
        <4>1. Covered => OneToken(FALSE, Installing, events, InstallEnds)
          BY <3>1, <1>b DEF Tokens
        <4> QED
          BY <4>1, <3>3, TokenStarts
      <3>5. Covered' => Covered
        BY <3>1 DEF Covered
      <3> QED
        BY <3>1, <3>3, <3>4, <3>5 DEF Tokens
    <2> QED
      BY <2>1, <2>2
  <1>5. CASE StoreCandidate
    <2>1. PICK w \in workers, layout \in BOOLEAN :
             /\ w.kind = "update"
             /\ workers' = (workers \ {w}) \cup
                   {[kind |-> "made", job |-> w.job, game |-> w.game,
                     of |-> [job |-> w.job, game |-> w.game, layout |-> layout]]}
      BY <1>5 DEF StoreCandidate
    <2> DEFINE v == [kind |-> "made", job |-> w.job, game |-> w.game,
                     of |-> [job |-> w.job, game |-> w.game, layout |-> layout]]
    <2>2. v.kind = "made" /\ workers' = (workers \ {w}) \cup {v}
      BY <2>1
    <2> HIDE DEF v
    <2>3. w \in Converting /\ Converting' = (Converting \ {w}) \cup {v}
             /\ Installing' = Installing
      BY <2>1, <2>2 DEF Converting, Installing
    <2>4. UNCHANGED <<keyboard, closed, updateRunning, installRunning, events, warning>>
      BY <1>5 DEF StoreCandidate
    <2>5. ~closed
      BY DEF Tokens
    <2>6. OneToken(updateRunning, Converting', events, UpdateEnds)
      BY <2>3, <2>5, TokenPasses DEF Tokens
    <2> QED
      BY <2>3, <2>4, <2>5, <2>6 DEF Tokens, Covered
  <1>6. CASE Finish
    <2>1. PICK w \in workers : \E outcome \in Outcomes[w.kind] :
             /\ workers' = workers \ {w}
             /\ events' = Append(events, [is |-> outcome, job |-> w.job, game |-> w.game])
      BY <1>6 DEF Finish
    <2>2. PICK outcome \in Outcomes[w.kind] :
             events' = Append(events, [is |-> outcome, job |-> w.job, game |-> w.game])
      BY <2>1
    <2> DEFINE e == [is |-> outcome, job |-> w.job, game |-> w.game]
    <2>3. w \in Worker
      BY DEF TypeOK
    <2>4. w.kind \in {"update", "fix", "made", "install"} /\ w.job \in Job /\ w.game \in Games
      BY <2>3, WorkerFields
    <2>5. outcome \in UpdateEnds \cup InstallEnds
      BY <2>4, OutcomesEnd
    <2>6. e \in Event /\ e.is = outcome /\ events' = Append(events, e)
      BY <2>2, <2>4, <2>5 DEF Event
    <2> HIDE DEF e
    <2>7. UNCHANGED <<keyboard, closed, updateRunning, installRunning, warning>>
      BY <1>6 DEF Finish
    <2>8. ~closed /\ workers' = workers \ {w}
      BY <2>1 DEF Tokens
    <2>9. CASE w.kind # "install"
      <3>1. w \in Converting /\ Converting' = Converting \ {w} /\ Installing' = Installing
        BY <2>4, <2>8, <2>9 DEF Converting, Installing
      <3>2. outcome \in UpdateEnds /\ outcome \notin InstallEnds
        BY <2>4, <2>9, OutcomesEnd
      <3>3. OneToken(updateRunning, Converting', events', UpdateEnds)
        BY <3>1, <3>2, <2>6, <2>8, <1>q, TokenQueued DEF Tokens
      <3>4. Covered => OneToken(installRunning, Installing', events', InstallEnds)
        BY <3>1, <3>2, <2>6, <1>q, OtherQueued DEF Tokens
      <3> QED
        BY <3>3, <3>4, <2>7, <2>8 DEF Tokens, Covered
    <2>10. CASE w.kind = "install"
      <3>1. w \in Installing /\ Installing' = Installing \ {w} /\ Converting' = Converting
        BY <2>8, <2>10 DEF Converting, Installing
      <3>2. outcome \in InstallEnds /\ outcome \notin UpdateEnds
        BY <2>10, OutcomesEnd
      <3>3. OneToken(updateRunning, Converting', events', UpdateEnds)
        BY <3>1, <3>2, <2>6, <2>8, <1>q, OtherQueued DEF Tokens
      <3>4. Covered => OneToken(installRunning, Installing', events', InstallEnds)
        BY <3>1, <3>2, <2>6, <1>q, TokenQueued DEF Tokens
      <3> QED
        BY <3>3, <3>4, <2>7, <2>8 DEF Tokens, Covered
    <2> QED
      BY <2>9, <2>10
  <1>7. CASE Deliver
    <2>1. /\ ~closed /\ events # <<>> /\ events' = Tail(events)
          /\ UNCHANGED <<keyboard, closed, workers, warning>>
      BY <1>7 DEF Deliver
    <2>2. Converting' = Converting /\ Installing' = Installing
      BY <2>1 DEF Converting, Installing
    <2>3. Covered' = Covered
      BY <2>1 DEF Covered
    <2>4. CASE Head(events).is \in UpdateEnds /\ updateRunning' = FALSE
                 /\ (Covered => installRunning' = FALSE \/ installRunning' = installRunning)
      <3>1. OneToken(FALSE, Converting', events', UpdateEnds) /\ updateRunning
        BY <2>1, <2>2, <2>4, <1>q, TokenDelivered DEF Tokens
      <3>2. Head(events).is \notin InstallEnds
        BY <2>4, OutcomesEnd
      <3>3. Covered => ~installRunning
        BY <3>1 DEF Tokens
      <3>4. Covered => OneToken(FALSE, Installing', events', InstallEnds)
        BY <3>2, <3>3, <2>1, <2>2, <1>q, <1>b, OtherDelivered DEF Tokens
      <3>5. Covered => installRunning' = FALSE
        BY <2>4, <3>3, <1>b
      <3> QED
        BY <2>1, <2>3, <2>4, <3>1, <3>4, <3>5 DEF Tokens
    <2>5. CASE Head(events).is \in InstallEnds /\ installRunning' = FALSE
                 /\ updateRunning' = updateRunning
      <3>1. Covered => OneToken(FALSE, Installing', events', InstallEnds) /\ installRunning
        BY <2>1, <2>2, <2>5, <1>q, TokenDelivered DEF Tokens
      <3>2. Head(events).is \notin UpdateEnds
        BY <2>5, OutcomesEnd
      <3>3. OneToken(updateRunning, Converting', events', UpdateEnds)
        BY <3>2, <2>1, <2>2, <1>q, OtherDelivered DEF Tokens
      <3> QED
        BY <2>1, <2>3, <2>5, <3>1, <3>3 DEF Tokens
    <2>6. CASE CandidateCreated
      BY <2>4, <2>6 DEF CandidateCreated, Ended, UpdateEnds
    <2>7. CASE UpdateStopped
      BY <2>4, <2>7 DEF UpdateStopped, Ended, UpdateEnds
    <2>8. CASE FixEnded
      BY <2>4, <2>8 DEF FixEnded, Ended, UpdateEnds
    <2>9. CASE InstallEnded
      BY <2>5, <2>9 DEF InstallEnded, Ended, InstallEnds
    <2> QED
      BY <1>7, <2>6, <2>7, <2>8, <2>9 DEF Deliver
  <1>8. CASE Close
    BY <1>8 DEF Close, Tokens, Covered
  <1>9. CASE UNCHANGED vars
    BY <1>9, <1>same DEF vars, Tokens
  <1> QED
    BY <1>1, <1>2, <1>3, <1>4, <1>5, <1>6, <1>7, <1>8, <1>9 DEF Next, User, Controls

(***************************************************************************)
(* What the window offers, action by action.                               *)
(***************************************************************************)
LEMMA OfferedStep == TypeOK /\ Tokens /\ Offered /\ [Next]_vars => Offered'
  <1> SUFFICES ASSUME TypeOK, Tokens, Offered, [Next]_vars
               PROVE  Offered'
    OBVIOUS
  <1> USE DEF dialogs, update, install, threads, session
  <1>q. events \in Seq(Event)
    BY DEF TypeOK, Event
  <1>b. /\ updateRunning \in BOOLEAN /\ prompt \in BOOLEAN
        /\ installAvailable \in BOOLEAN /\ closed \in BOOLEAN
    BY DEF TypeOK
  \* Where no conversion runs there is neither a worker nor a closure of one.
  <1>idle. ~closed /\ ~updateRunning =>
              /\ \A w \in workers : w.kind # "made"
              /\ \A i \in Nat : ~Waits(events, i, {"candidate"})
    <2> SUFFICES ASSUME ~closed, ~updateRunning
                 PROVE  /\ \A w \in workers : w.kind # "made"
                        /\ \A i \in Nat : ~Waits(events, i, {"candidate"})
      OBVIOUS
    <2>1. OneToken(FALSE, Converting, events, UpdateEnds)
      BY <1>b DEF Tokens
    <2>2. Converting = {} /\ \A i \in Nat : ~Waits(events, i, UpdateEnds)
      BY <2>1, NoToken
    <2> QED
      BY <2>2, OutcomesEnd DEF Converting, Waits
  <1>same. ASSUME UNCHANGED <<candidate, target, workers, events, closed, updateRunning,
                              installAvailable>>,
                  prompt' => prompt \/ (installAvailable /\ ~updateRunning)
           PROVE  Offered'
    BY <1>same DEF Offered
  <1>1. CASE Controls
    <2>1. UNCHANGED <<candidate, target, workers, events, closed, updateRunning,
                      installAvailable>>
      BY <1>1 DEF Controls, AcceptNotice, OpenPrompt, DismissPrompt, OpenWarning,
         ToggleRisk, CancelWarning, ChooseGame
    <2>2. prompt' => prompt \/ (installAvailable /\ ~updateRunning)
      BY <1>1 DEF Controls, AcceptNotice, OpenPrompt, DismissPrompt, OpenWarning,
         ToggleRisk, CancelWarning, ChooseGame, CanInstall
    <2> QED
      BY <2>1, <2>2, <1>same
  <1>go. ASSUME NEW w, w.kind \in {"update", "fix"}, Start(w), Reset, UNCHANGED session,
                ~closed, ~updateRunning
         PROVE  Offered'
    <2>1. /\ workers' = workers \cup {w} /\ events' = events
          /\ installAvailable' = FALSE /\ prompt' = FALSE
      BY <1>go DEF Start, Reset
    <2> QED
      BY <2>1, <1>go, <1>idle DEF Offered
  <1>2. CASE UpdateMod
    <2> DEFINE w == [kind |-> "update", job |-> jobs + 1, game |-> gamePath]
    <2>1. w.kind \in {"update", "fix"}
      OBVIOUS
    <2>2. Start(w) /\ Reset /\ UNCHANGED session /\ ~closed /\ ~updateRunning
      BY <1>2 DEF UpdateMod, Reach
    <2> HIDE DEF w
    <2> QED
      BY <2>1, <2>2, <1>go
  <1>3. CASE FixModlist
    <2> DEFINE w == [kind |-> "fix", job |-> jobs + 1, game |-> gamePath]
    <2>1. w.kind \in {"update", "fix"}
      OBVIOUS
    <2>2. Start(w) /\ Reset /\ UNCHANGED session /\ ~closed /\ ~updateRunning
      BY <1>3 DEF FixModlist, Reach
    <2> HIDE DEF w
    <2> QED
      BY <2>1, <2>2, <1>go
  <1>4. CASE InstallOutput
    <2>1. /\ UNCHANGED <<candidate, target, events, closed, updateRunning>>
          /\ ~prompt' /\ (installAvailable' => installAvailable)
      BY <1>4 DEF InstallOutput, Start
    <2>2. \A w \in workers' : w \in workers \/ w.kind = "install"
      BY <1>4 DEF InstallOutput, Start
    <2>3. \A w \in workers' : w.kind = "made" => w \in workers
      BY <2>2
    <2> QED
      BY <2>1, <2>3 DEF Offered
  <1>5. CASE StoreCandidate
    <2>1. PICK w \in workers, layout \in BOOLEAN :
             /\ w.kind = "update"
             /\ candidate' = [job |-> w.job, game |-> w.game, layout |-> layout]
             /\ workers' = (workers \ {w}) \cup
                   {[kind |-> "made", job |-> w.job, game |-> w.game, of |-> candidate']}
      BY <1>5 DEF StoreCandidate
    <2>2. w \in Converting /\ ~closed
      BY <2>1 DEF Converting, Tokens
    <2>3. OneToken(updateRunning, Converting, events, UpdateEnds)
      BY <2>2 DEF Tokens
    <2>4. \A v \in workers : v.kind = "made" => FALSE
      <3>1. \A v \in Converting : v = w
        BY <2>2, <2>3 DEF OneToken
      <3> QED
        BY <3>1, <2>1 DEF Converting
    <2>5. \A i \in Nat : ~Waits(events, i, {"candidate"})
      <3>1. \A i \in Nat : ~Waits(events, i, UpdateEnds)
        BY <2>2, <2>3 DEF OneToken
      <3> QED
        BY <3>1, OutcomesEnd DEF Waits
    <2>6. updateRunning
      BY <2>2, <2>3, <1>b DEF OneToken
    <2>7. UNCHANGED <<events, closed, updateRunning, installAvailable, prompt, target>>
      BY <1>5 DEF StoreCandidate
    <2>8. \A v \in workers' : v.kind = "made" =>
             candidate' = v.of /\ candidate'.game = v.game
      BY <2>1, <2>4
    <2> QED
      BY <2>2, <2>5, <2>6, <2>7, <2>8 DEF Offered
  <1>6. CASE Finish
    <2>1. PICK w \in workers : \E outcome \in Outcomes[w.kind] :
             /\ workers' = workers \ {w}
             /\ events' = Append(events, [is |-> outcome, job |-> w.job, game |-> w.game])
      BY <1>6 DEF Finish
    <2>2. PICK outcome \in Outcomes[w.kind] :
             events' = Append(events, [is |-> outcome, job |-> w.job, game |-> w.game])
      BY <2>1
    <2> DEFINE e == [is |-> outcome, job |-> w.job, game |-> w.game]
    <2>3. w \in Worker
      BY DEF TypeOK
    <2>4. w.kind \in {"update", "fix", "made", "install"} /\ w.job \in Job /\ w.game \in Games
             /\ (w.kind = "made" => w.of \in Candidate)
      BY <2>3, WorkerFields
    <2>5. outcome \in UpdateEnds \cup InstallEnds
      BY <2>4, OutcomesEnd
    <2>6. e \in Event /\ e.is = outcome /\ e.game = w.game /\ events' = Append(events, e)
      BY <2>2, <2>4, <2>5 DEF Event
    <2> HIDE DEF e
    <2>7. UNCHANGED <<closed, updateRunning, installAvailable, prompt, target, candidate>>
      BY <1>6 DEF Finish
    <2>8. outcome = "candidate" => candidate # None /\ candidate.game = e.game
      <3> HAVE outcome = "candidate"
      <3>1. w.kind = "made"
        BY <2>4, OutcomesEnd
      <3> QED
        BY <3>1, <2>1, <2>4, <2>6, CandidateIsSome DEF Offered
    <2>9. \A i \in Nat : Waits(events', i, {"candidate"}) =>
             candidate # None /\ candidate.game = events'[i].game
      <3> TAKE i \in Nat
      <3> HAVE Waits(events', i, {"candidate"})
      <3>1. CASE Waits(events, i, {"candidate"})
        <4>1. events'[i] = events[i]
          BY <3>1, <2>6, <1>q DEF Waits
        <4> QED
          BY <3>1, <4>1 DEF Offered
      <3>2. CASE i = Len(events) + 1 /\ e.is \in {"candidate"}
        <4>1. events'[i] = e
          BY <3>2, <2>6, <1>q
        <4> QED
          BY <3>2, <4>1, <2>6, <2>8
      <3> QED
        BY <3>1, <3>2, <2>6, <1>q, Appended
    <2> QED
      BY <2>1, <2>7, <2>9 DEF Offered
  <1>7. CASE Deliver
    <2>1. /\ ~closed /\ events # <<>> /\ events' = Tail(events)
          /\ UNCHANGED <<closed, workers, candidate>>
      BY <1>7 DEF Deliver
    <2>2. \A i \in Nat : Waits(events', i, {"candidate"}) =>
             candidate # None /\ candidate.game = events'[i].game
      <3>1. \A i \in Nat : Waits(Tail(events), i, {"candidate"}) =>
               /\ i + 1 \in Nat /\ Waits(events, i + 1, {"candidate"})
               /\ Tail(events)[i] = events[i + 1]
        BY <2>1, <1>q, WaitedBefore
      <3>2. \A i \in Nat : Waits(Tail(events), i, {"candidate"}) =>
               candidate # None /\ candidate.game = Tail(events)[i].game
        BY <3>1 DEF Offered
      <3> QED
        BY <3>2, <2>1
    <2>3. CASE CandidateCreated
      <3>1. Waits(events, 1, {"candidate"}) /\ Head(events) = events[1]
        BY <2>1, <2>3, <1>q, Delivered DEF CandidateCreated, Ended
      <3>2. candidate # None /\ candidate.game = Head(events).game
        BY <3>1 DEF Offered
      <3> QED
        BY <2>1, <2>2, <2>3, <3>2 DEF CandidateCreated, Offered
    <2>4. CASE UpdateStopped
      BY <2>1, <2>2, <2>4 DEF UpdateStopped, Offered
    <2>5. CASE FixEnded
      BY <2>1, <2>2, <2>5 DEF FixEnded, Offered
    <2>6. CASE InstallEnded
      BY <2>1, <2>2, <2>6 DEF InstallEnded, Offered
    <2> QED
      BY <1>7, <2>3, <2>4, <2>5, <2>6 DEF Deliver
  <1>8. CASE Close
    <2>1. \A i \in Nat : ~Waits(<<>>, i, {"candidate"})
      BY DEF Waits
    <2> QED
      BY <1>8, <2>1 DEF Close, Offered
  <1>9. CASE UNCHANGED vars
    BY <1>9, <1>same DEF vars
  <1> QED
    BY <1>1, <1>2, <1>3, <1>4, <1>5, <1>6, <1>7, <1>8, <1>9 DEF Next, User, Controls

\* Whether focus reaches below a dialog does not change in a session.
LEMMA KeyboardStays == [Next]_vars => keyboard' = keyboard
  <1> SUFFICES ASSUME [Next]_vars
               PROVE  keyboard' = keyboard
    OBVIOUS
  <1>1. CASE Controls
    BY <1>1 DEF Controls, AcceptNotice, OpenPrompt, DismissPrompt, OpenWarning,
       ToggleRisk, CancelWarning, ChooseGame, session
  <1>2. CASE UpdateMod \/ FixModlist \/ InstallOutput
    BY <1>2 DEF UpdateMod, FixModlist, InstallOutput, session
  <1>3. CASE StoreCandidate \/ Finish \/ Deliver \/ Close
    BY <1>3 DEF StoreCandidate, Finish, Deliver, Close, session
  <1>4. CASE UNCHANGED vars
    BY <1>4 DEF vars, session
  <1> QED
    BY <1>1, <1>2, <1>3, <1>4 DEF Next, User, Controls

(***************************************************************************)
(* What is installed, action by action.                                    *)
(***************************************************************************)
LEMMA InstalledStep ==
    TypeOK /\ Tokens /\ Offered /\ Installed /\ [Next]_vars => Installed'
  <1> SUFFICES ASSUME TypeOK, Tokens, Offered, Installed, [Next]_vars, ~keyboard
               PROVE  /\ \A w \in Installing' : w.of = candidate' /\ w.game = target'
                      /\ \A i \in Nat : Waits(events', i, {"installed"}) =>
                            candidate' # None /\ candidate'.job \in installed'
                      /\ installComplete' =>
                            candidate' # None /\ candidate'.job \in installed'
                      /\ ~closed' /\ updateRunning' => ~installComplete'
    BY KeyboardStays DEF Installed
  <1> USE DEF dialogs, update, install, threads, session
  <1>q. events \in Seq(Event)
    BY DEF TypeOK, Event
  <1>b. /\ updateRunning \in BOOLEAN /\ installRunning \in BOOLEAN
        /\ installComplete \in BOOLEAN /\ warning \in BOOLEAN /\ prompt \in BOOLEAN
        /\ notice \in BOOLEAN /\ keyboard \in BOOLEAN /\ closed \in BOOLEAN
    BY DEF TypeOK
  <1>i. /\ \A w \in Installing : w.of = candidate /\ w.game = target
        /\ \A i \in Nat : Waits(events, i, {"installed"}) =>
              candidate # None /\ candidate.job \in installed
        /\ installComplete => candidate # None /\ candidate.job \in installed
        /\ ~closed /\ updateRunning => ~installComplete
    BY DEF Installed
  \* Where no installation runs there is neither a worker nor a closure of one.
  <1>idle. ~closed /\ ~installRunning =>
              /\ Installing = {}
              /\ \A i \in Nat : ~Waits(events, i, {"installed"})
    <2> SUFFICES ASSUME ~closed, ~installRunning
                 PROVE  /\ Installing = {}
                        /\ \A i \in Nat : ~Waits(events, i, {"installed"})
      OBVIOUS
    <2>1. OneToken(FALSE, Installing, events, InstallEnds)
      BY <1>b DEF Tokens, Covered
    <2>2. Installing = {} /\ \A i \in Nat : ~Waits(events, i, InstallEnds)
      BY <2>1, NoToken
    <2> QED
      BY <2>2, OutcomesEnd DEF Waits
  <1>1. CASE Controls
    <2>1. UNCHANGED <<candidate, target, workers, events, closed, updateRunning,
                      installComplete, installed>>
      BY <1>1 DEF Controls, AcceptNotice, OpenPrompt, DismissPrompt, OpenWarning,
         ToggleRisk, CancelWarning, ChooseGame
    <2> QED
      BY <2>1, <1>i DEF Installing
  <1>2. CASE UpdateMod
    <2> DEFINE w == [kind |-> "update", job |-> jobs + 1, game |-> gamePath]
    <2>1. w.kind # "install"
      OBVIOUS
    <2>2. /\ workers' = workers \cup {w} /\ events' = events
          /\ installComplete' = FALSE
      BY <1>2 DEF UpdateMod, Start, Reset
    <2>3. ~closed /\ ~installRunning
      BY <1>2 DEF UpdateMod, Reach, CanUpdate
    <2> HIDE DEF w
    <2>4. Installing' = {}
      BY <2>1, <2>2, <2>3, <1>idle DEF Installing
    <2> QED
      BY <2>2, <2>3, <2>4, <1>idle
  <1>3. CASE FixModlist
    <2> DEFINE w == [kind |-> "fix", job |-> jobs + 1, game |-> gamePath]
    <2>1. w.kind # "install"
      OBVIOUS
    <2>2. /\ workers' = workers \cup {w} /\ events' = events
          /\ installComplete' = FALSE
      BY <1>3 DEF FixModlist, Start, Reset
    <2>3. ~closed /\ ~installRunning
      BY <1>3 DEF FixModlist, Reach, Tokens, Covered
    <2> HIDE DEF w
    <2>4. Installing' = {}
      BY <2>1, <2>2, <2>3, <1>idle DEF Installing
    <2> QED
      BY <2>2, <2>3, <2>4, <1>idle
  <1>4. CASE InstallOutput
    <2>1. /\ ~closed /\ prompt /\ ~updateRunning /\ ~installRunning
          /\ UNCHANGED <<candidate, target, events, closed, updateRunning, installed>>
      BY <1>4 DEF InstallOutput, Reach, Start
    <2>2. candidate # None /\ target = candidate.game
      BY <2>1 DEF Offered
    <2> DEFINE w == [kind |-> "install", job |-> jobs + 1,
                     game |-> candidate.game, of |-> candidate]
    <2>3. w.of = candidate /\ w.game = candidate.game
      OBVIOUS
    <2>4. installComplete' = FALSE /\ workers' = workers \cup {w}
      BY <1>4, <2>2 DEF InstallOutput, Start
    <2> HIDE DEF w
    <2>5. \A v \in Installing' : v = w
      BY <2>1, <2>4, <1>idle DEF Installing
    <2> QED
      BY <2>1, <2>2, <2>3, <2>4, <2>5, <1>idle
  <1>5. CASE StoreCandidate
    <2>1. PICK w \in workers, layout \in BOOLEAN :
             /\ w.kind = "update"
             /\ workers' = (workers \ {w}) \cup
                   {[kind |-> "made", job |-> w.job, game |-> w.game,
                     of |-> [job |-> w.job, game |-> w.game, layout |-> layout]]}
      BY <1>5 DEF StoreCandidate
    <2>2. w \in Converting /\ ~closed
      BY <2>1 DEF Converting, Tokens
    <2>3. updateRunning
      BY <2>2, <1>b DEF Tokens, OneToken
    <2>4. ~installRunning /\ ~installComplete
      BY <2>2, <2>3, <1>i DEF Tokens, Covered
    <2>5. UNCHANGED <<events, installComplete>>
      BY <1>5 DEF StoreCandidate
    <2>6. Installing' = {}
      BY <2>1, <2>2, <2>4, <1>idle DEF Installing
    <2> QED
      BY <2>2, <2>4, <2>5, <2>6, <1>idle
  <1>6. CASE Finish
    <2>1. PICK w \in workers : \E outcome \in Outcomes[w.kind] :
             /\ workers' = workers \ {w}
             /\ events' = Append(events, [is |-> outcome, job |-> w.job, game |-> w.game])
             /\ installed' = IF outcome = "installed" THEN installed \cup {w.of.job}
                                                      ELSE installed
      BY <1>6 DEF Finish
    <2>2. PICK outcome \in Outcomes[w.kind] :
             /\ events' = Append(events, [is |-> outcome, job |-> w.job, game |-> w.game])
             /\ installed' = IF outcome = "installed" THEN installed \cup {w.of.job}
                                                      ELSE installed
      BY <2>1
    <2> DEFINE e == [is |-> outcome, job |-> w.job, game |-> w.game]
    <2>3. w \in Worker
      BY DEF TypeOK
    <2>4. w.kind \in {"update", "fix", "made", "install"} /\ w.job \in Job /\ w.game \in Games
             /\ (w.kind = "install" => w.of \in Candidate)
      BY <2>3, WorkerFields
    <2>5. outcome \in UpdateEnds \cup InstallEnds
      BY <2>4, OutcomesEnd
    <2>6. e \in Event /\ e.is = outcome /\ events' = Append(events, e)
      BY <2>2, <2>4, <2>5 DEF Event
    <2> HIDE DEF e
    <2>7. UNCHANGED <<closed, updateRunning, installComplete, target, candidate>>
      BY <1>6 DEF Finish
    <2>8. installed \subseteq installed'
      BY <2>2
    <2>9. outcome = "installed" => candidate # None /\ candidate.job \in installed'
      <3> HAVE outcome = "installed"
      <3>1. w.kind = "install"
        BY <2>4, OutcomesEnd
      <3>2. w \in Installing
        BY <3>1 DEF Installing
      <3> QED
        BY <3>1, <3>2, <2>2, <2>4, <1>i, CandidateIsSome
    <2>10. \A i \in Nat : Waits(events', i, {"installed"}) =>
              candidate # None /\ candidate.job \in installed'
      BY <2>6, <2>8, <2>9, <1>i, <1>q, Appended
    <2>11. Installing' \subseteq Installing
      BY <2>1 DEF Installing
    <2> QED
      BY <2>7, <2>8, <2>10, <2>11, <1>i
  <1>7. CASE Deliver
    <2>1. /\ ~closed /\ events # <<>> /\ events' = Tail(events)
          /\ UNCHANGED <<closed, workers, candidate, installed>>
      BY <1>7 DEF Deliver
    <2>2. \A i \in Nat : Waits(Tail(events), i, {"installed"}) =>
             candidate # None /\ candidate.job \in installed
      <3>1. \A i \in Nat : Waits(Tail(events), i, {"installed"}) =>
               i + 1 \in Nat /\ Waits(events, i + 1, {"installed"})
        BY <2>1, <1>q, WaitedBefore
      <3> QED
        BY <3>1, <1>i
    <2>3. Installing' = Installing
      BY <2>1 DEF Installing
    <2>4. CASE CandidateCreated
      <3>1. Head(events).is \in UpdateEnds
        BY <2>4 DEF CandidateCreated, Ended, UpdateEnds
      <3>2. updateRunning
        BY <3>1, <2>1, <1>q, TokenDelivered DEF Tokens
      <3>3. ~installRunning
        BY <3>2, <2>1 DEF Tokens, Covered
      <3> QED
        BY <3>3, <2>1, <2>2, <2>3, <2>4, <1>idle DEF CandidateCreated
    <2>5. CASE UpdateStopped
      BY <2>1, <2>2, <2>3, <2>5, <1>i DEF UpdateStopped
    <2>6. CASE FixEnded
      BY <2>1, <2>2, <2>3, <2>6, <1>i DEF FixEnded
    <2>7. CASE InstallEnded
      <3>1. Head(events).is \in InstallEnds
        BY <2>7 DEF InstallEnded, Ended, InstallEnds
      <3>2. installRunning
        BY <3>1, <2>1, <1>q, TokenDelivered DEF Tokens, Covered
      <3>3. ~updateRunning
        BY <3>2, <2>1 DEF Tokens, Covered
      <3>4. Ended = "installed" => Waits(events, 1, {"installed"})
        BY <2>1, <1>q, Delivered DEF Ended
      <3>5. Ended = "installed" => candidate # None /\ candidate.job \in installed
        BY <3>4, <1>i
      <3>6. UNCHANGED <<updateRunning, target>>
               /\ (installComplete' => installComplete \/ Ended = "installed")
        BY <2>7 DEF InstallEnded
      <3> QED
        BY <3>3, <3>5, <3>6, <2>1, <2>2, <2>3, <1>i
    <2> QED
      BY <1>7, <2>4, <2>5, <2>6, <2>7 DEF Deliver
  <1>8. CASE Close
    <2>1. \A i \in Nat : ~Waits(<<>>, i, {"installed"})
      BY DEF Waits
    <2>2. Installing' = {} /\ closed' = TRUE /\ events' = <<>>
             /\ UNCHANGED <<installComplete, candidate, installed>>
      BY <1>8 DEF Close, Installing
    <2> QED
      BY <2>1, <2>2, <1>i
  <1>9. CASE UNCHANGED vars
    BY <1>9, <1>i DEF vars, Installing
  <1> QED
    BY <1>1, <1>2, <1>3, <1>4, <1>5, <1>6, <1>7, <1>8, <1>9 DEF Next, User, Controls

(***************************************************************************)
(* The invariant holds in every session, for every number of games and     *)
(* jobs.                                                                   *)
(***************************************************************************)
THEOREM Invariance == Spec => []IInv
  <1>1. IInv /\ [Next]_vars => IInv'
    BY TypeStep, TokensStep, OfferedStep, InstalledStep DEF IInv
  <1> QED
    BY InitEstablishes, <1>1, PTL DEF Spec

(* Types of the workflow (the window of src/ui/main.slint, AppState). *)
THEOREM TypeCorrect == Spec => []TypeOK
  <1>1. IInv => TypeOK
    BY DEF IInv
  <1> QED
    BY Invariance, <1>1, PTL

(***************************************************************************)
(* on_update_mod and on_fix_modlist never run two conversions at a time.   *)
(***************************************************************************)
THEOREM OneConversionAtATime == Spec => []OneConversion
  <1>1. IInv => OneConversion
    <2> SUFFICES ASSUME IInv
                 PROVE  Cardinality(Converting) <= 1
      BY DEF OneConversion
    <2>1. \A v, w \in Converting : v = w
      <3>1. CASE closed
        BY <3>1 DEF IInv, Tokens, Converting
      <3>2. CASE ~closed
        BY <3>2 DEF IInv, Tokens, OneToken
      <3> QED
        BY <3>1, <3>2
    <2>2. CASE Converting = {}
      BY <2>2, FS_EmptySet
    <2>3. CASE Converting # {}
      <3>1. PICK w \in Converting : TRUE
        BY <2>3
      <3>2. Converting = {w}
        BY <3>1, <2>1
      <3> QED
        BY <3>2, FS_Singleton
    <2> QED
      BY <2>2, <2>3
  <1> QED
    BY Invariance, <1>1, PTL

(***************************************************************************)
(* Where dialogs cover what is below them, one worker thread runs at most. *)
(***************************************************************************)
THEOREM OneJobAtATime == Spec => []OneJob
  <1>1. IInv => OneJob
    <2> SUFFICES ASSUME IInv, ~keyboard
                 PROVE  Cardinality(workers) <= 1
      BY DEF OneJob
    <2>1. \A v, w \in workers : v = w
      <3>1. CASE closed
        BY <3>1 DEF IInv, Tokens
      <3>2. CASE ~closed
        <4>1. workers = Converting \cup Installing
          BY WorkerFields DEF IInv, TypeOK, Converting, Installing
        <4>2. /\ \A v, w \in Converting : v = w
              /\ \A v, w \in Installing : v = w
              /\ Converting # {} => updateRunning
              /\ Installing # {} => installRunning
              /\ ~(updateRunning /\ installRunning)
          BY <3>2 DEF IInv, Tokens, OneToken, Covered
        <4> QED
          BY <4>1, <4>2
      <3> QED
        BY <3>1, <3>2
    <2>2. CASE workers = {}
      BY <2>2, FS_EmptySet
    <2>3. CASE workers # {}
      <3>1. PICK w \in workers : TRUE
        BY <2>3
      <3>2. workers = {w}
        BY <3>1, <2>1
      <3> QED
        BY <3>2, FS_Singleton
    <2> QED
      BY <2>2, <2>3
  <1> QED
    BY Invariance, <1>1, PTL

(***************************************************************************)
(* There, the flags that gate the controls are up exactly while a worker   *)
(* runs or its closure waits.                                              *)
(***************************************************************************)
THEOREM TrueFlags == Spec => []FlagsAgree
  <1>1. IInv => FlagsAgree
    <2> SUFFICES ASSUME IInv, ~keyboard, ~closed
                 PROVE  /\ updateRunning <=>
                              Converting # {} \/ Pending(UpdateEnds) # {}
                        /\ installRunning <=>
                              Installing # {} \/ Pending(InstallEnds) # {}
      BY DEF FlagsAgree
    <2>1. \A ends : Pending(ends) # {} <=> \E i \in Nat : Waits(events, i, ends)
      BY DEF Pending, Waits, IInv, TypeOK
    <2>2. /\ OneToken(updateRunning, Converting, events, UpdateEnds)
          /\ OneToken(installRunning, Installing, events, InstallEnds)
      BY DEF IInv, Tokens, Covered
    <2> QED
      BY <2>1, <2>2 DEF OneToken
  <1> QED
    BY Invariance, <1>1, PTL

(***************************************************************************)
(* The prompt names the folder of the candidate a Yes installs.            *)
(***************************************************************************)
THEOREM TruePrompt == Spec => []PromptIsForCandidate
  <1>1. IInv => PromptIsForCandidate
    BY DEF IInv, Offered, PromptIsForCandidate
  <1> QED
    BY Invariance, <1>1, PTL

(***************************************************************************)
(* Where dialogs cover, the running installation is of the candidate the   *)
(* window still offers.                                                    *)
(***************************************************************************)
THEOREM InstallsTheOffered == Spec => []InstallIsOfOffered
  <1>1. IInv => InstallIsOfOffered
    BY DEF IInv, Installed, InstallIsOfOffered
  <1> QED
    BY Invariance, <1>1, PTL

(***************************************************************************)
(* There, "Installed" is shown of an installed candidate only.             *)
(***************************************************************************)
THEOREM TrueInstalled == Spec => []InstalledIsTrue
  <1>1. IInv => InstalledIsTrue
    BY DEF IInv, Installed, InstalledIsTrue
  <1> QED
    BY Invariance, <1>1, PTL

-----------------------------------------------------------------------------
(* The publication of a candidate. *)

Preparing == {"hash", "copy", "convert"}
Staging == {"reconstruct", "stage-archive", "stage-report", "publish-directory"}
Moving == {"publish-archive", "publish-report", "verify-move", "withdraw"}
InPlaceSteps == {"fill", "verify-output", "write-report", "pack"}
Published == {"verify-move", "install", "install-report", "final-report", "recheck"}

\* The steps of the logical wrapper and of the direct adapters are disjoint.
LaneSteps ==
    /\ lane \in Logical => pc \notin InPlaceSteps \cup {"install-report"}
    /\ lane \in Direct => pc \notin Staging \cup Moving \cup {"recheck"}
    /\ payload => lane \in Asks \cup {"logical-additive"}
    /\ pc \in {"install", "install-report"} => lane \in {"esp", "logical-additive"}
    /\ pc = "final-report" => lane \in Logical \cup {"esp"}
    /\ pc \in Steps \cup {"killed"} => result = "none"

\* The hash is taken before the copy, and the mod only gets newer.
Editions ==
    /\ hashed <= source
    /\ pc \in Steps \ {"hash", "copy"} => hashed <= built /\ built <= source
    /\ lane \in Logical /\ pc \in Moving \cup Published \cup (Staging \ {"reconstruct"}) =>
          built = hashed

Absent(item) == published[item] = "absent"
Gone(item) == Absent(item) \/ item \in stuck

ToDo == {<<>>, <<"directory">>, <<"archive", "directory">>,
         <<"report", "archive", "directory">>}

\* What is in the output folder at each step.
Output ==
    /\ pc \in Preparing \cup Staging => \A i \in Item : Absent(i)
    /\ pc \in {"write-report", "pack"} => published["directory"] = "whole"
    /\ pc = "pack" => published["report"] = "whole"
    /\ pc \in {"publish-archive", "publish-report"} =>
          published["directory"] = "whole" /\ Absent("report")
    /\ pc = "publish-archive" => Absent("archive")
    /\ pc = "publish-report" => published["archive"] = "whole"
    /\ pc \in Published => Whole

\* While moves are taken back: what is no longer to be taken back is gone.
Withdrawing ==
    pc = "withdraw" =>
        /\ undo \in ToDo
        /\ undo = <<"report", "archive", "directory">> => Whole
        /\ undo # <<"report", "archive", "directory">> => Gone("report")
        /\ undo \in {<<>>, <<"directory">>} => Gone("archive")
        /\ undo = <<>> => Gone("directory")

\* What is known of the runtime dependencies.
Runtime ==
    /\ lane = "logical-additive" /\ pc \in Staging \cup Moving \cup Published =>
          runtime \/ payload
    /\ lane = "logical-mixed" /\ pc \in Staging \cup Moving \cup Published => runtime
    /\ lane \in Asks /\ pc \in InPlaceSteps => runtime \/ payload
    /\ lane \in {"esp", "logical-additive"}
          /\ pc \in {"install-report", "final-report", "recheck"} => runtime
    /\ lane # "logical-mixed" /\ byRun =>
          pc \in {"install-report", "final-report", "recheck", "returned", "killed"}

Results == /\ WholeOrWithdrawn /\ ReportHasCandidate /\ MadeFromHashedSource
           /\ RuntimeLast

\* The inductive invariant.
PublicationInv ==
    /\ PublicationTypeOK /\ LaneSteps /\ Editions /\ Output /\ Withdrawing /\ Runtime
    /\ Results

-----------------------------------------------------------------------------
USE PublicationAssumption

\* The invariant holds before the source is hashed.
LEMMA PublicationStarts == PublicationInit => PublicationInv
  <1> SUFFICES ASSUME PublicationInit
               PROVE  PublicationInv
    OBVIOUS
  <1>1. pc = "hash" /\ result = "none" /\ status = "none" /\ byRun = FALSE
           /\ payload = FALSE /\ source = 0 /\ hashed = 0 /\ built = 0
           /\ \A i \in Item : Absent(i)
    BY DEF PublicationInit, Absent
  <1>2. PublicationTypeOK
    <2>1. undo \in Seq(Item)
      BY DEF PublicationInit
    <2>2. published \in [Item -> {"absent", "partial", "whole"}]
      BY DEF PublicationInit
    <2>3. 0 \in Edition
      BY DEF Edition
    <2> QED
      BY <1>1, <2>1, <2>2, <2>3 DEF PublicationInit, PublicationTypeOK, Steps
  <1>3. LaneSteps /\ Editions /\ Output /\ Withdrawing /\ Runtime
    BY <1>1 DEF PublicationInit, LaneSteps, Editions, Output, Withdrawing, Runtime, Steps,
       Preparing, Staging, Moving, Published, InPlaceSteps
  <1>4. Results
    BY <1>1 DEF Results, WholeOrWithdrawn, ReportHasCandidate, MadeFromHashedSource,
       RuntimeLast, Absent, Item
  <1> QED
    BY <1>2, <1>3, <1>4 DEF PublicationInv

\* The moves still to be taken back, one step later.
LEMMA ToDoShrinks ==
    /\ Head(<<"report", "archive", "directory">>) = "report"
    /\ Tail(<<"report", "archive", "directory">>) = <<"archive", "directory">>
    /\ Head(<<"archive", "directory">>) = "archive"
    /\ Tail(<<"archive", "directory">>) = <<"directory">>
    /\ Head(<<"directory">>) = "directory" /\ Tail(<<"directory">>) = <<>>
  OBVIOUS

\* The moves still to be taken back are items.
LEMMA ToDoTypes == \A u \in ToDo : u \in Seq(Item)
  <1>1. <<"report", "archive", "directory">> \in Seq(Item)
    BY DEF Item
  <1>2. <<"archive", "directory">> \in Seq(Item)
    BY DEF Item
  <1>3. <<"directory">> \in Seq(Item) /\ <<>> \in Seq(Item)
    BY DEF Item
  <1> QED
    BY <1>1, <1>2, <1>3 DEF ToDo

\* Each move taken back makes another list.
LEMMA ToDoDiffer ==
    /\ <<"report", "archive", "directory">> # <<"archive", "directory">>
    /\ <<"report", "archive", "directory">> # <<"directory">>
    /\ <<"report", "archive", "directory">> # <<>>
    /\ <<"archive", "directory">> # <<"directory">>
    /\ <<"archive", "directory">> # <<>>
    /\ <<"directory">> # <<>>
  OBVIOUS

\* Every step keeps the invariant, action by action.
LEMMA PublicationSteps == PublicationInv /\ [PublicationNext]_publicationVars => PublicationInv'
  <1> SUFFICES ASSUME PublicationInv, [PublicationNext]_publicationVars
               PROVE  PublicationInv'
    OBVIOUS
  <1> USE DEF PublicationInv, PublicationTypeOK, LaneSteps, Editions, Output, Withdrawing, Runtime,
              Results, WholeOrWithdrawn, ReportHasCandidate, MadeFromHashedSource,
              RuntimeLast, Whole, Absent, Gone, Steps, Edition, Item,
              Preparing, Staging, Moving, Published, InPlaceSteps, Go, Return,
              Logical, Direct, AllLanes, Asks, ToDo,
              output, inputs, game, unwind
  <1>1. CASE HashSource
    BY <1>1 DEF HashSource
  <1>2. CASE CopySource
    BY <1>2 DEF CopySource
  <1>3. CASE Convert
    BY <1>3 DEF Convert
  <1>4. CASE FailsBefore
    BY <1>4 DEF FailsBefore
  <1>5. CASE Fill
    BY <1>5 DEF Fill
  <1>6. CASE VerifyOutput
    BY <1>6 DEF VerifyOutput
  <1>7. CASE WriteReport
    BY <1>7 DEF WriteReport, FirstStatus
  <1>8. CASE Pack
    BY <1>8 DEF Pack
  <1>9. CASE FailsInPlace
    BY <1>9 DEF FailsInPlace, CutShort
  <1>10. CASE Nested
    BY <1>10 DEF Nested
  <1>11. CASE NestedFails
    BY <1>11 DEF NestedFails
  <1>12. CASE Reconstruct
    BY <1>12 DEF Reconstruct
  <1>13. CASE StageArchive
    BY <1>13 DEF StageArchive
  <1>14. CASE StageReport
    BY <1>14 DEF StageReport
  <1>15. CASE PublishDirectory
    BY <1>15 DEF PublishDirectory, Move
  <1>16. CASE PublishArchive
    BY <1>16 DEF PublishArchive, Move
  <1>17. CASE PublishReport
    BY <1>17 DEF PublishReport, Move, FirstStatus
  <1>18. CASE VerifyMove
    BY <1>18 DEF VerifyMove
  <1>19. CASE VerifyMoveUnread
    BY <1>19 DEF VerifyMoveUnread
  <1>20. CASE PublishFails
    <2>1. /\ pc' = "withdraw" /\ undo' \in ToDo /\ undo' # <<>>
          /\ pc = "publish-archive" => undo' = <<"directory">>
          /\ pc = "publish-report" => undo' = <<"archive", "directory">>
          /\ pc = "verify-move" => undo' = <<"report", "archive", "directory">>
      BY <1>20, ToDoDiffer DEF PublishFails, Moved
    <2>2. undo' \in Seq(Item)
      BY <2>1, ToDoTypes
    <2> QED
      BY <1>20, <2>1, <2>2, ToDoDiffer DEF PublishFails
  <1>21. CASE Withdraw
    <2> DEFINE item == Head(undo)
    <2>1. pc = "withdraw" /\ undo \in ToDo /\ undo # <<>> /\ undo' = Tail(undo)
             /\ pc' = "withdraw"
      BY <1>21 DEF Withdraw
    <2>2. /\ undo' \in ToDo
          /\ undo' = <<"archive", "directory">> => item = "report" /\ Whole
          /\ undo' = <<"directory">> => item = "archive" /\ Gone("report")
          /\ undo' = <<>> => item = "directory" /\ Gone("report") /\ Gone("archive")
          /\ undo' # <<"report", "archive", "directory">>
      BY <2>1, ToDoShrinks, ToDoDiffer
    <2>3. item \in Item /\ undo' \in Seq(Item)
      BY <2>1, <2>2, ToDoTypes, ToDoShrinks, ToDoDiffer
    <2>4. /\ \A i \in Item : i # item => published'[i] = published[i]
          /\ published'[item] = "absent" \/ item \in stuck'
          /\ stuck \subseteq stuck' /\ stuck' \subseteq Item
          /\ published' \in [Item -> {"absent", "partial", "whole"}]
          /\ staged' \subseteq Item
      <3>1. \/ /\ published' = [published EXCEPT ![item] = "absent"]
               /\ staged' = staged \cup {item} /\ stuck' = stuck
            \/ /\ stuck' = stuck \cup {item}
               /\ published' = published /\ staged' = staged
        BY <1>21 DEF Withdraw
      <3> HIDE DEF item
      <3> QED
        BY <2>3, <3>1
    <2>5. UNCHANGED <<lane, status, source, hashed, built, runtime, byRun,
                      payload, result>>
      BY <1>21 DEF Withdraw
    <2> HIDE DEF item
    <2> QED
      BY <2>1, <2>2, <2>3, <2>4, <2>5, ToDoDiffer
  <1>22. CASE EndWithdraw
    BY <1>22 DEF EndWithdraw
  <1>23. CASE InstallRuntime
    BY <1>23 DEF InstallRuntime
  <1>24. CASE InstallFails
    BY <1>24 DEF InstallFails
  <1>25. CASE WriteInstallReport
    BY <1>25 DEF WriteInstallReport
  <1>26. CASE FinalReport
    BY <1>26 DEF FinalReport
  <1>27. CASE FinalReportFails
    BY <1>27 DEF FinalReportFails
  <1>28. CASE Recheck
    BY <1>28 DEF Recheck
  <1>29. CASE Edit
    BY <1>29 DEF Edit
  <1>30. CASE Kill
    BY <1>30 DEF Kill, CutShort
  <1>31. CASE UNCHANGED publicationVars
    BY <1>31 DEF publicationVars
  <1> QED
    BY <1>1, <1>2, <1>3, <1>4, <1>5, <1>6, <1>7, <1>8, <1>9, <1>10, <1>11, <1>12, <1>13, <1>14, <1>15, <1>16, <1>17, <1>18, <1>19, <1>20, <1>21, <1>22, <1>23, <1>24, <1>25, <1>26, <1>27, <1>28, <1>29, <1>30, <1>31 DEF PublicationNext, Run

(***************************************************************************)
(* The invariant holds in every state of run_update, for every set of      *)
(* adapters and every number of edits.                                     *)
(***************************************************************************)
THEOREM PublicationInvariance == PublicationSpec => []PublicationInv
  BY PublicationStarts, PublicationSteps, PTL DEF PublicationSpec

(* Types of the publication (run_logical_install_update and the adapters). *)
THEOREM PublicationTypes == PublicationSpec => []PublicationTypeOK
  <1>1. PublicationInv => PublicationTypeOK
    BY DEF PublicationInv
  <1> QED
    BY PublicationInvariance, <1>1, PTL

(***************************************************************************)
(* run_update succeeds with directory, archive and report published; a     *)
(* logical publication that fails leaves all three or only what it reports *)
(* as not taken back.                                                      *)
(***************************************************************************)
THEOREM AllThreeOrNone == PublicationSpec => []WholeOrWithdrawn
  <1>1. PublicationInv => WholeOrWithdrawn
    BY DEF PublicationInv, Results
  <1> QED
    BY PublicationInvariance, <1>1, PTL

(***************************************************************************)
(* Wherever a logical publication is killed, its report has directory and  *)
(* archive beside it, unless taking the report back failed.                *)
(***************************************************************************)
THEOREM ReportNeverAlone == PublicationSpec => []ReportHasCandidate
  <1>1. PublicationInv => ReportHasCandidate
    BY DEF PublicationInv, Results
  <1> QED
    BY PublicationInvariance, <1>1, PTL

(***************************************************************************)
(* However often the mod is edited meanwhile, what a logical publication   *)
(* puts into the output was made from the edition its report names.        *)
(***************************************************************************)
THEOREM FromHashedSource == PublicationSpec => []MadeFromHashedSource
  <1>1. PublicationInv => MadeFromHashedSource
    BY DEF PublicationInv, Results
  <1> QED
    BY PublicationInvariance, <1>1, PTL

(***************************************************************************)
(* However the run ends: the game was changed for the runtime dependencies *)
(* only beside a whole candidate, but for the mixed lane in a wrapper, and *)
(* no report calls a candidate ready without the tools its adapter needs,  *)
(* but for the payloads the plugin-only lane takes in their place.         *)
(***************************************************************************)
THEOREM RuntimeInOrder == PublicationSpec => []RuntimeLast
  <1>1. PublicationInv => RuntimeLast
    BY DEF PublicationInv, Results
  <1> QED
    BY PublicationInvariance, <1>1, PTL
=============================================================================
