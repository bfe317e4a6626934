---------------------------- MODULE CodeGenAgent ----------------------------
(***************************************************************************)
(* The generation side of the code generation agent                        *)
(* (worker/agents/core/simpleGeneratorAgent.ts and websocket.ts): one      *)
(* Durable Object, single threaded, whose asynchronous handlers interleave *)
(* at their awaits.  An action is the stretch of one handler between two   *)
(* awaits that wait for something outside the object (an inference, the    *)
(* sandbox, the database); awaits of promises that are already settled are *)
(* drained within the stretch.                                             *)
(*                                                                         *)
(* Three kinds of activity run side by side: the generation state machine  *)
(* (launchStateMachine), conversation turns (handleUserInput and the tools *)
(* the model calls in it), and the deep debugging session a turn may run.  *)
(* They share the persisted state, the two promises that say who is        *)
(* running, and one abort controller.  An eviction of the object ends all  *)
(* of them and keeps only the persisted state.                             *)
(***************************************************************************)
EXTENDS Integers, Sequences, FiniteSets

CONSTANTS
  RunIds,            \* identities for invocations of launchStateMachine
  Turns,             \* identities for conversation turns
  Requests,          \* the modification requests users may make
  None,              \* the null promise
  MaxPhases,         \* MAX_PHASES: phases implemented before finalizing
  PhasesPerRequest,  \* what queueUserRequest recharges the counter to
  MaxCrashes         \* bound: evictions considered

ASSUME AgentAssumption ==
  /\ None \notin RunIds \cup Turns
  /\ MaxPhases \in Nat \ {0}
  /\ PhasesPerRequest \in 1..MaxPhases
  /\ MaxCrashes \in Nat

VARIABLES
  st,                 \* this.state, persisted
  appStatus,          \* the status of the app in the database
  runs,               \* invocations of launchStateMachine in progress
  generationPromise,  \* the promise of one of them, or null
  turns,              \* conversation turns in progress
  deepDebugPromise,   \* the turn whose deep_debug session runs, or null
  controller,         \* is currentAbortController set (and not aborted)?
  templateCached,     \* is templateDetailsCache filled?
  settled,            \* history: what became of the requests taken
  crashes

vars == <<st, appStatus, runs, generationPromise, turns, deepDebugPromise,
          controller, templateCached, settled, crashes>>

-----------------------------------------------------------------------------
(* The persisted state.  A phase is known by its place in generatedPhases: *)
(* phase names are taken to be distinct.  0 stands for no phase.           *)

DevState == {"IDLE", "PHASE_GENERATING", "PHASE_IMPLEMENTING",
             "REVIEWING", "FINALIZING"}

\* "dev": an ordinary phase; "last": one the model declared the last;
\* "final": the one executeFinalizing adds (its lastPhase is true too).
PhaseKind == {"dev", "last", "final"}

Phase == [kind : PhaseKind, completed : BOOLEAN]

CodeGenState ==
  [currentDevState   : DevState,
   currentPhase      : Nat,
   generatedPhases   : Seq(Phase),
   pendingUserInputs : SUBSET Requests,
   phasesCounter     : Int,
   mvpGenerated      : BOOLEAN,
   reviewingInitiated : BOOLEAN,
   shouldBeGenerating : BOOLEAN,
   blueprintValid    : BOOLEAN]

(* The signal an activity passed to its inference: that of the current     *)
(* controller, of one that was dropped without being aborted, or an        *)
(* aborted one.                                                            *)
Signal == {"none", "current", "dropped", "aborted"}

(* A run is at the await named by pc.  mode tells where the phase at hand  *)
(* comes from: the loop's own PHASE_GENERATING / PHASE_IMPLEMENTING        *)
(* states, a PHASE_IMPLEMENTING entered without a phase ("resume"), or     *)
(* executeFinalizing.  concept is the loop's local phaseConcept.           *)
RunPC == {"off", "template", "issuesGen", "inferGen", "issuesImpl",
          "inferImpl", "deploy", "issuesReview", "updateApp"}

Run == [pc      : RunPC,
        mode    : {"phase", "resume", "final"},
        concept : Nat,               \* launchStateMachine's phaseConcept
        phase   : Nat,               \* the phase being implemented
        batch   : SUBSET Requests,   \* userContext while a phase is generated
        signal  : Signal,
        clears  : BOOLEAN,           \* started by GENERATE_ALL
        failed  : BOOLEAN]           \* history: it broadcast an error

Off == [pc |-> "off", mode |-> "phase", concept |-> 0, phase |-> 0,
        batch |-> {}, signal |-> "none", clears |-> FALSE, failed |-> FALSE]

(* A conversation turn: before its inference, in it, or inside one of the  *)
(* tools that wait.  It shares the controller with the run; what its own   *)
(* signal is makes no difference to what it does.                          *)
Turn == [pc          : {"idle", "prepare", "infer", "debug",
                        "waitGeneration", "waitDebug"},
         debugCalled : BOOLEAN]

IdleTurn == [pc |-> "idle", debugCalled |-> FALSE]

Settled == {"no", "answered", "lost"}

TypeOK ==
  /\ st \in CodeGenState
  /\ appStatus \in {"generating", "completed"}
  /\ runs \in [RunIds -> Run]
  /\ generationPromise \in RunIds \cup {None}
  /\ turns \in [Turns -> Turn]
  /\ deepDebugPromise \in Turns \cup {None}
  /\ controller \in BOOLEAN
  /\ templateCached \in BOOLEAN
  /\ settled \in [Requests -> Settled]
  /\ crashes \in 0..MaxCrashes

Init ==
  /\ \E valid \in BOOLEAN :
       st = [currentDevState |-> "IDLE", currentPhase |-> 0,
             generatedPhases |-> <<>>, pendingUserInputs |-> {},
             phasesCounter |-> MaxPhases, mvpGenerated |-> FALSE,
             reviewingInitiated |-> FALSE, shouldBeGenerating |-> FALSE,
             blueprintValid |-> valid]
  /\ appStatus = "generating"
  /\ runs = [r \in RunIds |-> Off]
  /\ generationPromise = None
  /\ turns = [t \in Turns |-> IdleTurn]
  /\ deepDebugPromise = None
  /\ controller = FALSE
  /\ templateCached = TRUE
  /\ settled = [q \in Requests |-> "no"]
  /\ crashes = 0

-----------------------------------------------------------------------------
(* The abort controller.  Cancelling aborts the signal of everyone who     *)
(* took the current controller's; clearing merely forgets the controller.  *)

RunsSignalled(f, to) ==
  [r \in RunIds |-> IF f[r].signal = "current"
                      THEN [f[r] EXCEPT !.signal = to] ELSE f[r]]

(* A promise that settles releases the turns whose tool awaits it.         *)
Released(f, pc) ==
  [t \in Turns |-> IF f[t].pc = pc THEN [f[t] EXCEPT !.pc = "infer"]
                                   ELSE f[t]]

(* The requests whose fate is still open and that nobody holds.            *)
Batched == UNION {runs[r].batch : r \in RunIds}
Fresh == {q \in Requests : settled[q] = "no"} \ (st.pendingUserInputs \cup Batched)

Settle(batch, how) ==
  settled' = [q \in Requests |-> IF q \in batch THEN how ELSE settled[q]]

-----------------------------------------------------------------------------
(* The loop of launchStateMachine: what it does from the moment it knows   *)
(* the state to execute until it awaits again.  s is the state so far, run *)
(* the invocation; FINALIZING and REVIEWING may fall through.              *)

Persisted(s, run, dev) == [s EXCEPT !.currentDevState = dev,
                                    !.currentPhase = run.concept]

Paused(s, run, pc, mode, phase) ==
  [state |-> s, run |-> [run EXCEPT !.pc = pc, !.mode = mode, !.phase = phase,
                                    !.batch = {}, !.signal = "none"]]

EnterDone(s, run) ==
  Paused(Persisted(s, run, "IDLE"), run, "updateApp", "phase", 0)

EnterReviewing(s, run) ==
  IF s.reviewingInitiated
    THEN EnterDone(s, run)
    ELSE Paused([Persisted(s, run, "REVIEWING") EXCEPT !.reviewingInitiated = TRUE],
                run, "issuesReview", "phase", 0)

\* Mutant: mvpGenerated is not set before the final phase is implemented.
EnterFinalizing_NotOnce(s, run) ==
  IF s.mvpGenerated
    THEN EnterReviewing(s, run)
    ELSE Paused([Persisted(s, run, "FINALIZING") EXCEPT
                   !.generatedPhases = Append(@, [kind |-> "final", completed |-> FALSE])],
                run, "issuesImpl", "final", Len(s.generatedPhases) + 1)

EnterFinalizing(s, run) ==
  IF s.mvpGenerated
    THEN EnterReviewing(s, run)
    ELSE Paused([Persisted(s, run, "FINALIZING") EXCEPT
                   !.mvpGenerated = TRUE,
                   !.generatedPhases = Append(@, [kind |-> "final", completed |-> FALSE])],
                run, "issuesImpl", "final", Len(s.generatedPhases) + 1)

(* executePhaseImplementation drops currentPhase before it awaits; without *)
(* a phase it calls executePhaseGeneration.                                *)
EnterImplementing(s, run) ==
  LET dropped == [Persisted(s, run, "PHASE_IMPLEMENTING") EXCEPT !.currentPhase = 0]
  IN IF run.concept = 0
       THEN Paused(dropped, run, "issuesGen", "resume", 0)
       ELSE Paused(dropped, run, "issuesImpl", "phase", run.concept)

EnterGenerating(s, run) ==
  Paused(Persisted(s, run, "PHASE_GENERATING"), run, "issuesGen", "phase", 0)

Entered(s, run, dev) ==
  CASE dev = "PHASE_GENERATING"   -> EnterGenerating(s, run)
    [] dev = "PHASE_IMPLEMENTING" -> EnterImplementing(s, run)
    [] dev = "FINALIZING"         -> EnterFinalizing(s, run)
    [] dev = "REVIEWING"          -> EnterReviewing(s, run)
    [] dev = "IDLE"               -> EnterDone(s, run)

(* Run r goes on with dev, phaseConcept being concept.  When the loop is   *)
(* over it clears the abort controller.                                    *)
Advance(r, s, run, dev, concept) ==
  LET e == Entered(s, [run EXCEPT !.concept = concept], dev)
      moved == [runs EXCEPT ![r] = e.run]
  IN /\ st' = e.state
     /\ IF e.run.pc = "updateApp"
          THEN /\ controller' = FALSE
               /\ runs' = RunsSignalled(moved, "dropped")
          ELSE runs' = moved /\ UNCHANGED controller
     /\ UNCHANGED turns

(* The promise of run r settles: the waiters go on, and the finally block  *)
(* of GENERATE_ALL clears shouldBeGenerating.                              *)
Ended(r, s) ==
  /\ st' = [s EXCEPT !.shouldBeGenerating = @ /\ ~runs[r].clears]
  /\ generationPromise' = None

\* Mutant: a failed run throws its unfinished phases away.
Abandon_DropsPhases(r) ==
  /\ Ended(r, [st EXCEPT !.currentDevState = "IDLE",
                         !.generatedPhases = SelectSeq(@, LAMBDA p : p.completed)])
  /\ controller' = FALSE
  /\ runs' = RunsSignalled([runs EXCEPT ![r] = Off], "dropped")
  /\ turns' = Released(turns, "waitGeneration")
  /\ Settle(runs[r].batch, "lost")
  /\ UNCHANGED <<appStatus, deepDebugPromise, templateCached, crashes>>

(* The catch block: forget the controller, go back to IDLE.                *)
Abandon(r) ==
  /\ Ended(r, [st EXCEPT !.currentDevState = "IDLE"])
  /\ controller' = FALSE
  /\ runs' = RunsSignalled([runs EXCEPT ![r] = Off], "dropped")
  /\ turns' = Released(turns, "waitGeneration")
  /\ Settle(runs[r].batch, "lost")
  /\ UNCHANGED <<appStatus, deepDebugPromise, templateCached, crashes>>

(* generateAllFiles, called with the state s: an early return when the app *)
(* is generated and nobody asked for more, or when a run is in progress.   *)
NothingToDo(s) == s.mvpGenerated /\ s.pendingUserInputs = {}

Launch(clears) ==
  \E r \in RunIds :
    /\ runs[r].pc = "off"
    /\ runs' = [runs EXCEPT ![r] = [Off EXCEPT !.pc = "template",
                                               !.clears = clears]]
    /\ generationPromise' = r

-----------------------------------------------------------------------------
(* WebSocket messages about generation.                                    *)

GenerateAll ==
  LET wanted == [st EXCEPT !.shouldBeGenerating = TRUE]
  IN /\ \/ generationPromise # None /\ st' = wanted
           /\ UNCHANGED <<runs, generationPromise>>
        \/ /\ generationPromise = None
           /\ ~NothingToDo(st)
           /\ Launch(TRUE)
           /\ st' = wanted
        \/ /\ generationPromise = None
           /\ NothingToDo(st)          \* the finally block runs at once
           /\ st' = [st EXCEPT !.shouldBeGenerating = FALSE]
           /\ UNCHANGED <<runs, generationPromise>>
     /\ UNCHANGED <<appStatus, turns, deepDebugPromise, controller,
                    templateCached, settled, crashes>>

ResumeGeneration ==
  /\ st' = [st EXCEPT !.shouldBeGenerating = TRUE]
  /\ IF generationPromise = None /\ ~NothingToDo(st)
       THEN Launch(FALSE)
       ELSE UNCHANGED <<runs, generationPromise>>
  /\ UNCHANGED <<appStatus, turns, deepDebugPromise, controller,
                 templateCached, settled, crashes>>

\* Mutant: stopping forgets the promise of the run that goes on.
StopGeneration_ForgetsRun ==
  /\ st' = [st EXCEPT !.shouldBeGenerating = FALSE]
  /\ controller' = FALSE
  /\ generationPromise' = None
  /\ runs' = IF controller THEN RunsSignalled(runs, "aborted") ELSE runs
  /\ UNCHANGED <<appStatus, turns, deepDebugPromise, templateCached, settled, crashes>>

StopGeneration ==
  /\ st' = [st EXCEPT !.shouldBeGenerating = FALSE]
  /\ controller' = FALSE
  /\ runs' = IF controller THEN RunsSignalled(runs, "aborted") ELSE runs
  /\ UNCHANGED <<appStatus, generationPromise, turns, deepDebugPromise,
                 templateCached, settled, crashes>>

-----------------------------------------------------------------------------
(* The steps of a generation run.                                          *)

(* ensureTemplateDetails throws before the try block: the promise rejects  *)
(* and nothing resets generationPromise.                                   *)
TemplateFails(r) ==
  /\ runs[r].pc = "template"
  /\ ~templateCached
  /\ runs' = [runs EXCEPT ![r] = Off]
  /\ turns' = Released(turns, "waitGeneration")
  /\ UNCHANGED <<st, appStatus, generationPromise, deepDebugPromise, controller,
                 templateCached, settled, crashes>>

\* Mutant: the filter on completed phases is missing.
Incomplete_All == 1..Len(st.generatedPhases)

Incomplete == {i \in 1..Len(st.generatedPhases) : ~st.generatedPhases[i].completed}

(* With the template loaded the run picks the state to start from and      *)
(* enters the loop.                                                        *)
Begin(r, s, dev, concept) ==
  /\ Advance(r, s, runs[r], dev, concept)
  /\ templateCached' = TRUE
  /\ UNCHANGED <<appStatus, generationPromise, deepDebugPromise, settled, crashes>>

BeginFromPersisted(r) ==
  /\ runs[r].pc = "template"
  /\ st.currentDevState # "IDLE"
  /\ Begin(r, st, st.currentDevState, st.currentPhase)

BeginFromIncomplete(r) ==
  /\ runs[r].pc = "template"
  /\ st.currentDevState = "IDLE"
  /\ \E i \in Incomplete :
       /\ \A j \in Incomplete : j <= i
       /\ Begin(r, st, "PHASE_IMPLEMENTING", i)

BeginNextPhase(r) ==
  /\ runs[r].pc = "template"
  /\ st.currentDevState = "IDLE"
  /\ Incomplete = {} /\ st.generatedPhases # <<>>
  /\ Begin(r, st, "PHASE_GENERATING", st.currentPhase)

\* Mutant: the first phase is stored without its completed flag.
BeginInitialPhase_NoFlag(r) ==
  /\ runs[r].pc = "template"
  /\ st.currentDevState = "IDLE"
  /\ st.generatedPhases = <<>>
  /\ st.blueprintValid
  /\ \E kind \in {"dev", "last"} :
       Begin(r, [st EXCEPT !.generatedPhases = <<[kind |-> kind]>>],
             "PHASE_IMPLEMENTING", 1)

BeginInitialPhase(r) ==
  /\ runs[r].pc = "template"
  /\ st.currentDevState = "IDLE"
  /\ st.generatedPhases = <<>>
  /\ st.blueprintValid
  /\ \E kind \in {"dev", "last"} :
       Begin(r, [st EXCEPT !.generatedPhases = <<[kind |-> kind, completed |-> FALSE]>>],
             "PHASE_IMPLEMENTING", 1)

BlueprintInvalid(r) ==
  /\ runs[r].pc = "template"
  /\ st.currentDevState = "IDLE"
  /\ st.generatedPhases = <<>>
  /\ ~st.blueprintValid
  /\ Ended(r, [st EXCEPT !.currentPhase = 0])
  /\ runs' = [runs EXCEPT ![r] = Off]
  /\ turns' = Released(turns, "waitGeneration")
  /\ templateCached' = TRUE
  /\ UNCHANGED <<appStatus, deepDebugPromise, controller, settled, crashes>>

\* Mutant: the drained requests stay pending.
IssuesForGeneration_KeepsPending(r) ==
  /\ runs[r].pc = "issuesGen"
  /\ runs' = [runs EXCEPT ![r].pc = "inferGen",
                          ![r].batch = st.pendingUserInputs,
                          ![r].signal = "current"]
  /\ controller' = TRUE
  /\ UNCHANGED <<st, appStatus, generationPromise, turns, deepDebugPromise,
                 templateCached, settled, crashes>>

(* executePhaseGeneration: the pending requests are drained, then the      *)
(* model is asked for the next phase.                                      *)
IssuesForGeneration(r) ==
  /\ runs[r].pc = "issuesGen"
  /\ runs' = [runs EXCEPT ![r].pc = "inferGen",
                          ![r].batch = st.pendingUserInputs,
                          ![r].signal = "current"]
  /\ st' = [st EXCEPT !.pendingUserInputs = {}]
  /\ controller' = TRUE
  /\ UNCHANGED <<appStatus, generationPromise, turns, deepDebugPromise,
                 templateCached, settled, crashes>>

PhaseGenerated(r) ==
  /\ runs[r].pc = "inferGen"
  /\ \E kind \in {"dev", "last"} :
       LET s == [st EXCEPT !.generatedPhases =
                              Append(@, [kind |-> kind, completed |-> FALSE])]
           new == Len(s.generatedPhases)
       IN IF runs[r].mode = "phase"
            THEN Advance(r, s, runs[r], "PHASE_IMPLEMENTING", new)
            ELSE /\ st' = [s EXCEPT !.currentPhase = 0]
                 /\ runs' = [runs EXCEPT ![r].pc = "issuesImpl", ![r].phase = new,
                                         ![r].batch = {}, ![r].signal = "none"]
                 /\ UNCHANGED <<controller, turns>>
  /\ Settle(runs[r].batch, "answered")
  /\ UNCHANGED <<appStatus, generationPromise, deepDebugPromise,
                 templateCached, crashes>>

\* Mutant: without a next phase the run is done.
NoMorePhases_Done(r) ==
  /\ runs[r].pc = "inferGen"
  /\ Advance(r, st, runs[r], "IDLE", 0)
  /\ Settle(runs[r].batch, "answered")
  /\ UNCHANGED <<appStatus, generationPromise, deepDebugPromise,
                 templateCached, crashes>>

NoMorePhases(r) ==
  /\ runs[r].pc = "inferGen"
  /\ Advance(r, st, runs[r], "FINALIZING", 0)
  /\ Settle(runs[r].batch, "answered")
  /\ UNCHANGED <<appStatus, generationPromise, deepDebugPromise,
                 templateCached, crashes>>

\* Mutant: a failed phase generation is tried again, for ever.
PhaseGenerationFails_Retries(r) ==
  /\ runs[r].pc = "inferGen"
  /\ Advance(r, st, [runs[r] EXCEPT !.failed = TRUE], "PHASE_GENERATING", 0)
  /\ Settle(runs[r].batch, "lost")
  /\ UNCHANGED <<appStatus, generationPromise, deepDebugPromise,
                 templateCached, crashes>>

(* Any error but a rate limit is broadcast and swallowed: the loop sees    *)
(* IDLE, or FINALIZING when the caller was executePhaseImplementation.     *)
PhaseGenerationFails(r) ==
  /\ runs[r].pc = "inferGen"
  /\ Advance(r, st, [runs[r] EXCEPT !.failed = TRUE],
             IF runs[r].mode = "phase" THEN "IDLE" ELSE "FINALIZING", 0)
  /\ Settle(runs[r].batch, "lost")
  /\ UNCHANGED <<appStatus, generationPromise, deepDebugPromise,
                 templateCached, crashes>>

PhaseGenerationRateLimited(r) ==
  /\ runs[r].pc = "inferGen"
  /\ Abandon(r)

(* implementPhase: infer the files, save and deploy them, mark the phase.  *)
IssuesForImplementation(r) ==
  /\ runs[r].pc = "issuesImpl"
  /\ runs' = [runs EXCEPT ![r].pc = "inferImpl", ![r].signal = "current"]
  /\ controller' = TRUE
  /\ UNCHANGED <<st, appStatus, generationPromise, turns, deepDebugPromise,
                 templateCached, settled, crashes>>

FilesGenerated(r) ==
  /\ runs[r].pc = "inferImpl"
  /\ runs' = [runs EXCEPT ![r].pc = "deploy", ![r].signal = "none"]
  /\ UNCHANGED <<st, appStatus, generationPromise, turns, deepDebugPromise,
                 controller, templateCached, settled, crashes>>

PhaseCompleted(r) ==
  /\ runs[r].pc = "deploy"
  /\ LET i == runs[r].phase
         marked == [st EXCEPT !.generatedPhases[i].completed = TRUE]
         counted == [marked EXCEPT !.phasesCounter = @ - 1]
         enough == /\ \/ st.generatedPhases[i].kind # "dev"
                      \/ counted.phasesCounter <= 0
                   /\ st.pendingUserInputs = {}
     IN IF runs[r].mode = "final"
          THEN Advance(r, marked, runs[r], "REVIEWING", runs[r].concept)
          ELSE Advance(r, counted, runs[r],
                       IF enough THEN "FINALIZING" ELSE "PHASE_GENERATING",
                       runs[r].concept)
  /\ UNCHANGED <<appStatus, generationPromise, deepDebugPromise,
                 templateCached, settled, crashes>>

ImplementationFails(r) ==
  /\ runs[r].pc \in {"inferImpl", "deploy"}
  /\ Abandon(r)

IssuesForReview(r) ==
  /\ runs[r].pc = "issuesReview"
  /\ Advance(r, st, runs[r], "IDLE", runs[r].concept)
  /\ UNCHANGED <<appStatus, generationPromise, deepDebugPromise,
                 templateCached, settled, crashes>>

\* Mutant: nobody who waits for the run is told of its end.
AppUpdated_Silent(r) ==
  /\ runs[r].pc = "updateApp"
  /\ appStatus' = "completed"
  /\ Ended(r, st)
  /\ runs' = [runs EXCEPT ![r] = Off]
  /\ UNCHANGED <<turns, deepDebugPromise, controller, templateCached, settled, crashes>>

(* The database says the app is completed, GENERATION_COMPLETE goes out.   *)
AppUpdated(r) ==
  /\ runs[r].pc = "updateApp"
  /\ appStatus' = "completed"
  /\ Ended(r, st)
  /\ runs' = [runs EXCEPT ![r] = Off]
  /\ turns' = Released(turns, "waitGeneration")
  /\ UNCHANGED <<deepDebugPromise, controller, templateCached, settled, crashes>>

AppUpdateFails(r) ==
  /\ runs[r].pc = "updateApp"
  /\ Abandon(r)

RunStep(r) ==
  \/ TemplateFails(r) \/ BeginFromPersisted(r) \/ BeginFromIncomplete(r)
  \/ BeginNextPhase(r) \/ BeginInitialPhase(r) \/ BlueprintInvalid(r)
  \/ IssuesForGeneration(r) \/ PhaseGenerated(r) \/ NoMorePhases(r)
  \/ PhaseGenerationFails(r) \/ PhaseGenerationRateLimited(r)
  \/ IssuesForImplementation(r) \/ FilesGenerated(r) \/ PhaseCompleted(r)
  \/ ImplementationFails(r) \/ IssuesForReview(r)
  \/ AppUpdated(r) \/ AppUpdateFails(r)

-----------------------------------------------------------------------------
(* Conversation turns.                                                     *)

UserMessage(t) ==
  /\ turns[t].pc = "idle"
  /\ turns' = [turns EXCEPT ![t].pc = "prepare"]
  /\ UNCHANGED <<st, appStatus, runs, generationPromise, deepDebugPromise,
                 controller, templateCached, settled, crashes>>

PrepareFails(t) ==
  /\ turns[t].pc = "prepare"
  /\ turns' = [turns EXCEPT ![t] = IdleTurn]
  /\ UNCHANGED <<st, appStatus, runs, generationPromise, deepDebugPromise,
                 controller, templateCached, settled, crashes>>

TurnInference(t) ==
  /\ turns[t].pc = "prepare"
  /\ turns' = [turns EXCEPT ![t].pc = "infer"]
  /\ controller' = TRUE
  /\ templateCached' = TRUE
  /\ UNCHANGED <<st, appStatus, runs, generationPromise, deepDebugPromise,
                 settled, crashes>>

(* The answer that was coming in when the signal fired is still handled,   *)
(* its tool calls included.                                                *)
CallsTools(t) == turns[t].pc = "infer"

QueueRequest(t) ==
  /\ CallsTools(t)
  /\ \E q \in Fresh :
       st' = [st EXCEPT !.pendingUserInputs = @ \cup {q},
                        !.phasesCounter = IF @ <= PhasesPerRequest
                                            THEN PhasesPerRequest ELSE @]
  /\ UNCHANGED <<appStatus, runs, generationPromise, turns, deepDebugPromise,
                 controller, templateCached, settled, crashes>>

(* deep_debug: once per turn, refused while generation or another session  *)
(* is in progress.                                                         *)
DeepDebug(t) ==
  /\ CallsTools(t) /\ ~turns[t].debugCalled
  /\ IF generationPromise = None /\ deepDebugPromise = None
       THEN /\ turns' = [turns EXCEPT ![t].debugCalled = TRUE, ![t].pc = "debug"]
            /\ deepDebugPromise' = t
            /\ controller' = TRUE
       ELSE /\ turns' = [turns EXCEPT ![t].debugCalled = TRUE]
            /\ UNCHANGED <<deepDebugPromise, controller>>
  /\ UNCHANGED <<st, appStatus, runs, generationPromise, templateCached,
                 settled, crashes>>

\* Mutant: the finally block of executeDeepDebug is missing.
DebugEnds_NoFinally(t) ==
  /\ turns[t].pc = "debug"
  /\ turns' = Released([turns EXCEPT ![t].pc = "infer"], "waitDebug")
  /\ UNCHANGED <<st, appStatus, runs, generationPromise, deepDebugPromise,
                 controller, templateCached, settled, crashes>>

\* Mutant: the session takes the abort controller with it.
DebugEnds_ClearsController(t) ==
  /\ turns[t].pc = "debug"
  /\ deepDebugPromise' = None
  /\ controller' = FALSE
  /\ runs' = RunsSignalled(runs, "dropped")
  /\ turns' = Released([turns EXCEPT ![t].pc = "infer"], "waitDebug")
  /\ UNCHANGED <<st, appStatus, generationPromise, templateCached, settled, crashes>>

(* The session ends, well or badly; who waited for it clears the promise   *)
(* again, before anything else runs.                                       *)
DebugEnds(t) ==
  /\ turns[t].pc = "debug"
  /\ turns' = Released([turns EXCEPT ![t].pc = "infer"], "waitDebug")
  /\ deepDebugPromise' = None
  /\ UNCHANGED <<st, appStatus, runs, generationPromise, controller,
                 templateCached, settled, crashes>>

(* wait_for_generation and wait_for_debug.  A rejected promise is awaited  *)
(* in no time: only a run in progress makes the turn wait.                 *)
WaitForGeneration(t) ==
  /\ CallsTools(t)
  /\ \E r \in RunIds : generationPromise = r /\ runs[r].pc # "off"
  /\ turns' = [turns EXCEPT ![t].pc = "waitGeneration"]
  /\ UNCHANGED <<st, appStatus, runs, generationPromise, deepDebugPromise,
                 controller, templateCached, settled, crashes>>

WaitForDebug(t) ==
  /\ CallsTools(t)
  /\ deepDebugPromise # None
  /\ turns' = [turns EXCEPT ![t].pc = "waitDebug"]
  /\ UNCHANGED <<st, appStatus, runs, generationPromise, deepDebugPromise,
                 controller, templateCached, settled, crashes>>

(* The turn ends with an answer (the fallback answer when its inference    *)
(* failed) and starts generation if none is in progress.                   *)
TurnEnds(t) ==
  /\ turns[t].pc = "infer"
  /\ turns' = [turns EXCEPT ![t] = IdleTurn]
  /\ IF generationPromise = None /\ ~NothingToDo(st)
       THEN Launch(FALSE)
       ELSE UNCHANGED <<runs, generationPromise>>
  /\ UNCHANGED <<st, appStatus, deepDebugPromise, controller, templateCached,
                 settled, crashes>>

TurnRateLimited(t) ==
  /\ turns[t].pc = "infer"
  /\ turns' = [turns EXCEPT ![t] = IdleTurn]
  /\ UNCHANGED <<st, appStatus, runs, generationPromise, deepDebugPromise,
                 controller, templateCached, settled, crashes>>

TurnStep(t) ==
  \/ PrepareFails(t) \/ TurnInference(t) \/ QueueRequest(t) \/ DeepDebug(t)
  \/ DebugEnds(t) \/ WaitForGeneration(t) \/ WaitForDebug(t)
  \/ TurnEnds(t) \/ TurnRateLimited(t)

-----------------------------------------------------------------------------
(* Eviction: every promise is gone, the persisted state stays.  onStart    *)
(* fills the template cache unless the object wakes for a read-only call.  *)
Evicted ==
  /\ crashes < MaxCrashes
  /\ crashes' = crashes + 1
  /\ runs' = [r \in RunIds |-> Off]
  /\ generationPromise' = None
  /\ turns' = [t \in Turns |-> IdleTurn]
  /\ deepDebugPromise' = None
  /\ controller' = FALSE
  /\ templateCached' \in BOOLEAN
  /\ Settle(Batched, "lost")
  /\ UNCHANGED <<st, appStatus>>

Next ==
  \/ GenerateAll \/ ResumeGeneration \/ StopGeneration
  \/ \E r \in RunIds : RunStep(r)
  \/ \E t \in Turns : UserMessage(t) \/ TurnStep(t)
  \/ Evicted

Spec == Init /\ [][Next]_vars

(* Every await of a run or of a debugging session is answered in the end,  *)
(* one way or the other: inferences, sandbox calls and queries return or   *)
(* throw.  A turn ends in spite of its tool calls, whose depth             *)
(* inferutils/core.ts limits.  Nobody has to send a message.               *)
Fairness ==
  /\ \A r \in RunIds : WF_vars(RunStep(r))
  /\ \A t \in Turns : WF_vars(DebugEnds(t)) /\ SF_vars(TurnEnds(t))

FairSpec == Spec /\ Fairness

(* Nothing goes wrong: no error, no stop, no eviction, a valid blueprint.  *)
Undisturbed ==
  /\ ~StopGeneration /\ ~Evicted
  /\ \A r \in RunIds : /\ ~TemplateFails(r) /\ ~PhaseGenerationFails(r)
                       /\ ~PhaseGenerationRateLimited(r)
                       /\ ~ImplementationFails(r) /\ ~AppUpdateFails(r)
  /\ \A t \in Turns : ~PrepareFails(t) /\ (TurnRateLimited(t) => TurnEnds(t))

UndisturbedSpec ==
  Init /\ st.blueprintValid /\ [][Next /\ Undisturbed]_vars /\ Fairness

-----------------------------------------------------------------------------
(* Safety.                                                                 *)

Active(r) == runs[r].pc # "off"

(* Two invocations of launchStateMachine never run at once, whatever mix   *)
(* of GENERATE_ALL, RESUME_GENERATION and ending turns calls               *)
(* generateAllFiles: the promise is checked and set without an await in    *)
(* between, and no run resets the promise of another.                      *)
OneRunAtATime == \A r1, r2 \in RunIds : Active(r1) /\ Active(r2) => r1 = r2

(* The same for deep_debug sessions: deepDebugPromise is set exactly while *)
(* the session of that turn runs.                                          *)
DebugPromiseExact == \A t \in Turns : turns[t].pc = "debug" <=> deepDebugPromise = t

(* The users can always stop the inference of a run: its signal is that of *)
(* the current controller, whoever else shares it and ended meanwhile.     *)
RunStoppable ==
  \A r \in RunIds : runs[r].pc \in {"inferGen", "inferImpl"} =>
    runs[r].signal = "aborted" \/ (runs[r].signal = "current" /\ controller)

(* No run spends inferences on a phase that is completed already, also     *)
(* when it takes up the state an evicted or failed run left behind.        *)
NoPhaseImplementedTwice ==
  \A r \in RunIds :
    runs[r].pc \in {"issuesImpl", "inferImpl", "deploy"} =>
      /\ runs[r].phase \in 1..Len(st.generatedPhases)
      /\ ~st.generatedPhases[runs[r].phase].completed

(* The final polishing phase is created once in the life of an app, and    *)
(* the user is offered a review only after it.                             *)
FinalizedOnce ==
  /\ \A i, j \in 1..Len(st.generatedPhases) :
       st.generatedPhases[i].kind = "final" /\ st.generatedPhases[j].kind = "final"
         => i = j
  /\ st.reviewingInitiated => st.mvpGenerated

(* A run that reports completion without having broadcast an error has     *)
(* been through finalizing and review.                                     *)
CompletedMeansReviewed ==
  \A r \in RunIds : runs[r].pc = "updateApp" /\ ~runs[r].failed
                      => st.mvpGenerated /\ st.reviewingInitiated

(* Phases are only ever appended, and a completed phase stays so: no       *)
(* interleaved write of the persisted state and no eviction undoes one.    *)
PhasesNeverUndone ==
  [][\A i \in 1..Len(st.generatedPhases) :
       /\ i \in 1..Len(st'.generatedPhases)
       /\ st'.generatedPhases[i].kind = st.generatedPhases[i].kind
       /\ st.generatedPhases[i].completed => st'.generatedPhases[i].completed]_vars

(* The requests of the users go through the life RequestQueue promises.    *)
requestStatus ==
  [q \in Requests |->
     CASE settled[q] # "no" -> settled[q]
       [] q \in st.pendingUserInputs -> "queued"
       [] q \in Batched -> "taken"
       [] OTHER -> "unsent"]

Queue == INSTANCE RequestQueue WITH status <- requestStatus

RequestsServed == Queue!Spec

-----------------------------------------------------------------------------
(* Liveness.                                                               *)

(* A run comes to its end: the phase counter and the last phase see to it  *)
(* that the loop is not fed for ever.                                      *)
GenerationTerminates == \A r \in RunIds : Active(r) ~> ~Active(r)

(* A turn whose tool waits for generation goes on.                         *)
WaitersReleased ==
  \A t \in Turns : turns[t].pc = "waitGeneration" ~> turns[t].pc # "waitGeneration"
=============================================================================
