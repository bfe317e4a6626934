-------------------------- MODULE CodeGenAgentProofs --------------------------
(***************************************************************************)
(* Proofs about CodeGenAgent, for every number of runs, turns, requests    *)
(* and evictions.                                                          *)
(***************************************************************************)
EXTENDS CodeGenAgent, TLAPS

-----------------------------------------------------------------------------
(* The loop of launchStateMachine keeps the types, whatever state it       *)
(* enters.                                                                 *)

(* Persisting and pausing yield a state and a run.                         *)
LEMMA PersistedType ==
  ASSUME NEW s \in CodeGenState, NEW run \in Run, NEW dev \in DevState
  PROVE  Persisted(s, run, dev) \in CodeGenState
BY DEF Persisted, CodeGenState, Run

LEMMA PausedType ==
  ASSUME NEW s \in CodeGenState, NEW run \in Run, NEW pc \in RunPC,
         NEW mode \in {"phase", "resume", "final"}, NEW phase \in Nat
  PROVE  /\ Paused(s, run, pc, mode, phase).state \in CodeGenState
         /\ Paused(s, run, pc, mode, phase).run \in Run
         /\ Paused(s, run, pc, mode, phase).run.pc = pc
BY DEF Paused, Run, Signal

(* Entering a state yields a state and a run that is not over.             *)
LEMMA EnteredType ==
  ASSUME NEW s \in CodeGenState, NEW run \in Run, NEW dev \in DevState
  PROVE  /\ Entered(s, run, dev).state \in CodeGenState
         /\ Entered(s, run, dev).run \in Run
         /\ Entered(s, run, dev).run.pc # "off"
<1> DEFINE Good(e) == e.state \in CodeGenState /\ e.run \in Run /\ e.run.pc # "off"
<1>1. Good(EnterDone(s, run))
  <2>1. Persisted(s, run, "IDLE") \in CodeGenState
    BY PersistedType DEF DevState
  <2>2. QED
    BY <2>1, PausedType DEF EnterDone, RunPC
<1>2. Good(EnterReviewing(s, run))
  <2>1. CASE s.reviewingInitiated
    BY <2>1, <1>1 DEF EnterReviewing
  <2>2. CASE ~s.reviewingInitiated
    <3>1. Persisted(s, run, "REVIEWING") \in CodeGenState
      BY PersistedType DEF DevState
    <3>2. [Persisted(s, run, "REVIEWING") EXCEPT !.reviewingInitiated = TRUE]
            \in CodeGenState
      BY <3>1 DEF CodeGenState
    <3>3. QED
      BY <2>2, <3>2, PausedType DEF EnterReviewing, RunPC
  <2>3. QED
    BY <2>1, <2>2
<1>3. Good(EnterFinalizing(s, run))
  <2>1. CASE s.mvpGenerated
    BY <2>1, <1>2 DEF EnterFinalizing
  <2>2. CASE ~s.mvpGenerated
    <3> DEFINE p == Persisted(s, run, "FINALIZING")
    <3>1. p \in CodeGenState
      BY PersistedType DEF DevState
    <3>2. [kind |-> "final", completed |-> FALSE] \in Phase
      BY DEF Phase, PhaseKind
    <3>3. /\ p.generatedPhases \in Seq(Phase)
          /\ s.generatedPhases \in Seq(Phase)
      BY <3>1 DEF CodeGenState
    <3>4. /\ Append(p.generatedPhases, [kind |-> "final", completed |-> FALSE]) \in Seq(Phase)
          /\ Len(s.generatedPhases) + 1 \in Nat
      BY <3>2, <3>3
    <3>5. [p EXCEPT !.mvpGenerated = TRUE,
                    !.generatedPhases = Append(@, [kind |-> "final", completed |-> FALSE])]
            \in CodeGenState
      BY <3>1, <3>4 DEF CodeGenState
    <3>6. QED
      BY <2>2, <3>4, <3>5, PausedType DEF EnterFinalizing, RunPC
  <2>3. QED
    BY <2>1, <2>2
<1>4. Good(EnterImplementing(s, run))
  <2> DEFINE d == [Persisted(s, run, "PHASE_IMPLEMENTING") EXCEPT !.currentPhase = 0]
  <2>1. d \in CodeGenState
    <3>1. Persisted(s, run, "PHASE_IMPLEMENTING") \in CodeGenState
      BY PersistedType DEF DevState
    <3>2. QED
      BY <3>1 DEF CodeGenState
  <2>2. EnterImplementing(s, run) =
          IF run.concept = 0 THEN Paused(d, run, "issuesGen", "resume", 0)
                             ELSE Paused(d, run, "issuesImpl", "phase", run.concept)
    BY DEF EnterImplementing
  <2>3. run.concept \in Nat
    BY DEF Run
  <2> HIDE DEF d
  <2>4. Good(Paused(d, run, "issuesGen", "resume", 0))
    BY <2>1, PausedType DEF RunPC
  <2>5. \A n \in Nat : Good(Paused(d, run, "issuesImpl", "phase", n))
    BY <2>1, PausedType DEF RunPC
  <2> HIDE DEF Good
  <2>6. QED
    BY <2>2, <2>3, <2>4, <2>5
<1>5. Good(EnterGenerating(s, run))
  <2>1. Persisted(s, run, "PHASE_GENERATING") \in CodeGenState
    BY PersistedType DEF DevState
  <2>2. QED
    BY <2>1, PausedType DEF EnterGenerating, RunPC
<1>6. QED
  BY <1>1, <1>2, <1>3, <1>4, <1>5 DEF Entered, DevState

(* Changing the signals of runs changes nothing else.                      *)
LEMMA SignalledType ==
  ASSUME NEW to \in Signal
  PROVE  \A f \in [RunIds -> Run] :
           /\ RunsSignalled(f, to) \in [RunIds -> Run]
           /\ \A r \in RunIds : RunsSignalled(f, to)[r].pc = f[r].pc
BY DEF RunsSignalled, Run

(* A settled promise releases only turns that wait for it.                 *)
LEMMA ReleasedType ==
  ASSUME NEW f \in [Turns -> Turn], NEW pc \in {"waitGeneration", "waitDebug"}
  PROVE  /\ Released(f, pc) \in [Turns -> Turn]
         /\ \A t \in Turns : Released(f, pc)[t].pc = "debug" <=> f[t].pc = "debug"
BY DEF Released, Turn

LEMMA SettleType ==
  ASSUME settled \in [Requests -> Settled], NEW batch, NEW how \in {"answered", "lost"},
         Settle(batch, how)
  PROVE  settled' \in [Requests -> Settled]
BY DEF Settle, Settled

-----------------------------------------------------------------------------
(* The inductive invariant behind mutual exclusion: who runs holds the     *)
(* promise.  OneRunAtATime alone is not inductive: a run could start while *)
(* another one runs that the promise does not know of.                     *)
RunHoldsPromise == \A r \in RunIds : Active(r) => generationPromise = r

IInv == TypeOK /\ RunHoldsPromise /\ DebugPromiseExact

(* What an action does to the variables the invariant is about.            *)
Steady ==
  /\ \A r \in RunIds : Active(r)' => Active(r)
  /\ generationPromise' = generationPromise

DebugSteady ==
  /\ \A t \in Turns : turns'[t].pc = "debug" <=> turns[t].pc = "debug"
  /\ deepDebugPromise' = deepDebugPromise

LEMMA SteadyInv ==
  ASSUME IInv, TypeOK', Steady, DebugSteady
  PROVE  IInv'
BY DEF IInv, RunHoldsPromise, DebugPromiseExact, Steady, DebugSteady, Active

(* Run r going on keeps the types; no other run is touched, and every turn *)
(* stays where it is.                                                      *)
LEMMA AdvanceType ==
  ASSUME TypeOK, NEW r \in RunIds, NEW s \in CodeGenState, NEW run \in Run,
         NEW dev \in DevState, NEW concept \in Nat,
         Advance(r, s, run, dev, concept)
  PROVE  /\ st' \in CodeGenState
         /\ runs' \in [RunIds -> Run]
         /\ turns' \in [Turns -> Turn]
         /\ controller' \in BOOLEAN
         /\ \A q \in RunIds \ {r} : runs'[q].pc = runs[q].pc
         /\ \A t \in Turns : turns'[t].pc = turns[t].pc
<1> DEFINE e == Entered(s, [run EXCEPT !.concept = concept], dev)
           moved == [runs EXCEPT ![r] = e.run]
<1>1. e.state \in CodeGenState /\ e.run \in Run
  <2>1. [run EXCEPT !.concept = concept] \in Run
    BY DEF Run
  <2>2. QED
    BY <2>1, EnteredType
<1>2. /\ st' = e.state
      /\ IF e.run.pc = "updateApp"
           THEN /\ controller' = FALSE
                /\ runs' = RunsSignalled(moved, "dropped")
           ELSE runs' = moved /\ UNCHANGED controller
      /\ turns' = turns
  BY DEF Advance
<1> HIDE DEF e
<1>3. /\ moved \in [RunIds -> Run]
      /\ \A q \in RunIds \ {r} : moved[q].pc = runs[q].pc
      /\ turns \in [Turns -> Turn]
      /\ controller \in BOOLEAN
  BY <1>1 DEF TypeOK
<1> HIDE DEF moved
<1>4. CASE e.run.pc = "updateApp"
  <2>1. "dropped" \in Signal
    BY DEF Signal
  <2>2. /\ RunsSignalled(moved, "dropped") \in [RunIds -> Run]
        /\ \A q \in RunIds : RunsSignalled(moved, "dropped")[q].pc = moved[q].pc
    BY <1>3, <2>1, SignalledType
  <2>3. QED
    BY <1>1, <1>2, <1>3, <1>4, <2>2
<1>5. CASE e.run.pc # "updateApp"
  BY <1>1, <1>2, <1>3, <1>5
<1>6. QED
  BY <1>4, <1>5

(* An action of a run that ends in Advance, with the effects they share.   *)
LEMMA AdvanceInv ==
  ASSUME IInv, NEW r \in RunIds, Active(r),
         NEW s \in CodeGenState, NEW run \in Run,
         NEW dev \in DevState, NEW concept \in Nat,
         Advance(r, s, run, dev, concept),
         appStatus' = appStatus, generationPromise' = generationPromise,
         deepDebugPromise' = deepDebugPromise,
         templateCached' \in BOOLEAN, crashes' = crashes,
         settled' \in [Requests -> Settled]
  PROVE  IInv'
<1>1. TypeOK'
  BY AdvanceType DEF IInv, TypeOK
<1>2. Steady /\ DebugSteady
  BY AdvanceType DEF IInv, Steady, DebugSteady, Active
<1>3. QED
  BY <1>1, <1>2, SteadyInv

(* A run that fails gives up the promise it holds.                         *)
LEMMA AbandonInv ==
  ASSUME IInv, NEW r \in RunIds, Active(r), Abandon(r)
  PROVE  IInv'
<1>1. "dropped" \in Signal
  BY DEF Signal
<1> DEFINE f == [runs EXCEPT ![r] = Off]
           g == Released(turns, "waitGeneration")
<1>2. f \in [RunIds -> Run] /\ f[r].pc = "off" /\ \A q \in RunIds \ {r} : f[q] = runs[q]
  BY DEF IInv, TypeOK, Off, Run, RunPC, Signal
<1>3. /\ g \in [Turns -> Turn]
      /\ \A t \in Turns : g[t].pc = "debug" <=> turns[t].pc = "debug"
  BY ReleasedType DEF IInv, TypeOK
<1>4. st' \in CodeGenState
  BY DEF Abandon, Ended, IInv, TypeOK, CodeGenState, DevState, Run
<1>5. /\ runs' = RunsSignalled(f, "dropped")
      /\ turns' = g
  BY DEF Abandon
<1> HIDE DEF f, g
<1>6. /\ runs' \in [RunIds -> Run]
      /\ \A q \in RunIds : runs'[q].pc = f[q].pc
      /\ turns' \in [Turns -> Turn]
      /\ \A t \in Turns : turns'[t].pc = g[t].pc
  BY <1>1, <1>2, <1>3, <1>5, SignalledType
<1>7. settled' \in [Requests -> Settled]
  BY SettleType DEF Abandon, IInv, TypeOK
<1>8. TypeOK'
  BY <1>4, <1>6, <1>7 DEF Abandon, Ended, IInv, TypeOK
<1>9. RunHoldsPromise'
  BY <1>2, <1>6 DEF IInv, RunHoldsPromise, Active
<1>10. DebugPromiseExact'
  BY <1>3, <1>6 DEF IInv, DebugPromiseExact, Abandon
<1>11. QED
  BY <1>8, <1>9, <1>10 DEF IInv

(* A run that ends regularly gives up the promise it holds.                *)
LEMMA EndedInv ==
  ASSUME IInv, NEW r \in RunIds, Active(r), NEW s \in CodeGenState, Ended(r, s),
         runs' = [runs EXCEPT ![r] = Off],
         turns' = Released(turns, "waitGeneration"),
         appStatus' \in {"generating", "completed"}, controller' = controller,
         deepDebugPromise' = deepDebugPromise, templateCached' \in BOOLEAN,
         settled' = settled, crashes' = crashes
  PROVE  IInv'
<1>1. st' \in CodeGenState
  BY DEF Ended, IInv, TypeOK, CodeGenState, Run
<1>2. /\ runs' \in [RunIds -> Run]
      /\ runs'[r].pc = "off"
      /\ \A q \in RunIds \ {r} : runs'[q] = runs[q]
  BY DEF IInv, TypeOK, Off, Run, RunPC, Signal
<1>3. /\ turns' \in [Turns -> Turn]
      /\ \A t \in Turns : turns'[t].pc = "debug" <=> turns[t].pc = "debug"
  BY ReleasedType DEF IInv, TypeOK
<1>4. TypeOK'
  BY <1>1, <1>2, <1>3 DEF Ended, IInv, TypeOK
<1>5. RunHoldsPromise'
  BY <1>2 DEF IInv, RunHoldsPromise, Active
<1>6. DebugPromiseExact'
  BY <1>3 DEF IInv, DebugPromiseExact
<1>7. QED
  BY <1>4, <1>5, <1>6 DEF IInv

(* generateAllFiles starts a run only when nobody holds the promise.       *)
LEMMA LaunchInv ==
  ASSUME IInv, NEW clears \in BOOLEAN, generationPromise = None, Launch(clears),
         st' \in CodeGenState, appStatus' = appStatus,
         turns' \in [Turns -> Turn], DebugSteady, controller' = controller,
         templateCached' = templateCached, settled' = settled, crashes' = crashes
  PROVE  IInv'
<1>1. PICK r \in RunIds :
        /\ runs[r].pc = "off"
        /\ runs' = [runs EXCEPT ![r] = [Off EXCEPT !.pc = "template", !.clears = clears]]
        /\ generationPromise' = r
  BY DEF Launch
<1>2. [Off EXCEPT !.pc = "template", !.clears = clears] \in Run
  BY DEF Off, Run, RunPC, Signal
<1>3. /\ runs' \in [RunIds -> Run]
      /\ \A q \in RunIds \ {r} : runs'[q] = runs[q]
  BY <1>1, <1>2 DEF IInv, TypeOK
<1>4. TypeOK'
  BY <1>1, <1>3 DEF IInv, TypeOK, DebugSteady
<1>5. \A q \in RunIds : ~Active(q)
  BY AgentAssumption DEF IInv, RunHoldsPromise
<1>6. RunHoldsPromise'
  BY <1>1, <1>3, <1>5 DEF RunHoldsPromise, Active
<1>7. DebugPromiseExact'
  BY DEF IInv, DebugPromiseExact, DebugSteady
<1>8. QED
  BY <1>4, <1>6, <1>7 DEF IInv

-----------------------------------------------------------------------------
(* One lemma per kind of actor.                                            *)

LEMMA MessageInv ==
  ASSUME IInv, GenerateAll \/ ResumeGeneration \/ StopGeneration
  PROVE  IInv'
<1> DEFINE wanted(b) == [st EXCEPT !.shouldBeGenerating = b]
<1>1. \A b \in BOOLEAN : wanted(b) \in CodeGenState
  BY DEF IInv, TypeOK, CodeGenState
<1>2. CASE GenerateAll
  <2>1. st' \in CodeGenState
    BY <1>1, <1>2 DEF GenerateAll
  <2>2. DebugSteady /\ turns' \in [Turns -> Turn]
    BY <1>2 DEF GenerateAll, DebugSteady, IInv, TypeOK
  <2>3. CASE UNCHANGED <<runs, generationPromise>>
    <3>1. TypeOK' /\ Steady
      BY <1>2, <2>1, <2>3 DEF GenerateAll, IInv, TypeOK, Steady, Active
    <3>2. QED
      BY <2>2, <3>1, SteadyInv
  <2>4. CASE generationPromise = None /\ Launch(TRUE)
    BY <1>2, <2>1, <2>2, <2>4, LaunchInv DEF GenerateAll
  <2>5. QED
    BY <1>2, <2>3, <2>4 DEF GenerateAll
<1>3. CASE ResumeGeneration
  <2>1. st' \in CodeGenState
    BY <1>1, <1>3 DEF ResumeGeneration
  <2>2. DebugSteady /\ turns' \in [Turns -> Turn]
    BY <1>3 DEF ResumeGeneration, DebugSteady, IInv, TypeOK
  <2>3. CASE UNCHANGED <<runs, generationPromise>>
    <3>1. TypeOK' /\ Steady
      BY <1>3, <2>1, <2>3 DEF ResumeGeneration, IInv, TypeOK, Steady, Active
    <3>2. QED
      BY <2>2, <3>1, SteadyInv
  <2>4. CASE generationPromise = None /\ Launch(FALSE)
    BY <1>3, <2>1, <2>2, <2>4, LaunchInv DEF ResumeGeneration
  <2>5. QED
    BY <1>3, <2>3, <2>4 DEF ResumeGeneration
<1>4. CASE StopGeneration
  <2>1. st' \in CodeGenState
    BY <1>1, <1>4 DEF StopGeneration
  <2>2. /\ runs' \in [RunIds -> Run]
        /\ turns' \in [Turns -> Turn]
        /\ \A r \in RunIds : runs'[r].pc = runs[r].pc
        /\ \A t \in Turns : turns'[t].pc = turns[t].pc
    <3>1. "aborted" \in Signal
      BY DEF Signal
    <3>2. runs \in [RunIds -> Run] /\ turns \in [Turns -> Turn]
      BY DEF IInv, TypeOK
    <3>3. CASE controller
      BY <1>4, <3>1, <3>2, <3>3, SignalledType DEF StopGeneration
    <3>4. CASE ~controller
      BY <1>4, <3>2, <3>4 DEF StopGeneration
    <3>5. QED
      BY <3>3, <3>4
  <2>3. TypeOK'
    BY <1>4, <2>1, <2>2 DEF StopGeneration, IInv, TypeOK
  <2>4. Steady /\ DebugSteady
    BY <1>4, <2>2 DEF StopGeneration, Steady, DebugSteady, Active
  <2>5. QED
    BY <2>3, <2>4, SteadyInv
<1>5. QED
  BY <1>2, <1>3, <1>4

(* Marking a phase complete keeps the sequence and its length.             *)
LEMMA MarkedType ==
  ASSUME NEW phases \in Seq(Phase), NEW i \in Nat
  PROVE  /\ [phases EXCEPT ![i].completed = TRUE] \in Seq(Phase)
         /\ Len([phases EXCEPT ![i].completed = TRUE]) = Len(phases)
<1> DEFINE marked == [phases EXCEPT ![i].completed = TRUE]
<1>1. phases \in [1..Len(phases) -> Phase] /\ Len(phases) \in Nat
  OBVIOUS
<1>2. marked \in [1..Len(phases) -> Phase]
  BY <1>1 DEF Phase
<1>3. QED
  BY <1>1, <1>2

LEMMA BeginInv ==
  ASSUME IInv, NEW r \in RunIds, runs[r].pc = "template",
         \/ BeginFromPersisted(r) \/ BeginFromIncomplete(r)
         \/ BeginNextPhase(r) \/ BeginInitialPhase(r)
  PROVE  IInv'
<1>1. /\ st \in CodeGenState
      /\ runs[r] \in Run
      /\ st.currentDevState \in DevState
      /\ st.currentPhase \in Nat
      /\ st.generatedPhases \in Seq(Phase)
  BY DEF IInv, TypeOK, CodeGenState
<1>2. ASSUME NEW s \in CodeGenState, NEW dev \in DevState, NEW concept \in Nat,
             Begin(r, s, dev, concept)
      PROVE  IInv'
  <2>1. settled' \in [Requests -> Settled] /\ templateCached' \in BOOLEAN
    BY <1>2 DEF Begin, IInv, TypeOK
  <2>2. QED
    BY <1>1, <1>2, <2>1, AdvanceInv DEF Begin, Active
<1>3. "PHASE_IMPLEMENTING" \in DevState /\ "PHASE_GENERATING" \in DevState
  BY DEF DevState
<1>4. CASE BeginFromPersisted(r)
  BY <1>1, <1>2, <1>4 DEF BeginFromPersisted
<1>5. CASE BeginFromIncomplete(r)
  <2>1. PICK i \in Incomplete : Begin(r, st, "PHASE_IMPLEMENTING", i)
    BY <1>5 DEF BeginFromIncomplete
  <2>2. i \in Nat
    BY <1>1 DEF Incomplete
  <2>3. QED
    BY <1>1, <1>2, <1>3, <2>1, <2>2
<1>6. CASE BeginNextPhase(r)
  BY <1>1, <1>2, <1>3, <1>6 DEF BeginNextPhase
<1>7. CASE BeginInitialPhase(r)
  <2>1. PICK kind \in {"dev", "last"} :
          Begin(r, [st EXCEPT !.generatedPhases = <<[kind |-> kind, completed |-> FALSE]>>],
                "PHASE_IMPLEMENTING", 1)
    BY <1>7 DEF BeginInitialPhase
  <2>2. <<[kind |-> kind, completed |-> FALSE]>> \in Seq(Phase)
    BY DEF Phase, PhaseKind
  <2>3. [st EXCEPT !.generatedPhases = <<[kind |-> kind, completed |-> FALSE]>>] \in CodeGenState
    BY <1>1, <2>2 DEF CodeGenState
  <2>4. QED
    BY <1>2, <1>3, <2>1, <2>3
<1>8. QED
  BY <1>4, <1>5, <1>6, <1>7

LEMMA GenerationInv ==
  ASSUME IInv, NEW r \in RunIds,
         \/ IssuesForGeneration(r) \/ PhaseGenerated(r) \/ NoMorePhases(r)
         \/ PhaseGenerationFails(r) \/ PhaseGenerationRateLimited(r)
  PROVE  IInv'
<1>1. /\ st \in CodeGenState
      /\ runs \in [RunIds -> Run]
      /\ runs[r] \in Run
      /\ st.generatedPhases \in Seq(Phase)
      /\ settled \in [Requests -> Settled]
      /\ templateCached \in BOOLEAN
  BY DEF IInv, TypeOK, CodeGenState
<1>2. CASE IssuesForGeneration(r)
  <2>1. st.pendingUserInputs \subseteq Requests
    BY <1>1 DEF CodeGenState
  <2>2. st' \in CodeGenState
    BY <1>1, <1>2 DEF IssuesForGeneration, CodeGenState
  <2>3. runs' \in [RunIds -> Run]
    BY <1>1, <1>2, <2>1 DEF IssuesForGeneration, Run, RunPC, Signal
  <2>4. TypeOK'
    BY <1>2, <2>2, <2>3 DEF IssuesForGeneration, IInv, TypeOK
  <2>5. Steady /\ DebugSteady
    BY <1>1, <1>2 DEF IssuesForGeneration, Steady, DebugSteady, Active
  <2>6. QED
    BY <2>4, <2>5, SteadyInv
<1>3. CASE PhaseGenerated(r)
  <2>1. PICK kind \in {"dev", "last"} :
          LET s == [st EXCEPT !.generatedPhases =
                                Append(@, [kind |-> kind, completed |-> FALSE])]
              new == Len(s.generatedPhases)
          IN IF runs[r].mode = "phase"
               THEN Advance(r, s, runs[r], "PHASE_IMPLEMENTING", new)
               ELSE /\ st' = [s EXCEPT !.currentPhase = 0]
                    /\ runs' = [runs EXCEPT ![r].pc = "issuesImpl", ![r].phase = new,
                                            ![r].batch = {}, ![r].signal = "none"]
                    /\ UNCHANGED <<controller, turns>>
    BY <1>3 DEF PhaseGenerated
  <2> DEFINE s == [st EXCEPT !.generatedPhases =
                               Append(@, [kind |-> kind, completed |-> FALSE])]
             new == Len(s.generatedPhases)
  <2>2. s \in CodeGenState /\ new \in Nat
    <3>1. [kind |-> kind, completed |-> FALSE] \in Phase
      BY DEF Phase, PhaseKind
    <3>2. Append(st.generatedPhases, [kind |-> kind, completed |-> FALSE]) \in Seq(Phase)
      BY <1>1, <3>1
    <3>3. s \in CodeGenState
      BY <1>1, <3>2 DEF CodeGenState
    <3>4. s.generatedPhases = Append(st.generatedPhases, [kind |-> kind, completed |-> FALSE])
      BY <1>1 DEF CodeGenState
    <3>5. QED
      BY <3>2, <3>3, <3>4
  <2>3. settled' \in [Requests -> Settled]
    BY <1>1, <1>3, SettleType DEF PhaseGenerated
  <2>4. /\ IF runs[r].mode = "phase"
             THEN Advance(r, s, runs[r], "PHASE_IMPLEMENTING", new)
             ELSE /\ st' = [s EXCEPT !.currentPhase = 0]
                  /\ runs' = [runs EXCEPT ![r].pc = "issuesImpl", ![r].phase = new,
                                          ![r].batch = {}, ![r].signal = "none"]
                  /\ UNCHANGED <<controller, turns>>
        /\ UNCHANGED <<appStatus, generationPromise, deepDebugPromise,
                       templateCached, crashes>>
        /\ runs[r].pc = "inferGen"
    BY <1>3, <2>1 DEF PhaseGenerated
  <2> HIDE DEF s, new
  <2>5. CASE runs[r].mode = "phase"
    <3>1. "PHASE_IMPLEMENTING" \in DevState
      BY DEF DevState
    <3>2. QED
      BY <1>1, <2>2, <2>3, <2>4, <2>5, <3>1, AdvanceInv DEF Active
  <2>6. CASE runs[r].mode # "phase"
    <3>1. st' \in CodeGenState
      BY <2>2, <2>4, <2>6 DEF CodeGenState
    <3>2. runs' \in [RunIds -> Run]
      <4>1. [runs[r] EXCEPT !.pc = "issuesImpl", !.phase = new, !.batch = {},
                            !.signal = "none"] \in Run
        BY <1>1, <2>2 DEF Run, RunPC, Signal
      <4>2. QED
        BY <1>1, <2>4, <2>6, <4>1
    <3>3. TypeOK'
      BY <2>3, <2>4, <2>6, <3>1, <3>2 DEF IInv, TypeOK
    <3>4. Steady /\ DebugSteady
      BY <1>1, <2>4, <2>6 DEF Steady, DebugSteady, Active
    <3>5. QED
      BY <3>3, <3>4, SteadyInv
  <2>7. QED
    BY <2>5, <2>6
<1>4. CASE NoMorePhases(r)
  <2>1. settled' \in [Requests -> Settled]
    BY <1>1, <1>4, SettleType DEF NoMorePhases
  <2>2. "FINALIZING" \in DevState /\ 0 \in Nat
    BY DEF DevState
  <2>3. QED
    BY <1>1, <1>4, <2>1, <2>2, AdvanceInv DEF NoMorePhases, Active
<1>5. CASE PhaseGenerationFails(r)
  <2> DEFINE failing == [runs[r] EXCEPT !.failed = TRUE]
             dev == IF runs[r].mode = "phase" THEN "IDLE" ELSE "FINALIZING"
  <2>1. settled' \in [Requests -> Settled]
    BY <1>1, <1>5, SettleType DEF PhaseGenerationFails
  <2>2. failing \in Run /\ dev \in DevState /\ 0 \in Nat
    BY <1>1 DEF Run, DevState
  <2>3. /\ Advance(r, st, failing, dev, 0)
        /\ runs[r].pc = "inferGen"
        /\ UNCHANGED <<appStatus, generationPromise, deepDebugPromise,
                       templateCached, crashes>>
    BY <1>5 DEF PhaseGenerationFails
  <2> HIDE DEF failing, dev
  <2>4. QED
    BY <1>1, <2>1, <2>2, <2>3, AdvanceInv DEF Active
<1>6. CASE PhaseGenerationRateLimited(r)
  BY <1>6, AbandonInv DEF PhaseGenerationRateLimited, Active
<1>7. QED
  BY <1>2, <1>3, <1>4, <1>5, <1>6

LEMMA ImplementationInv ==
  ASSUME IInv, NEW r \in RunIds,
         \/ IssuesForImplementation(r) \/ FilesGenerated(r) \/ PhaseCompleted(r)
         \/ ImplementationFails(r) \/ IssuesForReview(r)
  PROVE  IInv'
<1>1. /\ st \in CodeGenState
      /\ runs \in [RunIds -> Run]
      /\ runs[r] \in Run
      /\ runs[r].phase \in Nat
      /\ runs[r].concept \in Nat
      /\ st.generatedPhases \in Seq(Phase)
      /\ settled \in [Requests -> Settled]
      /\ templateCached \in BOOLEAN
  BY DEF IInv, TypeOK, CodeGenState, Run
<1>2. CASE IssuesForImplementation(r) \/ FilesGenerated(r)
  <2>1. runs' \in [RunIds -> Run]
    <3>1. /\ [runs[r] EXCEPT !.pc = "inferImpl", !.signal = "current"] \in Run
          /\ [runs[r] EXCEPT !.pc = "deploy", !.signal = "none"] \in Run
      BY <1>1 DEF Run, RunPC, Signal
    <3>2. \/ runs' = [runs EXCEPT ![r] = [runs[r] EXCEPT !.pc = "inferImpl",
                                                         !.signal = "current"]]
          \/ runs' = [runs EXCEPT ![r] = [runs[r] EXCEPT !.pc = "deploy",
                                                         !.signal = "none"]]
      BY <1>1, <1>2 DEF IssuesForImplementation, FilesGenerated
    <3>3. QED
      BY <1>1, <3>1, <3>2
  <2>2. TypeOK'
    BY <1>2, <2>1 DEF IssuesForImplementation, FilesGenerated, IInv, TypeOK
  <2>3. Steady /\ DebugSteady
    BY <1>1, <1>2 DEF IssuesForImplementation, FilesGenerated, Steady, DebugSteady, Active
  <2>4. QED
    BY <2>2, <2>3, SteadyInv
<1>3. CASE PhaseCompleted(r)
  <2> DEFINE i == runs[r].phase
             marked == [st EXCEPT !.generatedPhases[i].completed = TRUE]
             counted == [marked EXCEPT !.phasesCounter = @ - 1]
  <2>1. marked \in CodeGenState
    <3>1. [st.generatedPhases EXCEPT ![i].completed = TRUE] \in Seq(Phase)
      BY <1>1, MarkedType
    <3>2. marked = [st EXCEPT !.generatedPhases =
                                [st.generatedPhases EXCEPT ![i].completed = TRUE]]
      OBVIOUS
    <3>3. QED
      BY <1>1, <3>1, <3>2 DEF CodeGenState
  <2>2. counted \in CodeGenState
    <3> HIDE DEF marked
    <3>1. marked.phasesCounter \in Int
      BY <2>1 DEF CodeGenState
    <3>2. QED
      BY <2>1, <3>1 DEF CodeGenState
  <2>3. \E s \in {marked, counted}, dev \in {"REVIEWING", "FINALIZING", "PHASE_GENERATING"} :
          Advance(r, s, runs[r], dev, runs[r].concept)
    BY <1>3 DEF PhaseCompleted
  <2>4. /\ runs[r].pc = "deploy"
        /\ UNCHANGED <<appStatus, generationPromise, deepDebugPromise,
                       templateCached, settled, crashes>>
    BY <1>3 DEF PhaseCompleted
  <2> HIDE DEF marked, counted
  <2>5. QED
    BY <1>1, <2>1, <2>2, <2>3, <2>4, AdvanceInv DEF DevState, Active
<1>4. CASE ImplementationFails(r)
  BY <1>4, AbandonInv DEF ImplementationFails, Active
<1>5. CASE IssuesForReview(r)
  <2>1. "IDLE" \in DevState
    BY DEF DevState
  <2>2. QED
    BY <1>1, <1>5, <2>1, AdvanceInv DEF IssuesForReview, Active
<1>6. QED
  BY <1>2, <1>3, <1>4, <1>5

LEMMA RunStepInv ==
  ASSUME IInv, NEW r \in RunIds, RunStep(r)
  PROVE  IInv'
<1>1. CASE TemplateFails(r)
  <2>1. /\ turns' \in [Turns -> Turn]
        /\ \A t \in Turns : turns'[t].pc = "debug" <=> turns[t].pc = "debug"
    BY <1>1, ReleasedType DEF TemplateFails, IInv, TypeOK
  <2>2. runs' \in [RunIds -> Run]
    BY <1>1 DEF TemplateFails, IInv, TypeOK, Off, Run, RunPC, Signal
  <2>3. TypeOK'
    BY <1>1, <2>1, <2>2 DEF TemplateFails, IInv, TypeOK
  <2>4. Steady /\ DebugSteady
    BY <1>1, <2>1 DEF TemplateFails, Steady, DebugSteady, Active, IInv, TypeOK, Off
  <2>5. QED
    BY <2>3, <2>4, SteadyInv
<1>2. CASE \/ BeginFromPersisted(r) \/ BeginFromIncomplete(r)
           \/ BeginNextPhase(r) \/ BeginInitialPhase(r)
  BY <1>2, BeginInv DEF BeginFromPersisted, BeginFromIncomplete, BeginNextPhase,
                        BeginInitialPhase
<1>3. CASE BlueprintInvalid(r)
  <2>1. [st EXCEPT !.currentPhase = 0] \in CodeGenState
    BY DEF IInv, TypeOK, CodeGenState
  <2>2. QED
    BY <1>3, <2>1, EndedInv DEF BlueprintInvalid, Active, IInv, TypeOK
<1>4. CASE \/ IssuesForGeneration(r) \/ PhaseGenerated(r) \/ NoMorePhases(r)
           \/ PhaseGenerationFails(r) \/ PhaseGenerationRateLimited(r)
  BY <1>4, GenerationInv
<1>5. CASE \/ IssuesForImplementation(r) \/ FilesGenerated(r) \/ PhaseCompleted(r)
           \/ ImplementationFails(r) \/ IssuesForReview(r)
  BY <1>5, ImplementationInv
<1>6. CASE AppUpdated(r)
  <2>1. st \in CodeGenState
    BY DEF IInv, TypeOK
  <2>2. QED
    BY <1>6, <2>1, EndedInv DEF AppUpdated, Active, IInv, TypeOK
<1>7. CASE AppUpdateFails(r)
  BY <1>7, AbandonInv DEF AppUpdateFails, Active
<1>8. QED
  BY <1>1, <1>2, <1>3, <1>4, <1>5, <1>6, <1>7 DEF RunStep

LEMMA TurnStepInv ==
  ASSUME IInv, NEW t \in Turns, UserMessage(t) \/ TurnStep(t)
  PROVE  IInv'
<1>1. turns[t] \in Turn /\ IdleTurn \in Turn /\ turns \in [Turns -> Turn]
  BY DEF IInv, TypeOK, IdleTurn, Turn, Signal
<1>2. CASE UserMessage(t) \/ PrepareFails(t) \/ TurnInference(t)
           \/ WaitForGeneration(t) \/ WaitForDebug(t) \/ TurnRateLimited(t)
  <2>1. \E u \in Turn : /\ turns' = [turns EXCEPT ![t] = u]
                        /\ u.pc # "debug" /\ turns[t].pc # "debug"
    <3>1. CASE UserMessage(t)
      <4>1. [turns[t] EXCEPT !.pc = "prepare"] \in Turn
        BY <1>1 DEF Turn
      <4>2. QED
        BY <1>1, <3>1, <4>1 DEF UserMessage, Turn
    <3>2. CASE PrepareFails(t)
      BY <1>1, <3>2 DEF PrepareFails, IdleTurn
    <3>3. CASE TurnInference(t)
      <4>1. [turns[t] EXCEPT !.pc = "infer"] \in Turn
        BY <1>1 DEF Turn
      <4>2. QED
        BY <1>1, <3>3, <4>1 DEF TurnInference, Turn
    <3>4. CASE WaitForGeneration(t)
      <4>1. [turns[t] EXCEPT !.pc = "waitGeneration"] \in Turn
        BY <1>1 DEF Turn
      <4>2. QED
        BY <1>1, <3>4, <4>1 DEF WaitForGeneration, CallsTools, Turn
    <3>5. CASE WaitForDebug(t)
      <4>1. [turns[t] EXCEPT !.pc = "waitDebug"] \in Turn
        BY <1>1 DEF Turn
      <4>2. QED
        BY <1>1, <3>5, <4>1 DEF WaitForDebug, CallsTools, Turn
    <3>6. CASE TurnRateLimited(t)
      BY <1>1, <3>6 DEF TurnRateLimited, IdleTurn
    <3>7. QED
      BY <1>2, <3>1, <3>2, <3>3, <3>4, <3>5, <3>6
  <2>2. /\ turns' \in [Turns -> Turn]
        /\ \A u \in Turns : turns'[u].pc = "debug" <=> turns[u].pc = "debug"
    BY <1>1, <2>1
  <2>3. TypeOK'
    BY <1>2, <2>2 DEF UserMessage, PrepareFails, TurnInference, WaitForGeneration,
         WaitForDebug, TurnRateLimited, IInv, TypeOK
  <2>4. Steady /\ DebugSteady
    BY <1>2, <2>2 DEF UserMessage, PrepareFails, TurnInference, WaitForGeneration,
         WaitForDebug, TurnRateLimited, Steady, DebugSteady, Active
  <2>5. QED
    BY <2>3, <2>4, SteadyInv
<1>3. CASE QueueRequest(t)
  <2>1. PICK q \in Requests :
          st' = [st EXCEPT !.pendingUserInputs = @ \cup {q},
                           !.phasesCounter = IF @ <= PhasesPerRequest
                                               THEN PhasesPerRequest ELSE @]
    BY <1>3 DEF QueueRequest, Fresh
  <2>2. PhasesPerRequest \in Int
    BY AgentAssumption
  <2>3. st' \in CodeGenState
    BY <2>1, <2>2 DEF IInv, TypeOK, CodeGenState
  <2>4. TypeOK'
    BY <1>3, <2>3 DEF QueueRequest, IInv, TypeOK
  <2>5. Steady /\ DebugSteady
    BY <1>3 DEF QueueRequest, Steady, DebugSteady, Active
  <2>6. QED
    BY <2>4, <2>5, SteadyInv
<1>4. CASE DeepDebug(t)
  <2>1. turns' \in [Turns -> Turn]
    <3>1. /\ [turns[t] EXCEPT !.debugCalled = TRUE] \in Turn
          /\ [turns[t] EXCEPT !.debugCalled = TRUE, !.pc = "debug"] \in Turn
      BY <1>1 DEF Turn
    <3>2. \/ turns' = [turns EXCEPT ![t] = [turns[t] EXCEPT !.debugCalled = TRUE]]
          \/ turns' = [turns EXCEPT ![t] = [turns[t] EXCEPT !.debugCalled = TRUE,
                                                       !.pc = "debug"]]
      BY <1>1, <1>4 DEF DeepDebug
    <3>3. QED
      BY <1>1, <3>1, <3>2
  <2>2. TypeOK'
    BY <1>4, <2>1 DEF DeepDebug, IInv, TypeOK
  <2>3. RunHoldsPromise'
    BY <1>4 DEF DeepDebug, IInv, RunHoldsPromise, Active
  <2>4. DebugPromiseExact'
    <3>1. CASE generationPromise = None /\ deepDebugPromise = None
      <4>1. \A u \in Turns : turns[u].pc # "debug"
        BY <3>1, AgentAssumption DEF IInv, DebugPromiseExact
      <4>2. /\ turns' = [turns EXCEPT ![t] = [turns[t] EXCEPT !.debugCalled = TRUE,
                                                           !.pc = "debug"]]
            /\ deepDebugPromise' = t
        BY <1>1, <1>4, <3>1 DEF DeepDebug
      <4>3. [turns[t] EXCEPT !.debugCalled = TRUE, !.pc = "debug"].pc = "debug"
        BY <1>1 DEF Turn
      <4>4. \A u \in Turns : turns'[u].pc = "debug" <=> u = t
        BY <1>1, <4>1, <4>2, <4>3
      <4>5. QED
        BY <4>2, <4>4 DEF DebugPromiseExact
    <3>2. CASE ~(generationPromise = None /\ deepDebugPromise = None)
      <4>1. turns' = [turns EXCEPT ![t] = [turns[t] EXCEPT !.debugCalled = TRUE]]
        BY <1>1, <1>4, <3>2 DEF DeepDebug
      <4>2. [turns[t] EXCEPT !.debugCalled = TRUE].pc = turns[t].pc
        BY <1>1 DEF Turn
      <4>3. \A u \in Turns : turns'[u].pc = turns[u].pc
        BY <1>1, <4>1, <4>2
      <4>4. UNCHANGED deepDebugPromise
        BY <1>4, <3>2 DEF DeepDebug
      <4>5. QED
        BY <4>3, <4>4 DEF IInv, DebugPromiseExact
    <3>3. QED
      BY <3>1, <3>2
  <2>5. QED
    BY <2>2, <2>3, <2>4 DEF IInv
<1>5. CASE DebugEnds(t)
  <2> DEFINE f == [turns EXCEPT ![t].pc = "infer"]
  <2>1. /\ f \in [Turns -> Turn]
        /\ f[t].pc = "infer"
        /\ \A u \in Turns \ {t} : f[u] = turns[u]
    BY <1>1 DEF Turn, Signal
  <2>2. turns' = Released(f, "waitDebug")
    BY <1>5 DEF DebugEnds
  <2> HIDE DEF f
  <2>3. /\ turns' \in [Turns -> Turn]
        /\ \A u \in Turns : turns'[u].pc = "debug" <=> f[u].pc = "debug"
    BY <2>1, <2>2, ReleasedType
  <2>4. TypeOK'
    BY <1>5, <2>3 DEF DebugEnds, IInv, TypeOK
  <2>5. RunHoldsPromise'
    BY <1>5 DEF DebugEnds, IInv, RunHoldsPromise, Active
  <2>6. \A u \in Turns : turns'[u].pc # "debug"
    BY <1>5, <2>1, <2>3 DEF DebugEnds, IInv, DebugPromiseExact
  <2>7. DebugPromiseExact'
    BY <1>5, <2>6, AgentAssumption DEF DebugEnds, DebugPromiseExact
  <2>8. QED
    BY <2>4, <2>5, <2>7 DEF IInv
<1>6. CASE TurnEnds(t)
  <2>1. turns' \in [Turns -> Turn] /\ DebugSteady
    BY <1>1, <1>6 DEF TurnEnds, DebugSteady, IdleTurn
  <2>2. CASE UNCHANGED <<runs, generationPromise>>
    <3>1. TypeOK' /\ Steady
      BY <1>6, <2>1, <2>2 DEF TurnEnds, IInv, TypeOK, Steady, Active
    <3>2. QED
      BY <2>1, <3>1, SteadyInv
  <2>3. CASE generationPromise = None /\ Launch(FALSE)
    <3>1. st' \in CodeGenState
      BY <1>6 DEF TurnEnds, IInv, TypeOK
    <3>2. QED
      BY <1>6, <2>1, <2>3, <3>1, LaunchInv DEF TurnEnds
  <2>4. QED
    BY <1>6, <2>2, <2>3 DEF TurnEnds
<1>7. QED
  BY <1>2, <1>3, <1>4, <1>5, <1>6 DEF TurnStep

(* The records of idle activities are well typed.                          *)
LEMMA OffType == Off \in Run /\ IdleTurn \in Turn
BY DEF Off, Run, RunPC, Signal, IdleTurn, Turn

LEMMA EvictedInv ==
  ASSUME IInv, Evicted
  PROVE  IInv'
<1>1. runs' \in [RunIds -> Run] /\ turns' \in [Turns -> Turn]
  BY OffType DEF Evicted
<1>2. settled' \in [Requests -> Settled]
  BY SettleType DEF Evicted, IInv, TypeOK
<1>3. crashes' \in 0..MaxCrashes
  BY AgentAssumption DEF Evicted, IInv, TypeOK
<1>4. TypeOK'
  BY <1>1, <1>2, <1>3 DEF Evicted, IInv, TypeOK
<1>5. RunHoldsPromise' /\ DebugPromiseExact'
  BY AgentAssumption DEF Evicted, RunHoldsPromise, DebugPromiseExact, Active, Off, IdleTurn
<1>6. QED
  BY <1>4, <1>5 DEF IInv

-----------------------------------------------------------------------------
(* IInv holds in the initial states and every step preserves it.           *)
LEMMA InitInv == Init => IInv
<1> SUFFICES ASSUME Init PROVE IInv
  OBVIOUS
<1>1. st \in CodeGenState
  <2>1. <<>> \in Seq(Phase) /\ MaxPhases \in Int
    BY AgentAssumption
  <2>2. QED
    BY <2>1 DEF Init, CodeGenState, DevState
<1>2. runs \in [RunIds -> Run] /\ turns \in [Turns -> Turn]
  BY OffType DEF Init
<1>3. TypeOK
  <2>1. settled \in [Requests -> Settled]
    BY DEF Init, Settled
  <2>2. crashes \in 0..MaxCrashes
    BY AgentAssumption DEF Init
  <2>3. QED
    BY <1>1, <1>2, <2>1, <2>2 DEF Init, TypeOK
<1>4. RunHoldsPromise /\ DebugPromiseExact
  BY AgentAssumption DEF Init, RunHoldsPromise, DebugPromiseExact, Active, Off, IdleTurn
<1>5. QED
  BY <1>3, <1>4 DEF IInv

LEMMA NextInv == IInv /\ [Next]_vars => IInv'
<1> SUFFICES ASSUME IInv, [Next]_vars PROVE IInv'
  OBVIOUS
<1>1. CASE GenerateAll \/ ResumeGeneration \/ StopGeneration
  BY <1>1, MessageInv
<1>2. CASE \E r \in RunIds : RunStep(r)
  BY <1>2, RunStepInv
<1>3. CASE \E t \in Turns : UserMessage(t) \/ TurnStep(t)
  BY <1>3, TurnStepInv
<1>4. CASE Evicted
  BY <1>4, EvictedInv
<1>5. CASE UNCHANGED vars
  BY <1>5 DEF vars, IInv, TypeOK, RunHoldsPromise, DebugPromiseExact, Active
<1>6. QED
  BY <1>1, <1>2, <1>3, <1>4, <1>5 DEF Next

(* The variables keep their types whatever interleaves.                    *)
THEOREM TypeCorrect == Spec => []TypeOK
<1>1. IInv => TypeOK
  BY DEF IInv
<1>2. QED
  BY <1>1, InitInv, NextInv, PTL DEF Spec

(* launchStateMachine is never running twice, for any number of messages,  *)
(* turns and evictions.                                                    *)
THEOREM MutualExclusion == Spec => []OneRunAtATime
<1>1. IInv => OneRunAtATime
  BY DEF IInv, RunHoldsPromise, OneRunAtATime
<1>2. QED
  BY <1>1, InitInv, NextInv, PTL DEF Spec

(* deepDebugPromise is set exactly while the session of that turn runs.    *)
THEOREM DebugExclusion == Spec => []DebugPromiseExact
<1>1. IInv => DebugPromiseExact
  BY DEF IInv
<1>2. QED
  BY <1>1, InitInv, NextInv, PTL DEF Spec


-----------------------------------------------------------------------------
(* A run that waits for an inference can be stopped.  The argument: only   *)
(* the end of a run and STOP_GENERATION drop the controller; a run that    *)
(* ends is the only one, so no other loses its signal.                     *)
Inferring == {"inferGen", "inferImpl"}

LEMMA EnteredWaits ==
  ASSUME NEW s, NEW run \in Run, NEW dev \in DevState
  PROVE  Entered(s, run, dev).run.pc \notin Inferring
<1> DEFINE Waits(e) == e.run.pc \in {"updateApp", "issuesReview", "issuesImpl", "issuesGen"}
<1>1. \A s2, phase : \A mode : \A pc \in {"updateApp", "issuesReview", "issuesImpl", "issuesGen"} :
        Waits(Paused(s2, run, pc, mode, phase))
  BY DEF Paused, Run
<1>2. Waits(EnterDone(s, run))
  BY <1>1 DEF EnterDone
<1>3. Waits(EnterReviewing(s, run))
  BY <1>1, <1>2 DEF EnterReviewing
<1>4. Waits(EnterFinalizing(s, run))
  BY <1>1, <1>3 DEF EnterFinalizing
<1>5. Waits(EnterImplementing(s, run)) /\ Waits(EnterGenerating(s, run))
  BY <1>1 DEF EnterImplementing, EnterGenerating
<1>6. Waits(Entered(s, run, dev))
  BY <1>2, <1>3, <1>4, <1>5 DEF Entered, DevState
<1>7. QED
  BY <1>6 DEF Inferring

(* A step of the only run, after which it does not infer.                  *)
LEMMA AloneStoppable ==
  ASSUME IInv, NEW r \in RunIds, Active(r), runs'[r].pc \notin Inferring,
         \A q \in RunIds \ {r} : runs'[q].pc = runs[q].pc
  PROVE  RunStoppable'
<1>1. \A q \in RunIds \ {r} : runs[q].pc = "off"
  BY DEF IInv, RunHoldsPromise, Active
<1>2. QED
  BY <1>1 DEF RunStoppable, Inferring

LEMMA AdvanceStoppable ==
  ASSUME IInv, NEW r \in RunIds, Active(r), NEW s \in CodeGenState, NEW run \in Run,
         NEW dev \in DevState, NEW concept \in Nat, Advance(r, s, run, dev, concept)
  PROVE  RunStoppable'
<1> DEFINE e == Entered(s, [run EXCEPT !.concept = concept], dev)
           moved == [runs EXCEPT ![r] = e.run]
<1>1. [run EXCEPT !.concept = concept] \in Run
  BY DEF Run
<1>2. e.run.pc \notin Inferring /\ e.run \in Run
  BY <1>1, EnteredWaits, EnteredType
<1>3. runs' = moved \/ runs' = RunsSignalled(moved, "dropped")
  BY DEF Advance
<1> HIDE DEF e
<1>4. moved \in [RunIds -> Run] /\ moved[r] = e.run
  BY <1>2 DEF IInv, TypeOK
<1> HIDE DEF moved
<1>5. runs'[r].pc = moved[r].pc
  BY <1>3, <1>4, SignalledType DEF Signal
<1>6. \A q \in RunIds \ {r} : runs'[q].pc = runs[q].pc
  BY AdvanceType DEF IInv
<1>7. QED
  BY <1>2, <1>4, <1>5, <1>6, AloneStoppable

LEMMA OffStoppable ==
  ASSUME IInv, NEW r \in RunIds, Active(r),
         \/ runs' = [runs EXCEPT ![r] = Off]
         \/ runs' = RunsSignalled([runs EXCEPT ![r] = Off], "dropped")
  PROVE  RunStoppable'
<1> DEFINE f == [runs EXCEPT ![r] = Off]
<1>1. f \in [RunIds -> Run] /\ f[r].pc = "off" /\ \A q \in RunIds \ {r} : f[q] = runs[q]
  BY OffType DEF IInv, TypeOK, Off
<1>2. runs' = f \/ runs' = RunsSignalled(f, "dropped")
  OBVIOUS
<1> HIDE DEF f
<1>3. \A q \in RunIds : runs'[q].pc = f[q].pc
  BY <1>1, <1>2, SignalledType DEF Signal
<1>4. QED
  BY <1>1, <1>3, AloneStoppable DEF Inferring

LEMMA LaunchStoppable ==
  ASSUME IInv, RunStoppable, NEW clears, controller' = controller,
         Launch(clears) \/ runs' = runs
  PROVE  RunStoppable'
<1>1. CASE runs' = runs
  BY <1>1 DEF RunStoppable
<1>2. CASE Launch(clears)
  BY <1>2 DEF Launch, RunStoppable, Off, IInv, TypeOK
<1>3. QED
  BY <1>1, <1>2

LEMMA RunStepStoppable ==
  ASSUME IInv, RunStoppable, NEW r \in RunIds, RunStep(r)
  PROVE  RunStoppable'
<1>1. /\ st \in CodeGenState /\ runs \in [RunIds -> Run] /\ runs[r] \in Run
      /\ st.currentDevState \in DevState /\ st.currentPhase \in Nat
      /\ st.generatedPhases \in Seq(Phase) /\ runs[r].concept \in Nat
  BY DEF IInv, TypeOK, CodeGenState, Run
<1>2. Active(r)
  BY DEF RunStep, Active, TemplateFails, BeginFromPersisted, BeginFromIncomplete,
         BeginNextPhase, BeginInitialPhase, BlueprintInvalid, IssuesForGeneration,
         PhaseGenerated, NoMorePhases, PhaseGenerationFails, PhaseGenerationRateLimited,
         IssuesForImplementation, FilesGenerated, PhaseCompleted, ImplementationFails,
         IssuesForReview, AppUpdated, AppUpdateFails
<1> DEFINE Advances == \E s \in CodeGenState, run \in Run, dev \in DevState, concept \in Nat :
                         Advance(r, s, run, dev, concept)
<1>3. CASE Advances
  BY <1>2, <1>3, AdvanceStoppable
<1>4. CASE \/ TemplateFails(r) \/ BlueprintInvalid(r) \/ AppUpdated(r)
           \/ PhaseGenerationRateLimited(r) \/ ImplementationFails(r) \/ AppUpdateFails(r)
  BY <1>2, <1>4, OffStoppable
  DEF TemplateFails, BlueprintInvalid, AppUpdated, PhaseGenerationRateLimited,
      ImplementationFails, AppUpdateFails, Abandon
<1>5. CASE IssuesForGeneration(r) \/ IssuesForImplementation(r)
  <2>1. /\ runs'[r].signal = "current"
        /\ controller' = TRUE
        /\ \A q \in RunIds \ {r} : runs'[q] = runs[q]
    BY <1>1, <1>5 DEF IssuesForGeneration, IssuesForImplementation, Run
  <2>2. controller'
    BY <2>1
  <2>3. ASSUME NEW q \in RunIds, q # r, runs'[q].pc \in {"inferGen", "inferImpl"}
        PROVE  runs'[q].signal = "aborted" \/ (runs'[q].signal = "current" /\ controller')
    BY <2>1, <2>2, <2>3 DEF RunStoppable
  <2>4. QED
    BY <2>1, <2>2, <2>3 DEF RunStoppable
<1>6. CASE FilesGenerated(r)
  BY <1>1, <1>2, <1>6, AloneStoppable DEF FilesGenerated, Inferring, Run
<1>7. CASE \/ BeginFromPersisted(r) \/ BeginFromIncomplete(r) \/ BeginNextPhase(r)
           \/ BeginInitialPhase(r)
  <2>1. CASE BeginInitialPhase(r)
    <3>1. PICK kind \in {"dev", "last"} :
            Begin(r, [st EXCEPT !.generatedPhases = <<[kind |-> kind, completed |-> FALSE]>>],
                  "PHASE_IMPLEMENTING", 1)
      BY <2>1 DEF BeginInitialPhase
    <3>2. <<[kind |-> kind, completed |-> FALSE]>> \in Seq(Phase)
      BY DEF Phase, PhaseKind
    <3>3. [st EXCEPT !.generatedPhases = <<[kind |-> kind, completed |-> FALSE]>>]
            \in CodeGenState
      BY <1>1, <3>2 DEF CodeGenState
    <3>4. QED
      BY <1>1, <1>3, <3>1, <3>3 DEF Begin, DevState
  <2>2. CASE BeginFromIncomplete(r)
    BY <1>1, <1>3, <2>2 DEF BeginFromIncomplete, Begin, Incomplete, DevState
  <2>3. CASE BeginFromPersisted(r) \/ BeginNextPhase(r)
    BY <1>1, <1>3, <2>3 DEF BeginFromPersisted, BeginNextPhase, Begin, DevState
  <2>4. QED
    BY <1>7, <2>1, <2>2, <2>3
<1>8. CASE NoMorePhases(r) \/ PhaseGenerationFails(r) \/ IssuesForReview(r)
  <2>1. [runs[r] EXCEPT !.failed = TRUE] \in Run
    BY <1>1 DEF Run
  <2>2. QED
    BY <1>1, <1>3, <1>8, <2>1
    DEF NoMorePhases, PhaseGenerationFails, IssuesForReview, DevState
<1>9. CASE PhaseGenerated(r)
  <2>1. PICK kind \in {"dev", "last"} :
          LET s == [st EXCEPT !.generatedPhases =
                                Append(@, [kind |-> kind, completed |-> FALSE])]
              new == Len(s.generatedPhases)
          IN \/ Advance(r, s, runs[r], "PHASE_IMPLEMENTING", new)
             \/ runs' = [runs EXCEPT ![r].pc = "issuesImpl", ![r].phase = new,
                                     ![r].batch = {}, ![r].signal = "none"]
    BY <1>9 DEF PhaseGenerated
  <2> DEFINE s == [st EXCEPT !.generatedPhases =
                               Append(@, [kind |-> kind, completed |-> FALSE])]
             new == Len(s.generatedPhases)
  <2>2. s \in CodeGenState /\ new \in Nat
    <3>1. [kind |-> kind, completed |-> FALSE] \in Phase
      BY DEF Phase, PhaseKind
    <3>2. Append(st.generatedPhases, [kind |-> kind, completed |-> FALSE]) \in Seq(Phase)
      BY <1>1, <3>1
    <3>3. s.generatedPhases = Append(st.generatedPhases, [kind |-> kind, completed |-> FALSE])
      BY <1>1 DEF CodeGenState
    <3>4. new \in Nat
      <4> HIDE DEF s
      <4>1. QED
        BY <3>2, <3>3
    <3>5. QED
      BY <1>1, <3>2, <3>4 DEF CodeGenState
  <2>3. CASE Advance(r, s, runs[r], "PHASE_IMPLEMENTING", new)
    BY <1>1, <1>3, <2>2, <2>3 DEF DevState
  <2>4. CASE runs' = [runs EXCEPT ![r].pc = "issuesImpl", ![r].phase = new,
                                  ![r].batch = {}, ![r].signal = "none"]
    BY <1>1, <1>2, <2>4, AloneStoppable DEF Inferring, Run
  <2>5. QED
    BY <2>1, <2>3, <2>4
<1>10. CASE PhaseCompleted(r)
  <2> DEFINE marked == [st EXCEPT !.generatedPhases[runs[r].phase].completed = TRUE]
             counted == [marked EXCEPT !.phasesCounter = @ - 1]
  <2>1. marked \in CodeGenState
    <3>1. [st.generatedPhases EXCEPT ![runs[r].phase].completed = TRUE] \in Seq(Phase)
      BY <1>1, MarkedType DEF Run
    <3>2. marked = [st EXCEPT !.generatedPhases =
                      [st.generatedPhases EXCEPT ![runs[r].phase].completed = TRUE]]
      OBVIOUS
    <3>3. QED
      BY <1>1, <3>1, <3>2 DEF CodeGenState
  <2> HIDE DEF marked
  <2>2. counted \in CodeGenState
    BY <2>1 DEF CodeGenState
  <2>3. \E dev \in DevState : \/ Advance(r, marked, runs[r], dev, runs[r].concept)
                              \/ Advance(r, counted, runs[r], dev, runs[r].concept)
    BY <1>10 DEF PhaseCompleted, DevState, marked
  <2> HIDE DEF counted
  <2>4. QED
    BY <1>1, <1>3, <2>1, <2>2, <2>3
<1>11. QED
  BY <1>4, <1>5, <1>6, <1>7, <1>8, <1>9, <1>10 DEF RunStep

LEMMA TurnStoppable ==
  ASSUME IInv, RunStoppable, NEW t \in Turns, UserMessage(t) \/ TurnStep(t)
  PROVE  RunStoppable'
<1>1. CASE TurnEnds(t)
  BY <1>1, LaunchStoppable DEF TurnEnds
<1>2. CASE runs' = runs /\ (controller' = controller \/ controller' = TRUE)
  <2>1. controller => controller'
    BY <1>2
  <2>2. QED
    BY <1>2, <2>1 DEF RunStoppable
<1>3. QED
  BY <1>1, <1>2
  DEF UserMessage, TurnStep, PrepareFails, TurnInference, QueueRequest, DeepDebug,
      DebugEnds, WaitForGeneration, WaitForDebug, TurnRateLimited

LEMMA MessageStoppable ==
  ASSUME IInv, RunStoppable, GenerateAll \/ ResumeGeneration \/ StopGeneration
  PROVE  RunStoppable'
<1>1. CASE GenerateAll
  BY <1>1, LaunchStoppable DEF GenerateAll
<1>2. CASE ResumeGeneration
  BY <1>2, LaunchStoppable DEF ResumeGeneration
<1>3. CASE StopGeneration
  <2>1. CASE controller
    BY <1>3, <2>1 DEF StopGeneration, RunStoppable, RunsSignalled, IInv, TypeOK, Run
  <2>2. CASE ~controller
    BY <1>3, <2>2 DEF StopGeneration, RunStoppable
  <2>3. QED
    BY <2>1, <2>2
<1>4. QED
  BY <1>1, <1>2, <1>3

(* The users can always stop the inference of a run, whoever shares its    *)
(* abort controller.                                                       *)
THEOREM StopReachesRun == Spec => []RunStoppable
<1>1. Init => RunStoppable
  BY DEF Init, RunStoppable, Off
<1>2. IInv /\ RunStoppable /\ [Next]_vars => RunStoppable'
  <2> SUFFICES ASSUME IInv, RunStoppable, [Next]_vars PROVE RunStoppable'
    OBVIOUS
  <2>1. CASE Evicted
    BY <2>1 DEF Evicted, RunStoppable, Off
  <2>2. CASE UNCHANGED vars
    BY <2>2 DEF vars, RunStoppable
  <2>3. QED
    BY <2>1, <2>2, MessageStoppable, RunStepStoppable, TurnStoppable DEF Next
<1>3. QED
  BY <1>1, <1>2, InitInv, NextInv, PTL DEF Spec

-----------------------------------------------------------------------------
(* The life of the phases.  What the runs rely on is in the persisted      *)
(* state they leave behind: a run that takes up an interrupted             *)
(* implementation has no phase at hand (executePhaseImplementation dropped *)
(* it), a review was begun only after the final phase was made, and that   *)
(* one is made when mvpGenerated is set.                                   *)
Implementing == {"issuesImpl", "inferImpl", "deploy"}
Planning == {"issuesGen", "inferGen"}

AtMostOneFinal(s) ==
  /\ \A i, j \in 1..Len(s.generatedPhases) :
       s.generatedPhases[i].kind = "final" /\ s.generatedPhases[j].kind = "final" => i = j
  /\ ~s.mvpGenerated => \A i \in 1..Len(s.generatedPhases) : s.generatedPhases[i].kind # "final"

HistorySound(s) == AtMostOneFinal(s) /\ (s.reviewingInitiated => s.mvpGenerated)

StateSound(s) ==
  /\ HistorySound(s)
  /\ s.currentDevState = "PHASE_IMPLEMENTING" => s.currentPhase = 0
  /\ s.currentDevState = "REVIEWING" => s.reviewingInitiated

Unfinished(s, i) == i \in 1..Len(s.generatedPhases) /\ ~s.generatedPhases[i].completed

RunSound(s, run) ==
  /\ run.pc \in Implementing =>
       Unfinished(s, run.phase) /\ (run.mode = "final" => s.mvpGenerated)
  /\ run.pc \in Planning => run.mode # "final"
  /\ run.pc = "issuesReview" => s.reviewingInitiated
  /\ run.pc = "updateApp" /\ ~run.failed => s.reviewingInitiated

PhasesInv == StateSound(st) /\ \A r \in RunIds : RunSound(st, runs[r])

(* From s to t phases are only appended and none is undone.                *)
Kept(s, t) ==
  \A i \in 1..Len(s.generatedPhases) :
    /\ i \in 1..Len(t.generatedPhases)
    /\ t.generatedPhases[i].kind = s.generatedPhases[i].kind
    /\ s.generatedPhases[i].completed => t.generatedPhases[i].completed

LEMMA KeptTransitive ==
  ASSUME NEW s, NEW t, NEW u, Kept(s, t), Kept(t, u)
  PROVE  Kept(s, u)
BY DEF Kept

LEMMA AppendedPhase ==
  ASSUME NEW s \in CodeGenState, NEW t \in CodeGenState, NEW phase \in Phase,
         t.generatedPhases = Append(s.generatedPhases, phase),
         ~phase.completed
  PROVE  /\ Kept(s, t)
         /\ Len(t.generatedPhases) = Len(s.generatedPhases) + 1
         /\ Unfinished(t, Len(s.generatedPhases) + 1)
         /\ \A i \in 1..Len(s.generatedPhases) : t.generatedPhases[i] = s.generatedPhases[i]
         /\ t.generatedPhases[Len(s.generatedPhases) + 1] = phase
<1> DEFINE n == Len(s.generatedPhases)
<1>1. s.generatedPhases \in Seq(Phase) /\ n \in Nat
  BY DEF CodeGenState
<1>2. /\ Len(t.generatedPhases) = n + 1
      /\ \A i \in 1..n : t.generatedPhases[i] = s.generatedPhases[i]
      /\ t.generatedPhases[n + 1] = phase
  BY <1>1
<1> HIDE DEF n
<1>3. n + 1 \in 1..(n + 1) /\ \A i \in 1..n : i \in 1..(n + 1)
  BY <1>1
<1> QED
  BY <1>2, <1>3 DEF Kept, Unfinished, n

(* Entering a state: the phase at hand is none or unfinished, a review     *)
(* follows the final phase, and a run that is done has failed or has been  *)
(* through the review.                                                     *)
LEMMA EnteredSound ==
  ASSUME NEW s \in CodeGenState, NEW run \in Run, NEW dev \in DevState, HistorySound(s),
         dev = "PHASE_IMPLEMENTING" => run.concept = 0 \/ Unfinished(s, run.concept),
         dev = "REVIEWING" => s.mvpGenerated,
         dev = "IDLE" => run.failed \/ s.reviewingInitiated
  PROVE  LET e == Entered(s, run, dev)
         IN StateSound(e.state) /\ RunSound(e.state, e.run) /\ Kept(s, e.state)
<1> DEFINE Good(e) == StateSound(e.state) /\ RunSound(e.state, e.run) /\ Kept(s, e.state)
<1>1. ASSUME NEW t \in CodeGenState, NEW pc \in RunPC, NEW mode \in {"phase", "resume", "final"},
             NEW phase \in Nat
      PROVE  LET e == Paused(t, run, pc, mode, phase)
             IN /\ e.state = t /\ e.run.pc = pc /\ e.run.mode = mode /\ e.run.phase = phase
                /\ e.run.failed = run.failed
  BY DEF Paused, Run
<1>2. ASSUME NEW d \in DevState
      PROVE  LET t == Persisted(s, run, d)
             IN /\ t \in CodeGenState /\ t.generatedPhases = s.generatedPhases
                /\ t.mvpGenerated = s.mvpGenerated
                /\ t.reviewingInitiated = s.reviewingInitiated
                /\ t.currentDevState = d /\ t.currentPhase = run.concept
  BY DEF Persisted, CodeGenState, Run
<1>3. ASSUME run.failed \/ s.reviewingInitiated
      PROVE  Good(EnterDone(s, run))
  <2> DEFINE t == Persisted(s, run, "IDLE")
             e == Paused(t, run, "updateApp", "phase", 0)
  <2>1. /\ t \in CodeGenState /\ t.generatedPhases = s.generatedPhases
        /\ t.mvpGenerated = s.mvpGenerated /\ t.reviewingInitiated = s.reviewingInitiated
        /\ t.currentDevState = "IDLE"
    BY <1>2 DEF DevState
  <2> HIDE DEF t
  <2>2. e.state = t /\ e.run.pc = "updateApp" /\ e.run.failed = run.failed
    BY <1>1, <2>1 DEF RunPC
  <2> HIDE DEF e
  <2>3. Good(e)
    BY <1>3, <2>1, <2>2
    DEF StateSound, HistorySound, AtMostOneFinal, RunSound, Implementing, Planning, Kept
  <2> QED
    BY <2>3 DEF EnterDone, e, t
<1>4. ASSUME s.mvpGenerated
      PROVE  Good(EnterReviewing(s, run))
  <2>1. CASE s.reviewingInitiated
    BY <1>3, <2>1 DEF EnterReviewing
  <2>2. CASE ~s.reviewingInitiated
    <3> DEFINE t == [Persisted(s, run, "REVIEWING") EXCEPT !.reviewingInitiated = TRUE]
               e == Paused(t, run, "issuesReview", "phase", 0)
    <3>1. /\ t \in CodeGenState /\ t.generatedPhases = s.generatedPhases
          /\ t.mvpGenerated = s.mvpGenerated /\ t.reviewingInitiated = TRUE
          /\ t.currentDevState = "REVIEWING"
      <4>1. "REVIEWING" \in DevState
        BY DEF DevState
      <4> QED
        BY <1>2, <4>1 DEF CodeGenState
    <3> HIDE DEF t
    <3>2. e.state = t /\ e.run.pc = "issuesReview"
      BY <1>1, <3>1 DEF RunPC
    <3> HIDE DEF e
    <3>3. Good(e)
      BY <1>4, <3>1, <3>2
      DEF StateSound, HistorySound, AtMostOneFinal, RunSound, Implementing, Planning, Kept
    <3> QED
      BY <2>2, <3>3 DEF EnterReviewing, e, t
  <2> QED
    BY <2>1, <2>2
<1>5. Good(EnterFinalizing(s, run))
  <2>1. CASE s.mvpGenerated
    BY <1>4, <2>1 DEF EnterFinalizing
  <2>2. CASE ~s.mvpGenerated
    <3> DEFINE final == [kind |-> "final", completed |-> FALSE]
               n == Len(s.generatedPhases)
               t == [Persisted(s, run, "FINALIZING") EXCEPT
                       !.mvpGenerated = TRUE, !.generatedPhases = Append(@, final)]
               e == Paused(t, run, "issuesImpl", "final", n + 1)
    <3>1. /\ final \in Phase /\ final.completed = FALSE /\ "FINALIZING" \in DevState
          /\ s.generatedPhases \in Seq(Phase) /\ n \in Nat
      BY DEF Phase, PhaseKind, DevState, CodeGenState
    <3> HIDE DEF final
    <3>2. Append(s.generatedPhases, final) \in Seq(Phase)
      BY <3>1
    <3>3. /\ t \in CodeGenState /\ t.generatedPhases = Append(s.generatedPhases, final)
          /\ t.mvpGenerated = TRUE /\ t.reviewingInitiated = s.reviewingInitiated
          /\ t.currentDevState = "FINALIZING"
      BY <1>2, <3>1, <3>2 DEF CodeGenState
    <3> HIDE DEF t, n
    <3>4. /\ e.state = t /\ e.run.pc = "issuesImpl" /\ e.run.mode = "final"
          /\ e.run.phase = n + 1
      BY <1>1, <3>1, <3>3 DEF RunPC
    <3> HIDE DEF e
    <3>5. /\ Kept(s, t) /\ Len(t.generatedPhases) = n + 1 /\ Unfinished(t, n + 1)
          /\ \A i \in 1..n : t.generatedPhases[i] = s.generatedPhases[i]
      BY <3>1, <3>3, AppendedPhase DEF n
    <3>6. \A i \in 1..n : t.generatedPhases[i].kind # "final"
      BY <2>2, <3>5 DEF HistorySound, AtMostOneFinal, n
    <3>7. AtMostOneFinal(t)
      BY <3>1, <3>3, <3>5, <3>6 DEF AtMostOneFinal
    <3>8. Good(e)
      BY <3>3, <3>4, <3>5, <3>7 DEF StateSound, HistorySound, RunSound, Implementing, Planning
    <3> QED
      BY <2>2, <3>8 DEF EnterFinalizing, e, t, n, final
  <2> QED
    BY <2>1, <2>2
<1>6. ASSUME run.concept = 0 \/ Unfinished(s, run.concept)
      PROVE  Good(EnterImplementing(s, run))
  <2> DEFINE t == [Persisted(s, run, "PHASE_IMPLEMENTING") EXCEPT !.currentPhase = 0]
             e == IF run.concept = 0 THEN Paused(t, run, "issuesGen", "resume", 0)
                  ELSE Paused(t, run, "issuesImpl", "phase", run.concept)
  <2>1. /\ t \in CodeGenState /\ t.generatedPhases = s.generatedPhases
        /\ t.mvpGenerated = s.mvpGenerated /\ t.reviewingInitiated = s.reviewingInitiated
        /\ t.currentDevState = "PHASE_IMPLEMENTING" /\ t.currentPhase = 0
    <3>1. "PHASE_IMPLEMENTING" \in DevState
      BY DEF DevState
    <3> QED
      BY <1>2, <3>1 DEF CodeGenState
  <2>2. run.concept \in Nat
    BY DEF Run
  <2> HIDE DEF t
  <2>3. /\ e.state = t
        /\ \/ e.run.pc = "issuesGen" /\ e.run.mode = "resume"
           \/ /\ e.run.pc = "issuesImpl" /\ e.run.mode = "phase" /\ run.concept # 0
              /\ e.run.phase = run.concept
    BY <1>1, <2>1, <2>2 DEF RunPC
  <2> HIDE DEF e
  <2>4. Good(e)
    BY <1>6, <2>1, <2>3
    DEF StateSound, HistorySound, AtMostOneFinal, RunSound, Implementing, Planning, Unfinished, Kept
  <2> QED
    BY <2>4 DEF EnterImplementing, e, t
<1>7. Good(EnterGenerating(s, run))
  <2> DEFINE t == Persisted(s, run, "PHASE_GENERATING")
             e == Paused(t, run, "issuesGen", "phase", 0)
  <2>1. /\ t \in CodeGenState /\ t.generatedPhases = s.generatedPhases
        /\ t.mvpGenerated = s.mvpGenerated /\ t.reviewingInitiated = s.reviewingInitiated
        /\ t.currentDevState = "PHASE_GENERATING"
    BY <1>2 DEF DevState
  <2> HIDE DEF t
  <2>2. e.state = t /\ e.run.pc = "issuesGen" /\ e.run.mode = "phase"
    BY <1>1, <2>1 DEF RunPC
  <2> HIDE DEF e
  <2>3. Good(e)
    BY <2>1, <2>2 DEF StateSound, HistorySound, AtMostOneFinal, RunSound, Implementing, Planning, Kept
  <2> QED
    BY <2>3 DEF EnterGenerating, e, t
<1> HIDE DEF Good
<1>8. Good(Entered(s, run, dev))
  BY <1>3, <1>4, <1>5, <1>6, <1>7 DEF Entered, DevState
<1> QED
  BY <1>8 DEF Good

LEMMA AdvanceSound ==
  ASSUME IInv, NEW r \in RunIds, Active(r), NEW s \in CodeGenState, NEW run \in Run,
         NEW dev \in DevState, NEW concept \in Nat, Advance(r, s, run, dev, concept),
         HistorySound(s), Kept(st, s),
         dev = "PHASE_IMPLEMENTING" => concept = 0 \/ Unfinished(s, concept),
         dev = "REVIEWING" => s.mvpGenerated,
         dev = "IDLE" => run.failed \/ s.reviewingInitiated
  PROVE  PhasesInv' /\ Kept(st, st')
<1> DEFINE going == [run EXCEPT !.concept = concept]
           e == Entered(s, going, dev)
           moved == [runs EXCEPT ![r] = e.run]
<1>1. going \in Run /\ going.concept = concept /\ going.failed = run.failed
  BY DEF Run
<1> HIDE DEF going
<1>2. StateSound(e.state) /\ RunSound(e.state, e.run) /\ Kept(s, e.state)
  BY <1>1, EnteredSound
<1>3. e.run \in Run
  BY <1>1, EnteredType
<1>4. st' = e.state /\ (runs' = moved \/ runs' = RunsSignalled(moved, "dropped"))
  BY DEF Advance, e, going
<1> HIDE DEF e
<1>5. moved \in [RunIds -> Run] /\ moved[r] = e.run
  BY <1>3 DEF IInv, TypeOK
<1> HIDE DEF moved
<1>6. /\ runs'[r].pc = e.run.pc /\ runs'[r].phase = e.run.phase
      /\ runs'[r].mode = e.run.mode /\ runs'[r].failed = e.run.failed
  BY <1>4, <1>5 DEF RunsSignalled, Run
<1>7. \A q \in RunIds \ {r} : runs'[q].pc = "off"
  BY AdvanceType DEF IInv, RunHoldsPromise, Active
<1>8. \A q \in RunIds : RunSound(st', runs'[q])
  BY <1>2, <1>4, <1>6, <1>7 DEF RunSound, Implementing, Planning
<1> QED
  BY <1>2, <1>4, <1>8, KeptTransitive DEF PhasesInv

(* A step that leaves the phases alone, and every run where it is or on    *)
(* its way to something else.                                              *)
LEMMA QuietSound ==
  ASSUME PhasesInv,
         st'.generatedPhases = st.generatedPhases, st'.mvpGenerated = st.mvpGenerated,
         st'.reviewingInitiated = st.reviewingInitiated,
         \/ st'.currentDevState = "IDLE"
         \/ /\ st'.currentDevState = st.currentDevState
            /\ st'.currentPhase \in {st.currentPhase, 0},
         \A r \in RunIds :
           \/ runs'[r].pc \in {"off", "template"}
           \/ /\ runs'[r].phase = runs[r].phase /\ runs'[r].mode = runs[r].mode
              /\ runs'[r].failed = runs[r].failed
              /\ \/ runs'[r].pc = runs[r].pc
                 \/ {runs'[r].pc, runs[r].pc} \subseteq Implementing
                 \/ {runs'[r].pc, runs[r].pc} \subseteq Planning
  PROVE  PhasesInv' /\ Kept(st, st')
<1>1. StateSound(st') /\ Kept(st, st')
  BY DEF PhasesInv, StateSound, HistorySound, AtMostOneFinal, Kept
<1>2. ASSUME NEW r \in RunIds PROVE RunSound(st', runs'[r])
  <2>1. RunSound(st, runs[r])
    BY DEF PhasesInv
  <2> QED
    BY <2>1 DEF RunSound, Unfinished, Implementing, Planning
<1> QED
  BY <1>1, <1>2 DEF PhasesInv

(* Runs that are signalled, launched or over.                              *)
LEMMA RunsQuiet ==
  ASSUME IInv, NEW f \in [RunIds -> Run], NEW to \in Signal, NEW off, 
         f = runs \/ (off \in RunIds /\ f = [runs EXCEPT ![off] = Off]),
         runs' = f \/ runs' = RunsSignalled(f, to)
  PROVE  \A r \in RunIds :
           \/ runs'[r].pc = "off"
           \/ /\ runs'[r].phase = runs[r].phase /\ runs'[r].mode = runs[r].mode
              /\ runs'[r].failed = runs[r].failed /\ runs'[r].pc = runs[r].pc
<1>1. runs \in [RunIds -> Run]
  BY DEF IInv, TypeOK
<1>2. ASSUME NEW r \in RunIds
      PROVE  /\ runs'[r].phase = f[r].phase /\ runs'[r].mode = f[r].mode
             /\ runs'[r].failed = f[r].failed /\ runs'[r].pc = f[r].pc
  BY DEF RunsSignalled, Run
<1>3. ASSUME NEW r \in RunIds PROVE f[r] = runs[r] \/ f[r].pc = "off"
  BY <1>1 DEF Off
<1> QED
  BY <1>2, <1>3

LEMMA BeginSound ==
  ASSUME IInv, PhasesInv, NEW r \in RunIds,
         \/ BeginFromPersisted(r) \/ BeginFromIncomplete(r)
         \/ BeginNextPhase(r) \/ BeginInitialPhase(r)
  PROVE  PhasesInv' /\ Kept(st, st')
<1>1. /\ st \in CodeGenState /\ runs[r] \in Run /\ Active(r)
      /\ st.currentDevState \in DevState /\ st.currentPhase \in Nat
      /\ st.generatedPhases \in Seq(Phase)
      /\ {"PHASE_IMPLEMENTING", "PHASE_GENERATING"} \subseteq DevState
  BY DEF IInv, TypeOK, CodeGenState, Active, DevState, BeginFromPersisted,
         BeginFromIncomplete, BeginNextPhase, BeginInitialPhase
<1>2. StateSound(st) /\ HistorySound(st) /\ Kept(st, st)
  BY DEF PhasesInv, StateSound, Kept
<1>3. CASE BeginFromPersisted(r)
  <2>1. /\ Advance(r, st, runs[r], st.currentDevState, st.currentPhase)
        /\ st.currentDevState # "IDLE"
    BY <1>3 DEF BeginFromPersisted, Begin
  <2>2. /\ st.currentDevState = "PHASE_IMPLEMENTING" => st.currentPhase = 0
        /\ st.currentDevState = "REVIEWING" => st.mvpGenerated
    BY <1>2 DEF StateSound, HistorySound
  <2> QED
    BY <1>1, <1>2, <2>1, <2>2, AdvanceSound
<1>4. CASE BeginFromIncomplete(r)
  <2>1. PICK i \in Incomplete : Advance(r, st, runs[r], "PHASE_IMPLEMENTING", i)
    BY <1>4 DEF BeginFromIncomplete, Begin
  <2>2. i \in Nat /\ Unfinished(st, i)
    BY <1>1 DEF Incomplete, Unfinished
  <2> QED
    BY <1>1, <1>2, <2>1, <2>2, AdvanceSound
<1>5. CASE BeginNextPhase(r)
  BY <1>1, <1>2, <1>5, AdvanceSound DEF BeginNextPhase, Begin
<1>6. CASE BeginInitialPhase(r)
  <2>1. PICK kind \in {"dev", "last"} :
          Advance(r, [st EXCEPT !.generatedPhases = <<[kind |-> kind, completed |-> FALSE]>>],
                  runs[r], "PHASE_IMPLEMENTING", 1)
    BY <1>6 DEF BeginInitialPhase, Begin
  <2> DEFINE first == [kind |-> kind, completed |-> FALSE]
             s == [st EXCEPT !.generatedPhases = <<first>>]
  <2>2. first \in Phase /\ first.kind # "final" /\ ~first.completed
    BY DEF Phase, PhaseKind
  <2> HIDE DEF first
  <2>3. <<first>> \in Seq(Phase) /\ Len(<<first>>) = 1 /\ <<first>>[1] = first
    BY <2>2
  <2>4. /\ s \in CodeGenState /\ s.generatedPhases = <<first>>
        /\ s.mvpGenerated = st.mvpGenerated /\ s.reviewingInitiated = st.reviewingInitiated
    BY <1>1, <2>3 DEF CodeGenState
  <2>5. st.generatedPhases = <<>>
    BY <1>6 DEF BeginInitialPhase
  <2>6. Advance(r, s, runs[r], "PHASE_IMPLEMENTING", 1)
    BY <2>1 DEF first
  <2> HIDE DEF s
  <2>7. HistorySound(s) /\ Kept(st, s) /\ Unfinished(s, 1)
    BY <1>2, <2>2, <2>3, <2>4, <2>5 DEF HistorySound, AtMostOneFinal, Kept, Unfinished
  <2> QED
    BY <1>1, <2>4, <2>6, <2>7, AdvanceSound
<1> QED
  BY <1>3, <1>4, <1>5, <1>6

LEMMA GenerationSound ==
  ASSUME IInv, PhasesInv, NEW r \in RunIds,
         PhaseGenerated(r) \/ NoMorePhases(r) \/ PhaseGenerationFails(r) \/ IssuesForReview(r)
  PROVE  PhasesInv' /\ Kept(st, st')
<1>1. /\ st \in CodeGenState /\ runs \in [RunIds -> Run] /\ runs[r] \in Run /\ Active(r)
      /\ st.generatedPhases \in Seq(Phase) /\ runs[r].concept \in Nat
      /\ {"PHASE_IMPLEMENTING", "FINALIZING", "IDLE"} \subseteq DevState
  BY DEF IInv, TypeOK, CodeGenState, Active, DevState, Run, PhaseGenerated, NoMorePhases,
         PhaseGenerationFails, IssuesForReview
<1>2. StateSound(st) /\ HistorySound(st) /\ Kept(st, st)
  BY DEF PhasesInv, StateSound, Kept
<1>3. CASE NoMorePhases(r)
  BY <1>1, <1>2, <1>3, AdvanceSound DEF NoMorePhases
<1>4. CASE PhaseGenerationFails(r)
  <2> DEFINE failing == [runs[r] EXCEPT !.failed = TRUE]
             dev == IF runs[r].mode = "phase" THEN "IDLE" ELSE "FINALIZING"
  <2>1. failing \in Run /\ failing.failed /\ dev \in {"IDLE", "FINALIZING"} /\ dev \in DevState
    BY <1>1 DEF Run
  <2>2. Advance(r, st, failing, dev, 0)
    BY <1>4 DEF PhaseGenerationFails
  <2> HIDE DEF failing, dev
  <2> QED
    BY <1>1, <1>2, <2>1, <2>2, AdvanceSound
<1>5. CASE IssuesForReview(r)
  <2>1. st.reviewingInitiated
    BY <1>5 DEF IssuesForReview, PhasesInv, RunSound
  <2> QED
    BY <1>1, <1>2, <1>5, <2>1, AdvanceSound DEF IssuesForReview
<1>6. CASE PhaseGenerated(r)
  <2>1. PICK kind \in {"dev", "last"} :
          LET s == [st EXCEPT !.generatedPhases =
                                Append(@, [kind |-> kind, completed |-> FALSE])]
              new == Len(s.generatedPhases)
          IN IF runs[r].mode = "phase"
               THEN Advance(r, s, runs[r], "PHASE_IMPLEMENTING", new)
               ELSE /\ st' = [s EXCEPT !.currentPhase = 0]
                    /\ runs' = [runs EXCEPT ![r].pc = "issuesImpl", ![r].phase = new,
                                            ![r].batch = {}, ![r].signal = "none"]
    BY <1>6 DEF PhaseGenerated
  <2> DEFINE phase == [kind |-> kind, completed |-> FALSE]
             s == [st EXCEPT !.generatedPhases = Append(@, phase)]
             new == Len(s.generatedPhases)
  <2>2. phase \in Phase /\ phase.kind # "final" /\ ~phase.completed
    BY DEF Phase, PhaseKind
  <2>3. IF runs[r].mode = "phase"
          THEN Advance(r, s, runs[r], "PHASE_IMPLEMENTING", new)
          ELSE /\ st' = [s EXCEPT !.currentPhase = 0]
               /\ runs' = [runs EXCEPT ![r].pc = "issuesImpl", ![r].phase = new,
                                       ![r].batch = {}, ![r].signal = "none"]
    BY <2>1
  <2> HIDE DEF phase
  <2>4. Append(st.generatedPhases, phase) \in Seq(Phase)
    BY <1>1, <2>2
  <2>5. /\ s \in CodeGenState /\ s.generatedPhases = Append(st.generatedPhases, phase)
        /\ s.mvpGenerated = st.mvpGenerated /\ s.reviewingInitiated = st.reviewingInitiated
        /\ s.currentDevState = st.currentDevState
    BY <1>1, <2>4 DEF CodeGenState
  <2> HIDE DEF s
  <2>6. /\ Kept(st, s) /\ new = Len(st.generatedPhases) + 1 /\ Unfinished(s, new)
        /\ \A i \in 1..Len(st.generatedPhases) : s.generatedPhases[i] = st.generatedPhases[i]
        /\ s.generatedPhases[new] = phase
    BY <1>1, <2>2, <2>5, AppendedPhase
  <2>7. Len(st.generatedPhases) \in Nat /\ new \in Nat
    BY <1>1, <2>6
  <2> HIDE DEF new
  <2>8. HistorySound(s)
    <3>1. Len(s.generatedPhases) = Len(st.generatedPhases) + 1
      BY <2>6 DEF new
    <3>2. ASSUME NEW i \in 1..Len(s.generatedPhases), s.generatedPhases[i].kind = "final"
          PROVE  i \in 1..Len(st.generatedPhases) /\ st.generatedPhases[i].kind = "final"
      BY <2>2, <2>6, <2>7, <3>1, <3>2
    <3> QED
      BY <1>2, <2>5, <3>2 DEF HistorySound, AtMostOneFinal
  <2>9. CASE runs[r].mode = "phase"
    BY <1>1, <2>3, <2>5, <2>6, <2>7, <2>8, <2>9, AdvanceSound
  <2>10. CASE runs[r].mode # "phase"
    <3>1. st' = [s EXCEPT !.currentPhase = 0]
      BY <2>3, <2>10
    <3>2. /\ st'.generatedPhases = s.generatedPhases /\ st'.mvpGenerated = s.mvpGenerated
          /\ st'.reviewingInitiated = s.reviewingInitiated
          /\ st'.currentDevState = st.currentDevState /\ st'.currentPhase = 0
      BY <2>5, <3>1 DEF CodeGenState
    <3>3. /\ runs'[r].pc = "issuesImpl" /\ runs'[r].phase = new
          /\ runs'[r].mode = runs[r].mode
          /\ \A q \in RunIds \ {r} : runs'[q] = runs[q]
      BY <1>1, <2>3, <2>10 DEF Run
    <3>4. runs[r].mode # "final"
      <4>1. runs[r].pc = "inferGen"
        BY <1>6 DEF PhaseGenerated
      <4> QED
        BY <4>1 DEF PhasesInv, RunSound, Planning
    <3>5. StateSound(st') /\ Kept(st, st')
      BY <1>2, <2>5, <2>6, <2>8, <3>2 DEF StateSound, HistorySound, AtMostOneFinal, Kept
    <3>6. RunSound(st', runs'[r])
      BY <2>6, <3>2, <3>3, <3>4 DEF RunSound, Unfinished, Implementing, Planning
    <3>7. \A q \in RunIds \ {r} : runs'[q].pc = "off"
      BY <1>1, <3>3 DEF IInv, RunHoldsPromise, Active
    <3> QED
      BY <3>5, <3>6, <3>7 DEF PhasesInv, RunSound, Implementing, Planning
  <2> QED
    BY <2>9, <2>10
<1> QED
  BY <1>3, <1>4, <1>5, <1>6

LEMMA CompletionSound ==
  ASSUME IInv, PhasesInv, NEW r \in RunIds, PhaseCompleted(r)
  PROVE  PhasesInv' /\ Kept(st, st')
<1> DEFINE n == runs[r].phase
           phases == [st.generatedPhases EXCEPT ![n].completed = TRUE]
           marked == [st EXCEPT !.generatedPhases[n].completed = TRUE]
           counted == [marked EXCEPT !.phasesCounter = @ - 1]
<1>1. /\ st \in CodeGenState /\ runs[r] \in Run /\ Active(r)
      /\ st.generatedPhases \in Seq(Phase) /\ runs[r].concept \in Nat /\ n \in Nat
      /\ {"REVIEWING", "FINALIZING", "PHASE_GENERATING"} \subseteq DevState
  BY DEF IInv, TypeOK, CodeGenState, Active, DevState, Run, PhaseCompleted
<1>2. HistorySound(st)
  BY DEF PhasesInv, StateSound
<1>3. phases \in Seq(Phase) /\ Len(phases) = Len(st.generatedPhases)
  BY <1>1, MarkedType
<1>4. \A i \in 1..Len(st.generatedPhases) :
        /\ phases[i].kind = st.generatedPhases[i].kind
        /\ st.generatedPhases[i].completed => phases[i].completed
  BY <1>1 DEF Phase
<1> HIDE DEF phases
<1>5. /\ marked \in CodeGenState /\ marked.generatedPhases = phases
      /\ marked.mvpGenerated = st.mvpGenerated
      /\ marked.reviewingInitiated = st.reviewingInitiated
  BY <1>1, <1>3 DEF CodeGenState, phases
<1> HIDE DEF marked
<1>6. /\ counted \in CodeGenState /\ counted.generatedPhases = phases
      /\ counted.mvpGenerated = st.mvpGenerated
      /\ counted.reviewingInitiated = st.reviewingInitiated
  BY <1>5 DEF CodeGenState
<1>7. \/ /\ runs[r].mode = "final"
         /\ Advance(r, marked, runs[r], "REVIEWING", runs[r].concept)
      \/ \E dev \in {"FINALIZING", "PHASE_GENERATING"} :
           Advance(r, counted, runs[r], dev, runs[r].concept)
  BY DEF PhaseCompleted, marked
<1> HIDE DEF counted
<1>8. ASSUME NEW s \in {marked, counted}
      PROVE  s \in CodeGenState /\ HistorySound(s) /\ Kept(st, s)
  BY <1>2, <1>3, <1>4, <1>5, <1>6 DEF HistorySound, AtMostOneFinal, Kept
<1>9. CASE /\ runs[r].mode = "final"
           /\ Advance(r, marked, runs[r], "REVIEWING", runs[r].concept)
  <2>1. runs[r].pc = "deploy"
    BY DEF PhaseCompleted
  <2>2. marked.mvpGenerated
    BY <1>5, <1>9, <2>1 DEF PhasesInv, RunSound, Implementing
  <2> QED
    BY <1>1, <1>8, <1>9, <2>2, AdvanceSound
<1>10. CASE \E dev \in {"FINALIZING", "PHASE_GENERATING"} :
              Advance(r, counted, runs[r], dev, runs[r].concept)
  BY <1>1, <1>8, <1>10, AdvanceSound
<1> QED
  BY <1>7, <1>9, <1>10

LEMMA RunStepSound ==
  ASSUME IInv, PhasesInv, NEW r \in RunIds, RunStep(r)
  PROVE  PhasesInv' /\ Kept(st, st')
<1>1. st \in CodeGenState /\ runs \in [RunIds -> Run] /\ runs[r] \in Run
  BY DEF IInv, TypeOK
<1>2. CASE \/ TemplateFails(r) \/ BlueprintInvalid(r) \/ AppUpdated(r)
           \/ PhaseGenerationRateLimited(r) \/ ImplementationFails(r) \/ AppUpdateFails(r)
  <2>1. \/ runs' = [runs EXCEPT ![r] = Off]
        \/ runs' = RunsSignalled([runs EXCEPT ![r] = Off], "dropped")
    BY <1>2 DEF TemplateFails, BlueprintInvalid, AppUpdated, PhaseGenerationRateLimited,
                ImplementationFails, AppUpdateFails, Abandon
  <2>2. [runs EXCEPT ![r] = Off] \in [RunIds -> Run] /\ "dropped" \in Signal
    BY <1>1, OffType DEF Signal
  <2>3. \A q \in RunIds :
          \/ runs'[q].pc = "off"
          \/ /\ runs'[q].phase = runs[q].phase /\ runs'[q].mode = runs[q].mode
             /\ runs'[q].failed = runs[q].failed /\ runs'[q].pc = runs[q].pc
    BY <2>1, <2>2, RunsQuiet
  <2>4. /\ st'.generatedPhases = st.generatedPhases /\ st'.mvpGenerated = st.mvpGenerated
        /\ st'.reviewingInitiated = st.reviewingInitiated
        /\ \/ st'.currentDevState = "IDLE"
           \/ /\ st'.currentDevState = st.currentDevState
              /\ st'.currentPhase \in {st.currentPhase, 0}
    BY <1>1, <1>2 DEF TemplateFails, BlueprintInvalid, AppUpdated, PhaseGenerationRateLimited,
                      ImplementationFails, AppUpdateFails, Abandon, Ended, CodeGenState
  <2> QED
    BY <2>3, <2>4, QuietSound
<1>3. CASE IssuesForGeneration(r) \/ IssuesForImplementation(r) \/ FilesGenerated(r)
  <2>1. /\ runs'[r].phase = runs[r].phase /\ runs'[r].mode = runs[r].mode
        /\ runs'[r].failed = runs[r].failed
        /\ \/ {runs'[r].pc, runs[r].pc} \subseteq Implementing
           \/ {runs'[r].pc, runs[r].pc} \subseteq Planning
        /\ \A q \in RunIds \ {r} : runs'[q] = runs[q]
    BY <1>1, <1>3 DEF IssuesForGeneration, IssuesForImplementation, FilesGenerated, Run,
                      Implementing, Planning
  <2>2. /\ st'.generatedPhases = st.generatedPhases /\ st'.mvpGenerated = st.mvpGenerated
        /\ st'.reviewingInitiated = st.reviewingInitiated
        /\ st'.currentDevState = st.currentDevState /\ st'.currentPhase = st.currentPhase
    BY <1>1, <1>3 DEF IssuesForGeneration, IssuesForImplementation, FilesGenerated, CodeGenState
  <2> QED
    BY <2>1, <2>2, QuietSound
<1> QED
  BY <1>2, <1>3, BeginSound, GenerationSound, CompletionSound DEF RunStep

(* Messages, turns and evictions leave the phases alone; they may start a  *)
(* run, signal the one there is or end it.                                 *)
LEMMA OthersSound ==
  ASSUME IInv, PhasesInv,
         \/ GenerateAll \/ ResumeGeneration \/ StopGeneration \/ Evicted
         \/ \E t \in Turns : UserMessage(t) \/ TurnStep(t)
  PROVE  PhasesInv' /\ Kept(st, st')
<1>1. st \in CodeGenState /\ runs \in [RunIds -> Run]
  BY DEF IInv, TypeOK
<1>2. /\ st'.generatedPhases = st.generatedPhases /\ st'.mvpGenerated = st.mvpGenerated
      /\ st'.reviewingInitiated = st.reviewingInitiated
      /\ st'.currentDevState = st.currentDevState /\ st'.currentPhase = st.currentPhase
  BY <1>1 DEF CodeGenState, GenerateAll, ResumeGeneration, StopGeneration, Evicted, UserMessage,
              TurnStep, PrepareFails, TurnInference, QueueRequest, DeepDebug, DebugEnds,
              WaitForGeneration, WaitForDebug, TurnEnds, TurnRateLimited
<1>3. \/ runs' = runs \/ runs' = RunsSignalled(runs, "aborted")
      \/ runs' = [r \in RunIds |-> Off]
      \/ \E clears : Launch(clears)
  BY DEF GenerateAll, ResumeGeneration, StopGeneration, Evicted, UserMessage,
         TurnStep, PrepareFails, TurnInference, QueueRequest, DeepDebug, DebugEnds,
         WaitForGeneration, WaitForDebug, TurnEnds, TurnRateLimited
<1>4. \A r \in RunIds :
        \/ runs'[r].pc \in {"off", "template"}
        \/ /\ runs'[r].phase = runs[r].phase /\ runs'[r].mode = runs[r].mode
           /\ runs'[r].failed = runs[r].failed /\ runs'[r].pc = runs[r].pc
  <2>1. CASE runs' = runs \/ runs' = RunsSignalled(runs, "aborted")
    BY <1>1, <2>1, RunsQuiet DEF Signal
  <2>2. CASE runs' = [r \in RunIds |-> Off]
    BY <2>2 DEF Off
  <2>3. ASSUME NEW clears, Launch(clears)
        PROVE  \A r \in RunIds : runs'[r].pc = "template" \/ runs'[r] = runs[r]
    BY <1>1, <2>3 DEF Launch, Off
  <2> QED
    BY <1>3, <2>1, <2>2, <2>3
<1> QED
  BY <1>2, <1>4, QuietSound

LEMMA PhasesStep ==
  IInv /\ PhasesInv /\ [Next]_vars => PhasesInv' /\ Kept(st, st')
<1> SUFFICES ASSUME IInv, PhasesInv, [Next]_vars PROVE PhasesInv' /\ Kept(st, st')
  OBVIOUS
<1>1. CASE UNCHANGED vars
  BY <1>1, QuietSound DEF vars
<1> QED
  BY <1>1, RunStepSound, OthersSound DEF Next

LEMMA PhasesInit == Init => PhasesInv
  BY DEF Init, PhasesInv, StateSound, HistorySound, AtMostOneFinal, RunSound, Off,
         Implementing, Planning

(* No run spends inferences on a phase that is completed, for any number   *)
(* of failures, evictions and requests.                                    *)
THEOREM PhaseImplementedOnce == Spec => []NoPhaseImplementedTwice
<1>1. PhasesInv => NoPhaseImplementedTwice
  BY DEF PhasesInv, RunSound, Unfinished, Implementing, NoPhaseImplementedTwice
<1> QED
  BY <1>1, InitInv, NextInv, PhasesInit, PhasesStep, PTL DEF Spec

(* There is one final phase in the life of an app, and no review before.   *)
THEOREM FinalPhaseOnce == Spec => []FinalizedOnce
<1>1. PhasesInv => FinalizedOnce
  BY DEF PhasesInv, StateSound, HistorySound, AtMostOneFinal, FinalizedOnce
<1> QED
  BY <1>1, InitInv, NextInv, PhasesInit, PhasesStep, PTL DEF Spec

(* A run that reports completion and no error has been through both.       *)
THEOREM CompletionReviewed == Spec => []CompletedMeansReviewed
<1>1. PhasesInv => CompletedMeansReviewed
  BY DEF PhasesInv, StateSound, HistorySound, RunSound, CompletedMeansReviewed
<1> QED
  BY <1>1, InitInv, NextInv, PhasesInit, PhasesStep, PTL DEF Spec

(* No step drops a phase, reorders the phases or undoes a completed one.   *)
THEOREM PhasesKept == Spec => PhasesNeverUndone
<1>1. Kept(st, st') =>
        \A i \in 1..Len(st.generatedPhases) :
          /\ i \in 1..Len(st'.generatedPhases)
          /\ st'.generatedPhases[i].kind = st.generatedPhases[i].kind
          /\ st.generatedPhases[i].completed => st'.generatedPhases[i].completed
  BY DEF Kept
<1> QED
  BY <1>1, InitInv, NextInv, PhasesInit, PhasesStep, PTL DEF Spec, PhasesNeverUndone

-----------------------------------------------------------------------------
(* The requests of the users.  A run holds requests only while it asks for *)
(* the next phase; what is queued or held was not settled, and nothing is  *)
(* both.                                                                   *)
QueueInv ==
  /\ \A r \in RunIds : runs[r].pc # "inferGen" => runs[r].batch = {}
  /\ \A q \in st.pendingUserInputs \cup Batched : settled[q] = "no"
  /\ st.pendingUserInputs \cap Batched = {}

(* What one run holds is all that is held.                                 *)
LEMMA HeldByOne ==
  ASSUME IInv, QueueInv, NEW r \in RunIds, Active(r)
  PROVE  Batched = runs[r].batch /\ \A q \in RunIds \ {r} : runs[q].batch = {} /\ ~Active(q)
<1>1. \A q \in RunIds \ {r} : runs[q].pc = "off"
  BY DEF IInv, RunHoldsPromise, Active
<1> QED BY <1>1 DEF QueueInv, Batched, Active

LEMMA RequestsTyped ==
  ASSUME TypeOK
  PROVE  /\ st.pendingUserInputs \subseteq Requests /\ Batched \subseteq Requests
         /\ settled \in [Requests -> Settled]
BY DEF TypeOK, CodeGenState, Run, Batched

(* Where the requests are, in the words of RequestQueue.                   *)
LEMMA StatusRead ==
  ASSUME TypeOK, QueueInv
  PROVE  \A q \in Requests :
           requestStatus[q] = IF q \in st.pendingUserInputs THEN "queued"
                              ELSE IF q \in Batched THEN "taken"
                              ELSE IF settled[q] = "no" THEN "unsent" ELSE settled[q]
<1> SUFFICES ASSUME NEW q \in Requests
             PROVE  requestStatus[q] = IF q \in st.pendingUserInputs THEN "queued"
                                       ELSE IF q \in Batched THEN "taken"
                                       ELSE IF settled[q] = "no" THEN "unsent" ELSE settled[q]
  OBVIOUS
<1>1. q \in st.pendingUserInputs \/ q \in Batched => settled[q] = "no"
  BY DEF QueueInv
<1>2. requestStatus[q] = CASE settled[q] # "no" -> settled[q]
                           [] q \in st.pendingUserInputs -> "queued"
                           [] q \in Batched -> "taken"
                           [] OTHER -> "unsent"
  BY DEF requestStatus
<1> HIDE DEF requestStatus
<1>3. CASE settled[q] # "no"
  BY <1>1, <1>2, <1>3
<1>4. CASE settled[q] = "no" /\ q \in st.pendingUserInputs
  <2>1. q \notin Batched
    BY <1>4 DEF QueueInv
  <2> QED BY <1>2, <1>4, <2>1
<1>5. CASE settled[q] = "no" /\ q \notin st.pendingUserInputs /\ q \in Batched
  BY <1>2, <1>5
<1>6. CASE settled[q] = "no" /\ q \notin st.pendingUserInputs /\ q \notin Batched
  BY <1>2, <1>6
<1> QED BY <1>3, <1>4, <1>5, <1>6

LEMMA WhereRequestsAre ==
  ASSUME TypeOK, QueueInv
  PROVE  /\ Queue!In("queued") = st.pendingUserInputs
         /\ Queue!In("taken") = Batched
         /\ \A q \in Requests : q \in Fresh <=> requestStatus[q] = "unsent"
<1>1. \A q \in Requests : settled[q] \in {"no", "answered", "lost"}
  BY RequestsTyped DEF Settled
<1>2. \A q \in st.pendingUserInputs : q \notin Batched
  BY DEF QueueInv
<1> QED BY <1>1, <1>2, StatusRead, RequestsTyped DEF Queue!In, Fresh, QueueInv

(* Two statuses with the same values are the same.                         *)
LEMMA StatusMoved ==
  ASSUME NEW batch, NEW s,
         \A q \in Requests : requestStatus'[q] = IF q \in batch THEN s ELSE requestStatus[q]
  PROVE  Queue!Moved(batch, s)
BY DEF Queue!Moved, requestStatus

(* No request is queued, taken or settled.                                 *)
LEMMA QuietQueue ==
  ASSUME QueueInv, settled' = settled, st'.pendingUserInputs = st.pendingUserInputs,
         \A r \in RunIds : /\ runs'[r].batch = runs[r].batch
                           /\ runs'[r].pc # "inferGen" => runs'[r].batch = {}
  PROVE  QueueInv' /\ requestStatus' = requestStatus
<1>1. Batched' = Batched
  BY DEF Batched
<1> QED BY <1>1 DEF QueueInv, requestStatus

(* All that is held is settled in one way.                                 *)
LEMMA SettledQueue ==
  ASSUME TypeOK, QueueInv, NEW how \in {"answered", "lost"}, Settle(Batched, how),
         st'.pendingUserInputs = st.pendingUserInputs, \A r \in RunIds : runs'[r].batch = {}
  PROVE  /\ QueueInv'
         /\ Queue!Answer \/ Queue!Lose \/ requestStatus' = requestStatus
<1>1. Batched' = {}
  BY DEF Batched
<1>2. \A q \in Requests : settled'[q] = IF q \in Batched THEN how ELSE settled[q]
  BY DEF Settle
<1>3. QueueInv'
  BY <1>1, <1>2, RequestsTyped DEF QueueInv
<1>4. CASE Batched = {}
  <2>1. settled' = settled
    BY <1>4, RequestsTyped DEF Settle
  <2> QED BY <1>1, <1>3, <1>4, <2>1 DEF requestStatus
<1>5. CASE Batched # {}
  <2>1. \A q \in Requests : requestStatus'[q] = IF q \in Batched THEN how ELSE requestStatus[q]
    <3> SUFFICES ASSUME NEW q \in Requests
                 PROVE  requestStatus'[q] = IF q \in Batched THEN how ELSE requestStatus[q]
      OBVIOUS
    <3>1. CASE q \in Batched
      <4>1. settled'[q] = how /\ how # "no"
        BY <1>2, <3>1
      <4>2. q \notin st'.pendingUserInputs /\ q \notin Batched'
        BY <1>1, <3>1 DEF QueueInv
      <4>3. requestStatus'[q] = CASE settled'[q] # "no" -> settled'[q]
                                  [] q \in st'.pendingUserInputs -> "queued"
                                  [] q \in Batched' -> "taken"
                                  [] OTHER -> "unsent"
        BY DEF requestStatus
      <4> HIDE DEF requestStatus
      <4> QED BY <3>1, <4>1, <4>2, <4>3
    <3>2. CASE q \notin Batched
      BY <1>1, <1>2, <3>2 DEF requestStatus
    <3> QED BY <3>1, <3>2
  <2>2. Queue!Moved(Batched, how)
    BY <2>1, StatusMoved
  <2> QED BY <1>3, <1>5, <2>2, WhereRequestsAre DEF Queue!Answer, Queue!Lose
<1> QED BY <1>4, <1>5

(* The loop goes on without the requests it asked with.                    *)
LEMMA EnteredDrained ==
  ASSUME NEW s \in CodeGenState, NEW run \in Run, NEW dev \in DevState
  PROVE  LET e == Entered(s, run, dev)
         IN /\ e.run.batch = {} /\ e.run.pc # "inferGen"
            /\ e.state.pendingUserInputs = s.pendingUserInputs
<1> DEFINE Drained(e) == /\ e.run.batch = {} /\ e.run.pc # "inferGen"
                         /\ e.state.pendingUserInputs = s.pendingUserInputs
<1>1. ASSUME NEW d \in DevState
      PROVE  /\ Persisted(s, run, d) \in CodeGenState
             /\ Persisted(s, run, d).pendingUserInputs = s.pendingUserInputs
  BY PersistedType DEF Persisted, CodeGenState
<1>2. ASSUME NEW e, e = EnterDone(s, run) PROVE Drained(e)
  <2> DEFINE p == Persisted(s, run, "IDLE")
  <2>1. p.pendingUserInputs = s.pendingUserInputs
    BY <1>1 DEF DevState
  <2>2. e = Paused(p, run, "updateApp", "phase", 0)
    BY <1>2 DEF EnterDone
  <2> HIDE DEF p
  <2>3. e.run.batch = {} /\ e.run.pc = "updateApp" /\ e.state = p
    BY <2>2 DEF Paused, Run
  <2> QED BY <2>1, <2>3
<1>3. ASSUME NEW e, e = EnterReviewing(s, run) PROVE Drained(e)
  <2>1. CASE s.reviewingInitiated
    BY <2>1, <1>2, <1>3 DEF EnterReviewing
  <2>2. CASE ~s.reviewingInitiated
    <3> DEFINE p == [Persisted(s, run, "REVIEWING") EXCEPT !.reviewingInitiated = TRUE]
    <3>1. p.pendingUserInputs = s.pendingUserInputs
      BY <1>1 DEF CodeGenState, DevState
    <3>2. e = Paused(p, run, "issuesReview", "phase", 0)
      BY <2>2, <1>3 DEF EnterReviewing
    <3> HIDE DEF p
    <3>3. e.run.batch = {} /\ e.run.pc = "issuesReview" /\ e.state = p
      BY <3>2 DEF Paused, Run
    <3> QED BY <3>1, <3>3
  <2> QED BY <2>1, <2>2
<1>4. ASSUME NEW e, e = EnterFinalizing(s, run) PROVE Drained(e)
  <2>1. CASE s.mvpGenerated
    BY <2>1, <1>3, <1>4 DEF EnterFinalizing
  <2>2. CASE ~s.mvpGenerated
    <3> DEFINE p == [Persisted(s, run, "FINALIZING") EXCEPT
                       !.mvpGenerated = TRUE,
                       !.generatedPhases = Append(@, [kind |-> "final", completed |-> FALSE])]
               n == Len(s.generatedPhases) + 1
    <3>1. p.pendingUserInputs = s.pendingUserInputs
      BY <1>1 DEF CodeGenState, DevState
    <3>2. e = Paused(p, run, "issuesImpl", "final", n)
      BY <2>2, <1>4 DEF EnterFinalizing
    <3> HIDE DEF p, n
    <3>3. e.run.batch = {} /\ e.run.pc = "issuesImpl" /\ e.state = p
      BY <3>2 DEF Paused, Run
    <3> QED BY <3>1, <3>3
  <2> QED BY <2>1, <2>2
<1>5. ASSUME NEW e, e = EnterImplementing(s, run) PROVE Drained(e)
  <2> DEFINE p == [Persisted(s, run, "PHASE_IMPLEMENTING") EXCEPT !.currentPhase = 0]
  <2>1. p.pendingUserInputs = s.pendingUserInputs
    BY <1>1 DEF CodeGenState, DevState
  <2>2. CASE run.concept = 0
    <3>1. e = Paused(p, run, "issuesGen", "resume", 0)
      BY <2>2, <1>5 DEF EnterImplementing
    <3> HIDE DEF p
    <3>2. e.run.batch = {} /\ e.run.pc = "issuesGen" /\ e.state = p
      BY <3>1 DEF Paused, Run
    <3> QED BY <2>1, <3>2
  <2>3. CASE run.concept # 0
    <3> DEFINE n == run.concept
    <3>1. e = Paused(p, run, "issuesImpl", "phase", n)
      BY <2>3, <1>5 DEF EnterImplementing
    <3> HIDE DEF p, n
    <3>2. e.run.batch = {} /\ e.run.pc = "issuesImpl" /\ e.state = p
      BY <3>1 DEF Paused, Run
    <3> QED BY <2>1, <3>2
  <2> QED BY <2>2, <2>3
<1>6. ASSUME NEW e, e = EnterGenerating(s, run) PROVE Drained(e)
  <2> DEFINE p == Persisted(s, run, "PHASE_GENERATING")
  <2>1. p.pendingUserInputs = s.pendingUserInputs
    BY <1>1 DEF DevState
  <2>2. e = Paused(p, run, "issuesGen", "phase", 0)
    BY <1>6 DEF EnterGenerating
  <2> HIDE DEF p
  <2>3. e.run.batch = {} /\ e.run.pc = "issuesGen" /\ e.state = p
    BY <2>2 DEF Paused, Run
  <2> QED BY <2>1, <2>3
<1> HIDE DEF Drained
<1>7. ASSUME NEW e, e = Entered(s, run, dev) PROVE Drained(e)
  BY <1>2, <1>3, <1>4, <1>5, <1>6, <1>7 DEF Entered, DevState
<1> QED BY <1>7 DEF Drained

LEMMA AdvanceDrains ==
  ASSUME IInv, NEW r \in RunIds, NEW s \in CodeGenState, NEW run \in Run,
         NEW dev \in DevState, NEW concept \in Nat, Advance(r, s, run, dev, concept)
  PROVE  /\ st'.pendingUserInputs = s.pendingUserInputs
         /\ runs'[r].batch = {} /\ runs'[r].pc # "inferGen"
         /\ \A q \in RunIds \ {r} : runs'[q].batch = runs[q].batch /\ runs'[q].pc = runs[q].pc
<1> DEFINE going == [run EXCEPT !.concept = concept]
           e == Entered(s, going, dev)
           moved == [runs EXCEPT ![r] = e.run]
<1>1. going \in Run
  BY DEF Run
<1>2. st' = e.state /\ (runs' = moved \/ runs' = RunsSignalled(moved, "dropped"))
  BY DEF Advance
<1> HIDE DEF going
<1>3. /\ e.run \in Run /\ e.run.batch = {} /\ e.run.pc # "inferGen"
      /\ e.state.pendingUserInputs = s.pendingUserInputs
  BY <1>1, EnteredDrained, EnteredType
<1> HIDE DEF e
<1>4. moved \in [RunIds -> Run] /\ moved[r] = e.run /\ \A q \in RunIds \ {r} : moved[q] = runs[q]
  BY <1>3 DEF IInv, TypeOK
<1> HIDE DEF moved
<1>5. \A q \in RunIds : runs'[q].batch = moved[q].batch /\ runs'[q].pc = moved[q].pc
  BY <1>2, <1>4 DEF RunsSignalled, Run
<1> QED BY <1>2, <1>3, <1>4, <1>5

(* A run that advances, and settles what it holds.                         *)
LEMMA AdvanceQueue ==
  ASSUME IInv, QueueInv, NEW r \in RunIds, Active(r), NEW s \in CodeGenState, NEW run \in Run,
         NEW dev \in DevState, NEW concept \in Nat, Advance(r, s, run, dev, concept),
         s.pendingUserInputs = st.pendingUserInputs,
         \/ \E how \in {"answered", "lost"} : Settle(runs[r].batch, how)
         \/ settled' = settled /\ runs[r].pc # "inferGen"
  PROVE  /\ QueueInv'
         /\ Queue!Answer \/ Queue!Lose \/ requestStatus' = requestStatus
<1>1. Batched = runs[r].batch /\ \A q \in RunIds \ {r} : runs[q].batch = {} /\ runs[q].pc = "off"
  BY HeldByOne DEF Active
<1>2. /\ st'.pendingUserInputs = st.pendingUserInputs
      /\ runs'[r].batch = {} /\ runs'[r].pc # "inferGen"
      /\ \A q \in RunIds \ {r} : runs'[q].batch = runs[q].batch
  BY AdvanceDrains
<1>3. CASE \E how \in {"answered", "lost"} : Settle(runs[r].batch, how)
  BY <1>1, <1>2, <1>3, SettledQueue DEF IInv
<1>4. CASE settled' = settled /\ runs[r].pc # "inferGen"
  <2>1. runs[r].batch = {}
    BY <1>4 DEF QueueInv
  <2> QED BY <1>1, <1>2, <1>4, <2>1, QuietQueue
<1> QED BY <1>3, <1>4

QueueStep == QueueInv' /\ (Queue!Next \/ requestStatus' = requestStatus)

LEMMA BeginQueue ==
  ASSUME IInv, QueueInv, NEW r \in RunIds,
         \/ BeginFromPersisted(r) \/ BeginFromIncomplete(r)
         \/ BeginNextPhase(r) \/ BeginInitialPhase(r)
  PROVE  QueueStep
<1>1. /\ st \in CodeGenState /\ runs[r] \in Run /\ Active(r) /\ runs[r].pc # "inferGen"
      /\ st.currentDevState \in DevState /\ st.currentPhase \in Nat
      /\ st.generatedPhases \in Seq(Phase)
      /\ {"PHASE_IMPLEMENTING", "PHASE_GENERATING"} \subseteq DevState
  BY DEF IInv, TypeOK, CodeGenState, Active, DevState, BeginFromPersisted,
         BeginFromIncomplete, BeginNextPhase, BeginInitialPhase
<1>2. ASSUME NEW s \in CodeGenState, NEW dev \in DevState, NEW concept \in Nat,
             Begin(r, s, dev, concept), s.pendingUserInputs = st.pendingUserInputs
      PROVE  QueueStep
  BY <1>1, <1>2, AdvanceQueue DEF Begin, QueueStep, Queue!Next
<1>3. CASE BeginFromPersisted(r) \/ BeginNextPhase(r)
  BY <1>1, <1>2, <1>3 DEF BeginFromPersisted, BeginNextPhase
<1>4. CASE BeginFromIncomplete(r)
  <2>1. PICK i \in Incomplete : Begin(r, st, "PHASE_IMPLEMENTING", i)
    BY <1>4 DEF BeginFromIncomplete
  <2>2. i \in Nat
    BY <1>1 DEF Incomplete
  <2> QED
    BY <1>1, <1>2, <2>1, <2>2
<1>5. CASE BeginInitialPhase(r)
  <2>1. PICK kind \in {"dev", "last"} :
          Begin(r, [st EXCEPT !.generatedPhases = <<[kind |-> kind, completed |-> FALSE]>>],
                "PHASE_IMPLEMENTING", 1)
    BY <1>5 DEF BeginInitialPhase
  <2> DEFINE s == [st EXCEPT !.generatedPhases = <<[kind |-> kind, completed |-> FALSE]>>]
  <2>2. <<[kind |-> kind, completed |-> FALSE]>> \in Seq(Phase)
    BY DEF Phase, PhaseKind
  <2>3. s \in CodeGenState /\ s.pendingUserInputs = st.pendingUserInputs
    BY <1>1, <2>2 DEF CodeGenState
  <2> HIDE DEF s
  <2>4. Begin(r, s, "PHASE_IMPLEMENTING", 1)
    BY <2>1 DEF s
  <2> QED
    BY <1>1, <1>2, <2>3, <2>4
<1> QED
  BY <1>3, <1>4, <1>5

(* The phase generation that took the requests answers them or loses them. *)
LEMMA PhaseGeneratedQueue ==
  ASSUME IInv, QueueInv, NEW r \in RunIds, PhaseGenerated(r)
  PROVE  QueueStep
<1>1. /\ st \in CodeGenState /\ runs \in [RunIds -> Run] /\ runs[r] \in Run /\ Active(r)
      /\ st.generatedPhases \in Seq(Phase) /\ "PHASE_IMPLEMENTING" \in DevState
  BY DEF IInv, TypeOK, CodeGenState, Active, DevState, PhaseGenerated
<1>2. PICK kind \in {"dev", "last"} :
        LET s == [st EXCEPT !.generatedPhases =
                              Append(@, [kind |-> kind, completed |-> FALSE])]
            new == Len(s.generatedPhases)
        IN IF runs[r].mode = "phase"
             THEN Advance(r, s, runs[r], "PHASE_IMPLEMENTING", new)
             ELSE /\ st' = [s EXCEPT !.currentPhase = 0]
                  /\ runs' = [runs EXCEPT ![r].pc = "issuesImpl", ![r].phase = new,
                                          ![r].batch = {}, ![r].signal = "none"]
  BY DEF PhaseGenerated
<1> DEFINE phase == [kind |-> kind, completed |-> FALSE]
           s == [st EXCEPT !.generatedPhases = Append(@, phase)]
           new == Len(s.generatedPhases)
<1>3. phase \in Phase
  BY DEF Phase, PhaseKind
<1>4. IF runs[r].mode = "phase"
        THEN Advance(r, s, runs[r], "PHASE_IMPLEMENTING", new)
        ELSE /\ st' = [s EXCEPT !.currentPhase = 0]
             /\ runs' = [runs EXCEPT ![r].pc = "issuesImpl", ![r].phase = new,
                                     ![r].batch = {}, ![r].signal = "none"]
  BY <1>2
<1> HIDE DEF phase
<1>5. Append(st.generatedPhases, phase) \in Seq(Phase)
  BY <1>1, <1>3
<1>6. /\ s \in CodeGenState /\ s.generatedPhases = Append(st.generatedPhases, phase)
      /\ s.pendingUserInputs = st.pendingUserInputs
  BY <1>1, <1>5 DEF CodeGenState
<1> HIDE DEF s
<1>7. new \in Nat
  BY <1>5, <1>6
<1> HIDE DEF new
<1>8. Settle(runs[r].batch, "answered")
  BY DEF PhaseGenerated
<1>9. CASE runs[r].mode = "phase"
  <2>1. Advance(r, s, runs[r], "PHASE_IMPLEMENTING", new)
    BY <1>4, <1>9
  <2> QED
    BY <1>1, <1>6, <1>7, <1>8, <2>1, AdvanceQueue DEF QueueStep, Queue!Next
<1>10. CASE runs[r].mode # "phase"
  <2>1. st'.pendingUserInputs = st.pendingUserInputs
    BY <1>4, <1>6, <1>10 DEF CodeGenState
  <2>2. Batched = runs[r].batch /\ \A q \in RunIds \ {r} : runs[q].batch = {}
    BY <1>1, HeldByOne
  <2>3. \A q \in RunIds : runs'[q].batch = {}
    BY <1>1, <1>4, <1>10, <2>2 DEF Run
  <2> QED
    BY <1>8, <2>1, <2>2, <2>3, SettledQueue DEF IInv, QueueStep, Queue!Next
<1> QED
  BY <1>9, <1>10

LEMMA GenerationQueue ==
  ASSUME IInv, QueueInv, NEW r \in RunIds,
         NoMorePhases(r) \/ PhaseGenerationFails(r) \/ IssuesForReview(r)
  PROVE  QueueStep
<1>1. /\ st \in CodeGenState /\ runs[r] \in Run /\ Active(r) /\ runs[r].concept \in Nat
      /\ {"FINALIZING", "IDLE"} \subseteq DevState
  BY DEF IInv, TypeOK, Active, DevState, Run, NoMorePhases, PhaseGenerationFails, IssuesForReview
<1>2. CASE NoMorePhases(r)
  BY <1>1, <1>2, AdvanceQueue DEF NoMorePhases, QueueStep, Queue!Next
<1>3. CASE PhaseGenerationFails(r)
  <2> DEFINE failing == [runs[r] EXCEPT !.failed = TRUE]
             dev == IF runs[r].mode = "phase" THEN "IDLE" ELSE "FINALIZING"
  <2>1. failing \in Run /\ dev \in DevState
    BY <1>1 DEF Run
  <2>2. Advance(r, st, failing, dev, 0) /\ Settle(runs[r].batch, "lost")
    BY <1>3 DEF PhaseGenerationFails
  <2> HIDE DEF failing, dev
  <2> QED
    BY <1>1, <2>1, <2>2, AdvanceQueue DEF QueueStep, Queue!Next
<1>4. CASE IssuesForReview(r)
  BY <1>1, <1>4, AdvanceQueue DEF IssuesForReview, QueueStep, Queue!Next
<1> QED
  BY <1>2, <1>3, <1>4

LEMMA CompletedQueue ==
  ASSUME IInv, QueueInv, NEW r \in RunIds, PhaseCompleted(r)
  PROVE  QueueStep
<1> DEFINE n == runs[r].phase
           marked == [st EXCEPT !.generatedPhases[n].completed = TRUE]
           counted == [marked EXCEPT !.phasesCounter = @ - 1]
<1>1. /\ st \in CodeGenState /\ runs[r] \in Run /\ Active(r) /\ runs[r].pc # "inferGen"
      /\ st.generatedPhases \in Seq(Phase) /\ runs[r].concept \in Nat /\ n \in Nat
      /\ {"REVIEWING", "FINALIZING", "PHASE_GENERATING"} \subseteq DevState
  BY DEF IInv, TypeOK, CodeGenState, Active, DevState, Run, PhaseCompleted
<1>2. [st.generatedPhases EXCEPT ![n].completed = TRUE] \in Seq(Phase)
  BY <1>1, MarkedType
<1>3. marked \in CodeGenState /\ marked.pendingUserInputs = st.pendingUserInputs
  BY <1>1, <1>2 DEF CodeGenState
<1> HIDE DEF marked
<1>4. counted \in CodeGenState /\ counted.pendingUserInputs = st.pendingUserInputs
  BY <1>3 DEF CodeGenState
<1>5. \E s \in {marked, counted}, dev \in {"REVIEWING", "FINALIZING", "PHASE_GENERATING"} :
        Advance(r, s, runs[r], dev, runs[r].concept)
  BY DEF PhaseCompleted, marked
<1> HIDE DEF counted
<1>6. PICK s \in {marked, counted}, dev \in {"REVIEWING", "FINALIZING", "PHASE_GENERATING"} :
        Advance(r, s, runs[r], dev, runs[r].concept)
  BY <1>5
<1>7. settled' = settled
  BY DEF PhaseCompleted
<1> QED
  BY <1>1, <1>3, <1>4, <1>6, <1>7, AdvanceQueue DEF QueueStep, Queue!Next

(* Draining the queue is RequestQueue's Take, or nothing when it is empty. *)
LEMMA IssuesQueue ==
  ASSUME IInv, QueueInv, NEW r \in RunIds, IssuesForGeneration(r)
  PROVE  QueueStep
<1>1. /\ st \in CodeGenState /\ runs \in [RunIds -> Run] /\ runs[r] \in Run /\ Active(r)
  BY DEF IInv, TypeOK, Active, IssuesForGeneration
<1>2. /\ st'.pendingUserInputs = {} /\ settled' = settled
      /\ runs'[r].pc = "inferGen" /\ runs'[r].batch = st.pendingUserInputs
      /\ \A q \in RunIds \ {r} : runs'[q] = runs[q]
  BY <1>1 DEF IssuesForGeneration, CodeGenState, Run
<1>3. Batched = {} /\ Batched' = st.pendingUserInputs
  <2>1. runs[r].batch = {} /\ \A q \in RunIds \ {r} : runs[q].batch = {}
    BY <1>1, HeldByOne DEF QueueInv, IssuesForGeneration
  <2> QED
    BY <1>2, <2>1 DEF Batched
<1>4. QueueInv'
  BY <1>2, <1>3 DEF QueueInv
<1>5. CASE st.pendingUserInputs = {}
  BY <1>2, <1>3, <1>4, <1>5 DEF requestStatus, QueueStep
<1>6. CASE st.pendingUserInputs # {}
  <2>1. \A q \in Requests :
          requestStatus'[q] = IF q \in st.pendingUserInputs THEN "taken" ELSE requestStatus[q]
    <3> SUFFICES ASSUME NEW q \in Requests
                 PROVE  requestStatus'[q] = IF q \in st.pendingUserInputs
                                              THEN "taken" ELSE requestStatus[q]
      OBVIOUS
    <3>1. CASE q \in st.pendingUserInputs
      <4>1. settled'[q] = "no"
        BY <1>2, <3>1 DEF QueueInv
      <4>2. requestStatus'[q] = CASE settled'[q] # "no" -> settled'[q]
                                  [] q \in st'.pendingUserInputs -> "queued"
                                  [] q \in Batched' -> "taken"
                                  [] OTHER -> "unsent"
        BY DEF requestStatus
      <4> HIDE DEF requestStatus
      <4> QED
        BY <1>2, <1>3, <3>1, <4>1, <4>2
    <3>2. CASE q \notin st.pendingUserInputs
      BY <1>2, <1>3, <3>2 DEF requestStatus
    <3> QED
      BY <3>1, <3>2
  <2>2. Queue!Moved(st.pendingUserInputs, "taken")
    BY <2>1, StatusMoved
  <2>3. Queue!In("queued") = st.pendingUserInputs /\ Queue!In("taken") = {}
    BY <1>3, WhereRequestsAre DEF IInv
  <2> QED
    BY <1>4, <1>6, <2>2, <2>3 DEF Queue!Take, Queue!Next, QueueStep
<1> QED
  BY <1>5, <1>6

(* A run that ends settles what it holds, if anything.                     *)
LEMMA EndQueue ==
  ASSUME IInv, QueueInv, NEW r \in RunIds,
         \/ TemplateFails(r) \/ BlueprintInvalid(r) \/ AppUpdated(r)
         \/ PhaseGenerationRateLimited(r) \/ ImplementationFails(r) \/ AppUpdateFails(r)
  PROVE  QueueStep
<1>1. st \in CodeGenState /\ runs \in [RunIds -> Run] /\ runs[r] \in Run /\ Active(r)
  BY DEF IInv, TypeOK, Active, TemplateFails, BlueprintInvalid, AppUpdated,
         PhaseGenerationRateLimited, ImplementationFails, AppUpdateFails
<1>2. Batched = runs[r].batch /\ \A q \in RunIds \ {r} : runs[q].batch = {}
  BY <1>1, HeldByOne
<1>3. st'.pendingUserInputs = st.pendingUserInputs
  BY <1>1 DEF TemplateFails, BlueprintInvalid, AppUpdated, PhaseGenerationRateLimited,
              ImplementationFails, AppUpdateFails, Abandon, Ended, CodeGenState
<1>4. \A q \in RunIds : runs'[q].batch = {}
  <2> DEFINE f == [runs EXCEPT ![r] = Off]
  <2>1. f \in [RunIds -> Run] /\ \A q \in RunIds : f[q].batch = {}
    BY <1>1, <1>2, OffType DEF Off
  <2>2. runs' = f \/ runs' = RunsSignalled(f, "dropped")
    BY DEF TemplateFails, BlueprintInvalid, AppUpdated, PhaseGenerationRateLimited,
           ImplementationFails, AppUpdateFails, Abandon
  <2> HIDE DEF f
  <2> QED
    BY <2>1, <2>2 DEF RunsSignalled, Run
<1>5. CASE TemplateFails(r) \/ BlueprintInvalid(r) \/ AppUpdated(r)
  <2>1. settled' = settled /\ runs[r].batch = {}
    BY <1>5 DEF TemplateFails, BlueprintInvalid, AppUpdated, QueueInv
  <2> QED
    BY <1>2, <1>3, <1>4, <2>1, QuietQueue DEF QueueStep
<1>6. CASE PhaseGenerationRateLimited(r) \/ ImplementationFails(r) \/ AppUpdateFails(r)
  <2>1. Settle(Batched, "lost")
    BY <1>2, <1>6 DEF PhaseGenerationRateLimited, ImplementationFails, AppUpdateFails, Abandon
  <2> QED
    BY <1>3, <1>4, <2>1, SettledQueue DEF IInv, QueueStep, Queue!Next
<1> QED
  BY <1>5, <1>6

LEMMA RunStepQueue ==
  ASSUME IInv, QueueInv, NEW r \in RunIds, RunStep(r)
  PROVE  QueueStep
<1>1. CASE IssuesForImplementation(r) \/ FilesGenerated(r)
  <2>1. /\ runs \in [RunIds -> Run] /\ runs[r].batch = {}
    BY <1>1 DEF IInv, TypeOK, QueueInv, IssuesForImplementation, FilesGenerated
  <2>2. /\ settled' = settled /\ st' = st
        /\ \A q \in RunIds : runs'[q].batch = runs[q].batch
        /\ runs'[r].batch = {} /\ \A q \in RunIds \ {r} : runs'[q].pc = runs[q].pc
    BY <1>1, <2>1 DEF IssuesForImplementation, FilesGenerated, Run
  <2> QED
    BY <2>2, QuietQueue DEF QueueInv, QueueStep
<1> QED
  BY <1>1, BeginQueue, PhaseGeneratedQueue, GenerationQueue, CompletedQueue, IssuesQueue,
     EndQueue DEF RunStep

(* A user's request enters the queue once.                                 *)
LEMMA RequestQueued ==
  ASSUME IInv, QueueInv, NEW t \in Turns, QueueRequest(t)
  PROVE  QueueStep
<1>1. PICK q \in Fresh :
        st' = [st EXCEPT !.pendingUserInputs = @ \cup {q},
                         !.phasesCounter = IF @ <= PhasesPerRequest
                                             THEN PhasesPerRequest ELSE @]
  BY DEF QueueRequest
<1>2. /\ st'.pendingUserInputs = st.pendingUserInputs \cup {q}
      /\ settled' = settled /\ runs' = runs /\ Batched' = Batched
  <2>1. st'.pendingUserInputs = st.pendingUserInputs \cup {q}
    BY <1>1 DEF IInv, TypeOK, CodeGenState
  <2>2. settled' = settled /\ runs' = runs
    BY DEF QueueRequest
  <2> QED
    BY <2>1, <2>2 DEF Batched
<1>3. q \in Requests /\ settled[q] = "no" /\ q \notin Batched
  BY DEF Fresh
<1>4. QueueInv'
  BY <1>2, <1>3 DEF QueueInv
<1>5. \A p \in Requests : requestStatus'[p] = IF p \in {q} THEN "queued" ELSE requestStatus[p]
  <2> SUFFICES ASSUME NEW p \in Requests
               PROVE  requestStatus'[p] = IF p \in {q} THEN "queued" ELSE requestStatus[p]
    OBVIOUS
  <2>1. CASE p = q
    <3>1. requestStatus'[p] = CASE settled'[p] # "no" -> settled'[p]
                                [] p \in st'.pendingUserInputs -> "queued"
                                [] p \in Batched' -> "taken"
                                [] OTHER -> "unsent"
      BY DEF requestStatus
    <3> HIDE DEF requestStatus
    <3> QED
      BY <1>2, <1>3, <2>1, <3>1
  <2>2. CASE p # q
    <3>1. p \in st'.pendingUserInputs <=> p \in st.pendingUserInputs
      BY <1>2, <2>2
    <3> QED
      BY <1>2, <2>2, <3>1 DEF requestStatus
  <2> QED
    BY <2>1, <2>2
<1>6. Queue!Moved({q}, "queued")
  BY <1>5, StatusMoved
<1>7. requestStatus[q] = "unsent"
  BY <1>3, WhereRequestsAre DEF IInv, Fresh
<1> QED
  BY <1>3, <1>4, <1>6, <1>7 DEF Queue!Queue, Queue!Next, QueueStep

(* An eviction loses what was held; messages and turns settle nothing.     *)
LEMMA OthersQueue ==
  ASSUME IInv, QueueInv,
         \/ GenerateAll \/ ResumeGeneration \/ StopGeneration \/ Evicted
         \/ \E t \in Turns : UserMessage(t) \/ TurnStep(t)
  PROVE  QueueStep
<1>1. st \in CodeGenState /\ runs \in [RunIds -> Run]
  BY DEF IInv, TypeOK
<1>2. CASE Evicted
  <2>1. \A r \in RunIds : runs'[r].batch = {}
    BY <1>2 DEF Evicted, Off
  <2> QED
    BY <1>2, <2>1, SettledQueue DEF Evicted, IInv, QueueStep, Queue!Next
<1>3. CASE \E t \in Turns : QueueRequest(t)
  BY <1>3, RequestQueued
<1>4. CASE /\ ~Evicted /\ \A t \in Turns : ~QueueRequest(t)
  <2>1. st'.pendingUserInputs = st.pendingUserInputs /\ settled' = settled
    BY <1>1, <1>4 DEF CodeGenState, GenerateAll, ResumeGeneration, StopGeneration, UserMessage,
                      TurnStep, PrepareFails, TurnInference, DeepDebug, DebugEnds,
                      WaitForGeneration, WaitForDebug, TurnEnds, TurnRateLimited
  <2>2. \/ runs' = runs \/ runs' = RunsSignalled(runs, "aborted")
        \/ \E clears : Launch(clears)
    BY <1>4 DEF GenerateAll, ResumeGeneration, StopGeneration, UserMessage,
                TurnStep, PrepareFails, TurnInference, DeepDebug, DebugEnds,
                WaitForGeneration, WaitForDebug, TurnEnds, TurnRateLimited
  <2>3. \A r \in RunIds : /\ runs'[r].batch = runs[r].batch
                          /\ runs'[r].pc # "inferGen" => runs'[r].batch = {}
    <3>1. CASE runs' = runs \/ runs' = RunsSignalled(runs, "aborted")
      <4>1. \A r \in RunIds : runs'[r].batch = runs[r].batch /\ runs'[r].pc = runs[r].pc
        BY <1>1, <3>1 DEF RunsSignalled, Run
      <4> QED
        BY <4>1 DEF QueueInv
    <3>2. ASSUME NEW clears, Launch(clears)
          PROVE  \A r \in RunIds : /\ runs'[r].batch = runs[r].batch
                                   /\ runs'[r].pc # "inferGen" => runs'[r].batch = {}
      <4>1. \A r \in RunIds : runs'[r] = runs[r] \/ (runs[r].pc = "off" /\ runs'[r].batch = {})
        BY <1>1, <3>2 DEF Launch, Off
      <4> QED
        BY <4>1 DEF QueueInv
    <3> QED
      BY <2>2, <3>1, <3>2
  <2> QED
    BY <2>1, <2>3, QuietQueue DEF QueueStep
<1> QED
  BY <1>2, <1>3, <1>4

LEMMA QueueNext ==
  IInv /\ QueueInv /\ [Next]_vars => QueueInv' /\ [Queue!Next]_requestStatus
<1> SUFFICES ASSUME IInv, QueueInv, [Next]_vars PROVE QueueStep
  BY DEF QueueStep
<1>1. CASE UNCHANGED vars
  <2>1. \A r \in RunIds : /\ runs'[r].batch = runs[r].batch
                          /\ runs'[r].pc # "inferGen" => runs'[r].batch = {}
    BY <1>1 DEF vars, QueueInv
  <2> QED
    BY <1>1, <2>1, QuietQueue DEF vars, QueueStep
<1> QED
  BY <1>1, RunStepQueue, OthersQueue DEF Next

LEMMA QueueInit == Init => QueueInv /\ Queue!Init
<1> SUFFICES ASSUME Init PROVE QueueInv /\ Queue!Init
  OBVIOUS
<1>1. /\ st.pendingUserInputs = {} /\ Batched = {} /\ settled = [q \in Requests |-> "no"]
      /\ \A r \in RunIds : runs[r].batch = {}
  BY DEF Init, Off, Batched
<1> QED
  BY <1>1 DEF QueueInv, Queue!Init, requestStatus

(* Every behaviour of the agent is one of RequestQueue, but for what       *)
(* RequestQueue promises to happen in the end: a request is queued once,   *)
(* the queue is taken as a whole by one generation, and that generation    *)
(* answers or loses what it took.  Nothing queued is ever lost, nothing    *)
(* taken comes back, whatever fails, is stopped or evicted in between.     *)
THEOREM RequestsHandled == Spec => Queue!Init /\ [][Queue!Next]_requestStatus
  BY InitInv, NextInv, QueueInit, QueueNext, PTL DEF Spec

=============================================================================
