------------------------------- MODULE ChatProofs -------------------------------
(***************************************************************************)
(* Theorems about what happens while a user chats: the page, for every     *)
(* number of attempts, troubles and clicks; an inference, for every depth, *)
(* chunk size and length of responses, whatever the models, the tools and  *)
(* the stop button do; the tool calls in its responses, for every number   *)
(* of calls and of pieces; the answer to a phase, for every number of      *)
(* files, lines and chunks.                                                *)
(***************************************************************************)
EXTENDS MCChat, ChatClient, SequenceTheorems, Sums

-----------------------------------------------------------------------------
(* ChatClient.                                                             *)

States == {"none", "connecting", "open", "down", "closing", "closed"}

(* The page counts its sockets: the last one it gave to its view is the    *)
(* latest it made, the view lags behind, and no socket is there before it  *)
(* is made.  Only the effects of a render and the end of the page close a  *)
(* socket without an event, and those of a render not the latest one.      *)
Shape ==
  /\ mounted \in BOOLEAN /\ status \in {"idle", "waiting", "connected"}
  /\ attempt \in 0..MaxAttempts /\ timers \in Nat
  /\ websocket = attempt /\ rendered \in 0..attempt
  /\ status = "idle" <=> attempt = 0
  /\ sock \in [Sockets -> States]
  /\ \A i \in Sockets : sock[i] = "none" <=> i > attempt

IInv == Shape /\ NeverStranded /\ RunsAreIntended

LEMMA InitHolds == Init => IInv
  BY ChatClientAssumption DEF Init, IInv, Shape, NeverStranded, RunsAreIntended, Sockets, States

-----------------------------------------------------------------------------
(* The page.                                                               *)

LEMMA ConnectHolds ==
  ASSUME IInv, ConnectWithRetry, mounted' = mounted, rendered' = rendered,
         timers' \in Nat
  PROVE  Shape' /\ NeverStranded'
<1>1. /\ attempt \in 0..MaxAttempts /\ attempt < MaxAttempts /\ MaxAttempts \in Nat
      /\ attempt' = attempt + 1 /\ websocket' = attempt + 1 /\ status' = "waiting"
      /\ sock' = [sock EXCEPT ![attempt + 1] = "connecting"]
  BY ChatClientAssumption DEF IInv, Shape, ConnectWithRetry
<1>2. attempt + 1 \in Sockets /\ sock \in [Sockets -> States]
  BY <1>1 DEF Sockets, IInv, Shape
<1>3. sock' \in [Sockets -> States] /\ sock'[attempt'] = "connecting"
  BY <1>1, <1>2 DEF States
<1>4. \A i \in Sockets : sock'[i] = "none" <=> i > attempt'
  BY <1>1, <1>2 DEF Sockets, IInv, Shape
<1>5. Shape'
  BY <1>1, <1>3, <1>4 DEF IInv, Shape, Sockets
<1> QED
  BY <1>3, <1>5 DEF NeverStranded

(* Where no socket is made, one that is there stays there.                 *)
LEMMA ShapeKept ==
  ASSUME Shape, UNCHANGED <<attempt, websocket>>,
         mounted' \in BOOLEAN, timers' \in Nat, rendered' \in 0..attempt,
         status' = status \/ (status' \in {"waiting", "connected"} /\ status # "idle"),
         sock' \in [Sockets -> States],
         \A i \in Sockets : sock'[i] = "none" <=> sock[i] = "none"
  PROVE  Shape'
  BY DEF Shape

(* The events of a socket.                                                 *)
LEMMA HeardHolds ==
  ASSUME IInv, NEW i \in Sockets, sock[i] # "none", NEW n \in Nat \ {0}, NEW s \in States,
         s # "none", Heard(i, n), sock' = [sock EXCEPT ![i] = s],
         UNCHANGED <<mounted, attempt, websocket, rendered>>
  PROVE  Shape' /\ NeverStranded'
<1>1. /\ sock \in [Sockets -> States] /\ timers \in Nat /\ i <= attempt /\ 0 < attempt
      /\ attempt \in 0..MaxAttempts /\ i \in 1..MaxAttempts /\ MaxAttempts \in Nat
  BY ChatClientAssumption DEF IInv, Shape, Sockets
<1>2. /\ sock' \in [Sockets -> States] /\ sock'[i] = s
      /\ \A j \in Sockets : j # i => sock'[j] = sock[j]
  BY <1>1
<1>3. timers' \in Nat /\ timers' >= timers /\ status # "idle"
      /\ (status' = status \/ status' = "waiting")
  BY <1>1 DEF Heard, Failures, IInv, Shape
<1>4. Shape'
  BY <1>1, <1>2, <1>3, ShapeKept DEF IInv, Shape
<1>5. CASE i = attempt /\ mounted
  BY <1>1, <1>4, <1>5 DEF Heard, Failures, NeverStranded
<1>6. CASE i # attempt
  <2>1. attempt \in Sockets
    BY <1>1, <1>6 DEF Sockets
  <2>2. sock'[attempt'] = sock[attempt] /\ mounted' = mounted
    BY <1>2, <1>6, <2>1
  <2>3. timers' = timers /\ status' = status
    BY <1>6 DEF Heard
  <2> QED
    BY <1>4, <2>2, <2>3 DEF IInv, NeverStranded
<1>7. CASE ~mounted
  BY <1>4, <1>7 DEF NeverStranded
<1> QED
  BY <1>4, <1>5, <1>6, <1>7

LEMMA ClosedByKeeps ==
  ASSUME NEW s \in States
  PROVE  ClosedBy(s) \in States /\ (ClosedBy(s) = "none" <=> s = "none")
  BY DEF ClosedBy, States

(* A step that leaves the latest socket, the timers and the status alone.  *)
LEMMA QuietHolds ==
  ASSUME IInv, UNCHANGED <<attempt, websocket, timers, status>>,
         mounted' \in BOOLEAN, mounted' => mounted, rendered' \in 0..attempt,
         sock' \in [Sockets -> States],
         \A i \in Sockets : sock'[i] = "none" <=> sock[i] = "none",
         attempt \in Sockets /\ mounted' /\ sock'[attempt] = "closed" => sock[attempt] = "closed"
  PROVE  Shape' /\ NeverStranded'
<1>1. Shape'
  BY ShapeKept DEF IInv, Shape
<1>2. attempt # 0 => attempt \in Sockets
  BY ChatClientAssumption DEF IInv, Shape, Sockets
<1> QED
  BY <1>1, <1>2 DEF IInv, Shape, NeverStranded

LEMMA SocketsHold ==
  ASSUME IInv, NEW i \in Sockets,
         SocketFails(i) \/ SocketReconnects(i) \/ ConnectionTimeout(i) \/ SocketClosed(i)
           \/ SocketOpens(i)
  PROVE  Shape' /\ NeverStranded'
<1> USE DEF States
<1>1. sock \in [Sockets -> States]
  BY DEF IInv, Shape
<1>2. CASE SocketFails(i)
  <2>1. PICK n \in {1, 2} : Heard(i, n)
    BY <1>2 DEF SocketFails
  <2>2. n \in Nat \ {0} /\ "down" \in States /\ sock[i] # "none"
    BY <1>2 DEF SocketFails
  <2> QED
    BY <1>2, <2>1, <2>2, HeardHolds DEF SocketFails
<1>3. CASE SocketReconnects(i)
  BY <1>1, <1>3, QuietHolds DEF SocketReconnects, IInv, Shape
<1>4. CASE ConnectionTimeout(i)
  <2>1. sock' = [sock EXCEPT ![i] = "closing"] /\ sock[i] = "connecting" /\ i = attempt
        /\ timers' = timers + 1 /\ status' = "waiting"
        /\ UNCHANGED <<mounted, attempt, websocket, rendered>>
    BY <1>4 DEF ConnectionTimeout, Failures
  <2>2. status # "idle" /\ timers \in Nat
    BY <2>1, ChatClientAssumption DEF IInv, Shape, Sockets
  <2>3. Shape'
    BY <1>1, <2>1, <2>2, ShapeKept DEF IInv, Shape
  <2> QED
    BY <2>1, <2>2, <2>3 DEF NeverStranded
<1>5. CASE SocketClosed(i)
  <2>1. 1 \in Nat \ {0} /\ "closed" \in States /\ sock[i] # "none"
    BY <1>5 DEF SocketClosed
  <2> QED
    BY <1>5, <2>1, HeardHolds DEF SocketClosed
<1>6. CASE SocketOpens(i)
  <2>1. /\ sock[i] = "connecting" /\ UNCHANGED <<mounted, attempt, websocket, rendered>>
        /\ \/ sock' = [sock EXCEPT ![i] = "closing"] /\ UNCHANGED <<status, timers>>
           \/ sock' = [sock EXCEPT ![i] = "open"] /\ UNCHANGED <<status, timers>>
           \/ /\ sock' = [sock EXCEPT ![i] = "open"] /\ i = attempt
              /\ status' = "connected" /\ timers' = 0
    BY <1>6 DEF SocketOpens
  <2>2. CASE UNCHANGED <<status, timers>>
    <3>1. /\ sock' \in [Sockets -> States] /\ sock'[i] \in {"open", "closing"}
          /\ \A j \in Sockets : j # i => sock'[j] = sock[j]
      BY <1>1, <2>1
    <3> QED
      BY <2>1, <2>2, <3>1, QuietHolds DEF IInv, Shape
  <2>3. CASE /\ sock' = [sock EXCEPT ![i] = "open"] /\ i = attempt
             /\ status' = "connected" /\ timers' = 0
    <3>1. /\ sock' \in [Sockets -> States] /\ sock'[i] = "open"
          /\ \A j \in Sockets : j # i => sock'[j] = sock[j]
      BY <1>1, <2>3
    <3>2. status # "idle"
      BY <2>3, ChatClientAssumption DEF IInv, Shape, Sockets
    <3>3. Shape'
      BY <2>1, <2>3, <3>1, <3>2, ShapeKept DEF IInv, Shape
    <3> QED
      BY <2>1, <2>3, <3>1, <3>3 DEF NeverStranded
  <2> QED
    BY <2>1, <2>2, <2>3
<1> QED
  BY <1>2, <1>3, <1>4, <1>5, <1>6

LEMMA PageHolds ==
  ASSUME IInv,
         Connect \/ RetryTimer \/ Online \/ Heartbeat \/ Render \/ Unmount
           \/ (\E i \in Sockets : PageReceives(i))
           \/ (\E request \in {"stop_generation", "resume_generation", "user_suggestion"} : Click(request))
  PROVE  Shape' /\ NeverStranded'
<1>1. sock \in [Sockets -> States] /\ timers \in Nat /\ mounted \in BOOLEAN
      /\ attempt \in 0..MaxAttempts /\ rendered \in 0..attempt /\ websocket = attempt
      /\ MaxAttempts \in Nat
  BY ChatClientAssumption DEF IInv, Shape
<1>2. rendered # 0 => rendered \in Sockets
  BY <1>1 DEF Sockets
<1>3. CASE Connect \/ RetryTimer \/ Online
  <2>1. timers' \in Nat
    BY <1>1, <1>3 DEF Connect, RetryTimer, Online
  <2> QED
    BY <1>3, <2>1, ConnectHolds DEF Connect, RetryTimer, Online
<1>4. CASE Heartbeat
  <2>1. /\ sock' = [sock EXCEPT ![rendered] = "closing"] /\ sock[rendered] = "open"
        /\ rendered \in Sockets /\ UNCHANGED <<mounted, status, attempt, websocket, rendered, timers>>
    BY <1>2, <1>4 DEF Heartbeat
  <2>2. /\ sock' \in [Sockets -> States] /\ sock'[rendered] = "closing"
        /\ \A j \in Sockets : j # rendered => sock'[j] = sock[j]
    BY <1>1, <2>1 DEF States
  <2> QED
    BY <1>1, <2>1, <2>2, QuietHolds
<1>5. ASSUME rendered # 0, sock' = [sock EXCEPT ![rendered] = ClosedBy(@)]
      PROVE  /\ sock' \in [Sockets -> States]
             /\ \A j \in Sockets : sock'[j] = "none" <=> sock[j] = "none"
             /\ \A j \in Sockets : j # rendered => sock'[j] = sock[j]
  BY <1>1, <1>2, <1>5, ClosedByKeeps
<1>6. CASE Render
  <2>1. UNCHANGED <<mounted, status, attempt, websocket, timers>> /\ rendered' = websocket
        /\ rendered # attempt
        /\ (sock' = sock \/ (rendered # 0 /\ sock' = [sock EXCEPT ![rendered] = ClosedBy(@)]))
    BY <1>1, <1>6 DEF Render
  <2>2. /\ sock' \in [Sockets -> States]
        /\ \A j \in Sockets : sock'[j] = "none" <=> sock[j] = "none"
        /\ \A j \in Sockets : j # rendered => sock'[j] = sock[j]
    BY <1>1, <1>5, <2>1
  <2>3. rendered' \in 0..attempt
    BY <1>1, <2>1
  <2> QED
    BY <1>1, <2>1, <2>2, <2>3, QuietHolds
<1>7. CASE Unmount
  <2>1. UNCHANGED <<status, attempt, websocket, rendered>> /\ timers' = 0 /\ mounted' = FALSE
        /\ (sock' = sock \/ (rendered # 0 /\ sock' = [sock EXCEPT ![rendered] = ClosedBy(@)]))
    BY <1>7 DEF Unmount
  <2>2. /\ sock' \in [Sockets -> States]
        /\ \A j \in Sockets : sock'[j] = "none" <=> sock[j] = "none"
    BY <1>1, <1>5, <2>1
  <2>3. Shape'
    BY <1>1, <2>1, <2>2, ShapeKept DEF IInv
  <2> QED
    BY <2>1, <2>3 DEF NeverStranded
<1>8. CASE UNCHANGED page
  BY <1>8 DEF page, IInv, Shape, NeverStranded
<1> QED
  BY <1>3, <1>4, <1>6, <1>7, <1>8 DEF PageReceives, Click

-----------------------------------------------------------------------------
(* The agent.                                                              *)

LEMMA AgentHolds ==
  ASSUME IInv,
         QueueUserRequest \/ TurnEnds \/ GenerationEnds \/ Evict
           \/ (\E i \in Sockets : \/ GenerateAll(i) \/ StopGeneration(i) \/ ResumeGeneration(i)
                                 \/ UserSuggestion(i))
  PROVE  Shape' /\ NeverStranded'
<1>1. CASE Evict
  <2>1. PICK lost : /\ lost = {i \in Sockets : sock[i] = "open"}
                    /\ sock' = [i \in Sockets |-> IF i \in lost THEN "down" ELSE sock[i]]
                    /\ IF attempt \in lost THEN Heard(attempt, 1) ELSE UNCHANGED <<timers, status>>
                    /\ UNCHANGED <<mounted, attempt, websocket, rendered>>
    BY <1>1 DEF Evict
  <2>2. /\ sock' \in [Sockets -> States]
        /\ \A j \in Sockets : sock'[j] = "none" <=> sock[j] = "none"
        /\ \A j \in Sockets : sock'[j] = "closed" => sock[j] = "closed"
    BY <2>1 DEF IInv, Shape, States
  <2>3. timers \in Nat /\ mounted \in BOOLEAN /\ rendered \in 0..attempt
    BY DEF IInv, Shape
  <2>4. CASE attempt \in lost
    <3>1. status # "idle" /\ attempt \in Sockets /\ sock'[attempt] = "down"
      BY <2>1, <2>4, ChatClientAssumption DEF IInv, Shape, Sockets
    <3>2. timers' \in Nat /\ (status' = status \/ status' = "waiting")
      BY <2>1, <2>3, <2>4 DEF Heard, Failures
    <3>3. Shape'
      BY <2>1, <2>2, <2>3, <3>1, <3>2, ShapeKept DEF IInv
    <3> QED
      BY <2>1, <3>1, <3>3 DEF NeverStranded
  <2>5. CASE attempt \notin lost
    BY <2>1, <2>2, <2>3, <2>5, QuietHolds
  <2> QED
    BY <2>4, <2>5
<1>2. CASE UNCHANGED page
  BY <1>2 DEF page, IInv, Shape, NeverStranded
<1> QED
  BY <1>1, <1>2 DEF QueueUserRequest, TurnEnds, GenerationEnds, GenerateAll, StopGeneration,
                    ResumeGeneration, UserSuggestion, Taken

(* Whoever starts a run sets the flag, but for a turn; only the end of a   *)
(* run and a stop clear it.                                                *)
LEMMA IntentHolds ==
  ASSUME IInv, Next
  PROVE  RunsAreIntended'
<1>1. CASE UNCHANGED <<run, intent, stopped>>
  BY <1>1 DEF IInv, RunsAreIntended
<1>2. ASSUME NEW i \in Sockets, GenerateAll(i) PROVE RunsAreIntended'
  <2>1. CASE run = "none" /\ Complete
    BY <1>2, <2>1 DEF GenerateAll, Starts, RunsAreIntended
  <2>2. CASE ~(run = "none" /\ Complete)
    BY <1>2, <2>2 DEF GenerateAll, SetIntent, Last, RunsAreIntended
  <2> QED
    BY <2>1, <2>2
<1>3. ASSUME NEW i \in Sockets, ResumeGeneration(i) PROVE RunsAreIntended'
  BY <1>3 DEF ResumeGeneration, SetIntent, Last, RunsAreIntended
<1>4. ASSUME NEW i \in Sockets, StopGeneration(i) PROVE RunsAreIntended'
  BY <1>4 DEF StopGeneration, RunsAreIntended
<1>5. CASE GenerationEnds \/ Evict
  BY <1>5 DEF GenerationEnds, Evict, RunsAreIntended
<1>6. CASE TurnEnds
  BY <1>6 DEF TurnEnds, Starts, IInv, RunsAreIntended
<1>7. CASE QueueUserRequest
  BY <1>1, <1>7 DEF QueueUserRequest, SetIntent, Last
<1>8. ASSUME NEW i \in Sockets, UserSuggestion(i) PROVE RunsAreIntended'
  BY <1>1, <1>8 DEF UserSuggestion
<1> QED
  BY <1>1, <1>2, <1>3, <1>4, <1>5, <1>6, <1>7, <1>8
  DEF Next, Connect, RetryTimer, Render, Settles, Delivers, Online, Heartbeat, Unmount, Click,
      SocketReconnects, SocketClosed, SocketOpens, SocketFails, ConnectionTimeout, PageReceives,
      agent

LEMMA StepHolds == IInv /\ [Next]_vars => IInv'
<1> SUFFICES ASSUME IInv, [Next]_vars PROVE IInv'
  OBVIOUS
<1>1. CASE Next
  <2>1. Shape' /\ NeverStranded'
    <3>1. CASE \/ QueueUserRequest \/ TurnEnds \/ GenerationEnds \/ Evict
               \/ \E i \in Sockets : \/ GenerateAll(i) \/ StopGeneration(i) \/ ResumeGeneration(i)
                                   \/ UserSuggestion(i)
      BY <3>1, AgentHolds
    <3> QED BY <1>1, <3>1, SocketsHold, PageHolds DEF Next, Settles, Delivers
  <2> QED
    BY <1>1, <2>1, IntentHolds DEF IInv
<1>2. CASE UNCHANGED vars
  BY <1>2 DEF vars, page, agent, IInv, Shape, NeverStranded, RunsAreIntended
<1> QED
  BY <1>1, <1>2

LEMMA Inductive == Spec => []IInv
  BY InitHolds, StepHolds, PTL DEF Spec

(* A page that is there has a socket that lives or will be heard to close, *)
(* or a retry is due, however events of old and new sockets interleave.    *)
THEOREM PageNeverStranded == Spec => []NeverStranded
<1>1. IInv => NeverStranded
  BY DEF IInv
<1> QED
  BY <1>1, Inductive, PTL

(* A run that no turn started has its flag set unless the user stopped it, *)
(* so that an eviction at any moment leaves the wish to go on.             *)
THEOREM RunIntended == Spec => []RunsAreIntended
<1>1. IInv => RunsAreIntended
  BY DEF IInv
<1> QED
  BY <1>1, Inductive, PTL

-----------------------------------------------------------------------------
(* Inference.                                                              *)

(* The requests that so many responses may need.                           *)
Budget(responses) == responses * (MaxRetries + 1)

LEMMA BudgetGrows ==
  ASSUME inference!InferenceAssumption
  PROVE  /\ MaxDepth \in Nat /\ MaxRetries \in Nat
         /\ \A d \in Nat : Budget(d) \in Nat /\ Budget(d + 1) = Budget(d) + MaxRetries + 1
         /\ \A d, e \in Nat : d <= e => Budget(d) <= Budget(e)
<1>1. MaxDepth \in Nat /\ MaxRetries \in Nat
  BY DEF inference!InferenceAssumption
<1>2. PICK k \in Nat : k = MaxRetries + 1
  BY <1>1
<1>3. \A d \in Nat : d * k \in Nat /\ (d + 1) * k = d * k + k
  BY <1>2
<1>4. ASSUME NEW d \in Nat, NEW e \in Nat, d <= e PROVE d * k <= e * k
  <2>1. PICK n \in Nat : e = d + n
    BY <1>4
  <2>2. e * k = d * k + n * k /\ n * k \in Nat /\ d * k \in Nat
    BY <2>1
  <2> QED BY <2>2
<1> QED BY <1>1, <1>2, <1>3, <1>4 DEF Budget

(* Every response a model was asked for used up a level of depth, but for  *)
(* the one that is being handled; the fallback model starts from nothing.  *)
DepthPaid ==
  /\ depth \in Nat /\ requests \in [inference!Models -> Nat] /\ model \in inference!Models
  /\ tries \in 0..MaxRetries + 1 /\ (pc # "create" => tries = 0)
  /\ model = "primary" => requests["fallback"] = 0
  /\ requests["primary"] <= Budget(MaxDepth)
  /\ pc = "enter" => requests[model] <= Budget(depth)
  /\ pc \in {"settings", "create"} => requests[model] <= Budget(depth) + tries /\ depth < MaxDepth
  /\ pc \in {"stream", "tools"} => requests[model] <= Budget(depth + 1) /\ depth < MaxDepth
  /\ requests[model] <= Budget(MaxDepth)

(* Tools start late only from a stream that was open when the abort came,  *)
(* and no stream opens after it.                                           *)
LateOnce ==
  /\ lateRounds \in {0, 1}
  /\ ~aborted \/ pc = "stream" => lateRounds = 0

(* What was shown is a beginning of the text, and all of it in the end.    *)
Count(n) == [i \in 1..n |-> i]

ShownInOrder ==
  /\ content \in Nat
  /\ pc = "stream" => "finished" \in DOMAIN provider /\ ~provider.finished
  /\ \E n \in 0..content :
       /\ shown = Count(n)
       /\ args.stream /\ provider.finished => n = content

InferenceInv == DepthPaid /\ LateOnce /\ ShownInOrder

LEMMA InferenceInit ==
  ASSUME inference!InferenceAssumption, inference!Init
  PROVE  InferenceInv
<1>1. /\ MaxRetries \in Nat /\ Budget(MaxDepth) \in Nat /\ Budget(0) \in Nat
      /\ "primary" \in inference!Models /\ "fallback" \in inference!Models
  BY BudgetGrows DEF inference!Models
<1>2. DepthPaid
  BY <1>1 DEF inference!Init, DepthPaid
<1>3. LateOnce
  BY DEF inference!Init, LateOnce
<1>4. shown = Count(0) /\ content = 0 /\ pc = "enter"
  BY DEF inference!Init, Count
<1>5. ShownInOrder
  <2>1. ~provider.finished
    BY DEF inference!Init, inference!NoResponse
  <2> QED
    BY <1>4, <2>1 DEF ShownInOrder
<1> QED
  BY <1>2, <1>3, <1>5 DEF InferenceInv

(* The two ways an invocation leaves the response it is handling.          *)
LEMMA AllPaid ==
  ASSUME inference!InferenceAssumption, DepthPaid
  PROVE  \A m \in inference!Models : requests[m] <= Budget(MaxDepth)
<1>1. Budget(MaxDepth) \in Nat /\ requests["primary"] <= Budget(MaxDepth)
      /\ (model = "primary" => requests["fallback"] = 0)
      /\ (model = "fallback" => requests["fallback"] <= Budget(MaxDepth))
  BY BudgetGrows DEF DepthPaid
<1>2. model = "primary" \/ model = "fallback"
  BY DEF DepthPaid, inference!Models
<1> QED
  BY <1>1, <1>2 DEF inference!Models

LEMMA ThrowsPays ==
  ASSUME inference!InferenceAssumption, DepthPaid, NEW error, inference!Throws(error),
         UNCHANGED requests, tries' = 0
  PROVE  DepthPaid'
<1>1. /\ MaxRetries \in Nat /\ Budget(0) \in Nat /\ Budget(MaxDepth) \in Nat
      /\ "primary" \in inference!Models /\ "fallback" \in inference!Models
      /\ (model = "primary" \/ model = "fallback")
  BY BudgetGrows DEF inference!Models, DepthPaid
<1>2. CASE model = "primary"
  BY <1>1, <1>2 DEF inference!Throws, DepthPaid
<1>3. CASE model = "fallback"
  BY <1>1, <1>3 DEF inference!Throws, DepthPaid
<1> QED
  BY <1>1, <1>2, <1>3

LEMMA ReturnsPays ==
  ASSUME inference!InferenceAssumption, DepthPaid, NEW what, inference!Returns(what),
         UNCHANGED requests, tries' = 0
  PROVE  DepthPaid'
<1>1. MaxRetries \in Nat
  BY BudgetGrows
<1> QED
  BY <1>1 DEF inference!Returns, DepthPaid

(* A request that is sent is one of those the response may need.           *)
LEMMA RequestedPays ==
  ASSUME inference!InferenceAssumption, DepthPaid, inference!Requested
  PROVE  DepthPaid'
<1>1. /\ MaxDepth \in Nat /\ MaxRetries \in Nat /\ depth \in Nat /\ depth < MaxDepth
      /\ model \in inference!Models /\ requests \in [inference!Models -> Nat]
      /\ tries \in 0..MaxRetries + 1 /\ tries <= MaxRetries
      /\ requests[model] <= Budget(depth) + tries
  BY BudgetGrows DEF inference!Requested, DepthPaid
<1>2. /\ Budget(depth) \in Nat /\ Budget(MaxDepth) \in Nat
      /\ Budget(depth) + MaxRetries + 1 <= Budget(MaxDepth)
  <2>1. depth + 1 \in Nat /\ depth + 1 <= MaxDepth
    BY <1>1
  <2> QED BY <1>1, <2>1, BudgetGrows
<1>3. /\ requests' \in [inference!Models -> Nat]
      /\ requests'[model] = requests[model] + 1
      /\ \A m \in inference!Models : m # model => requests'[m] = requests[m]
      /\ UNCHANGED <<pc, model, depth>> /\ tries' = tries + 1 /\ pc = "create"
  BY <1>1 DEF inference!Requested
<1>4. /\ "primary" \in inference!Models /\ "fallback" \in inference!Models
      /\ (model = "primary" \/ model = "fallback")
  BY <1>1 DEF inference!Models
<1>5. /\ requests'[model] <= Budget(depth) + tries'
      /\ requests'[model] <= Budget(MaxDepth)
      /\ tries' \in 0..MaxRetries + 1
  BY <1>1, <1>2, <1>3
<1>6. requests'["primary"] <= Budget(MaxDepth) /\ (model = "primary" => requests'["fallback"] = 0)
  BY <1>3, <1>4, <1>5 DEF DepthPaid
<1> QED
  BY <1>1, <1>3, <1>5, <1>6 DEF DepthPaid

(* The requests of a response that comes are within its share.             *)
LEMMA AnsweredPaid ==
  ASSUME inference!InferenceAssumption, DepthPaid, inference!Answered
  PROVE  requests[model] <= Budget(depth + 1) /\ depth < MaxDepth /\ tries' = 0
<1>1. /\ MaxRetries \in Nat /\ depth \in Nat /\ requests[model] \in Nat
      /\ tries \in 0..MaxRetries + 1
      /\ requests[model] <= Budget(depth) + tries /\ depth < MaxDepth
  BY BudgetGrows DEF inference!Answered, DepthPaid
<1>2. Budget(depth) \in Nat /\ Budget(depth + 1) = Budget(depth) + MaxRetries + 1
  BY <1>1, BudgetGrows
<1> QED
  BY <1>1, <1>2 DEF inference!Answered

LEMMA DepthPaidHolds ==
  ASSUME inference!InferenceAssumption, DepthPaid, inference!Next
  PROVE  DepthPaid'
<1>0. MaxRetries \in Nat /\ (pc # "create" => tries = 0)
  BY BudgetGrows DEF DepthPaid
<1>1. CASE inference!Enter
  <2>1. CASE pc' = "settings" /\ UNCHANGED <<model, depth, result>> /\ ~(depth >= MaxDepth)
    <3>1. pc = "enter" /\ UNCHANGED <<tries, requests>> /\ tries = 0
      BY <1>0, <1>1 DEF inference!Enter
    <3>2. Budget(depth) \in Nat /\ depth \in Nat /\ MaxDepth \in Nat
      BY BudgetGrows DEF DepthPaid
    <3> QED BY <2>1, <3>1, <3>2 DEF DepthPaid
  <2>2. CASE \E error \in inference!Errors : inference!Throws(error)
    BY <1>0, <1>1, <2>2, ThrowsPays DEF inference!Enter
  <2>3. CASE inference!Returns("string")
    BY <1>0, <1>1, <2>3, ReturnsPays DEF inference!Enter
  <2> QED
    BY <1>1, <2>1, <2>2, <2>3 DEF inference!Enter, inference!Errors
<1>2. CASE inference!Configured
  <2>1. CASE pc' = "create" /\ UNCHANGED <<model, depth, result>>
    BY <1>2, <2>1 DEF inference!Configured, DepthPaid
  <2>2. CASE \E error \in inference!Errors : inference!Throws(error)
    BY <1>0, <1>2, <2>2, ThrowsPays DEF inference!Configured
  <2> QED
    BY <1>2, <2>1, <2>2 DEF inference!Configured, inference!Errors
<1>3. CASE inference!CreateFails
  <2>1. \E error \in inference!Errors : inference!Throws(error)
    BY <1>3 DEF inference!CreateFails, inference!Errors
  <2> QED
    BY <1>3, <2>1, ThrowsPays DEF inference!CreateFails
<1>4. CASE inference!Created
  <2>1. /\ requests[model] <= Budget(depth + 1) /\ depth < MaxDepth /\ tries' = 0
        /\ pc' = "stream" /\ UNCHANGED <<model, depth, requests>>
    BY <1>4, AnsweredPaid DEF inference!Created
  <2> QED
    BY <1>0, <2>1 DEF DepthPaid
<1>5. ASSUME NEW calls, inference!Received(calls), UNCHANGED requests, tries' = 0,
             requests[model] <= Budget(depth + 1), depth < MaxDepth
      PROVE  DepthPaid'
  <2>1. CASE pc' = "tools" /\ UNCHANGED <<model, depth, result>>
    BY <1>0, <1>5, <2>1 DEF DepthPaid
  <2>2. CASE \E error \in inference!Errors : inference!Throws(error)
    BY <1>5, <2>2, ThrowsPays
  <2>3. CASE \E what \in inference!Results : inference!Returns(what)
    BY <1>5, <2>3, ReturnsPays
  <2> QED
    BY <1>5, <2>1, <2>2, <2>3 DEF inference!Received, inference!Errors, inference!Results
<1>6. CASE inference!CreatedWhole
  <2>1. /\ requests[model] <= Budget(depth + 1) /\ depth < MaxDepth /\ tries' = 0
        /\ UNCHANGED requests
    BY <1>6, AnsweredPaid DEF inference!CreatedWhole
  <2>2. CASE inference!Returns("string")
    BY <2>1, <2>2, ReturnsPays
  <2>3. CASE inference!Received(acc')
    BY <1>5, <2>1, <2>3
  <2> QED
    BY <1>6, <2>2, <2>3 DEF inference!CreatedWhole
<1>7. CASE inference!StreamToolCall \/ inference!StreamText \/ inference!Abort
  BY <1>7 DEF inference!StreamToolCall, inference!StreamText, inference!Abort, DepthPaid
<1>8. CASE inference!StreamFinishes
  BY <1>0, <1>5, <1>8 DEF inference!StreamFinishes, DepthPaid
<1>9. CASE inference!StreamBreaks
  <2>1. CASE inference!Throws("Error")
    BY <1>0, <1>9, <2>1, ThrowsPays DEF inference!StreamBreaks
  <2>2. CASE inference!Received(acc)
    BY <1>0, <1>5, <1>9, <2>2 DEF inference!StreamBreaks, DepthPaid
  <2> QED
    BY <1>9, <2>1, <2>2 DEF inference!StreamBreaks
<1>10. CASE inference!ToolsDone
  <2>1. CASE pc' = "enter" /\ depth' = depth + 1 /\ UNCHANGED <<model, result>>
    BY <1>0, <1>10, <2>1 DEF inference!ToolsDone, DepthPaid
  <2>2. CASE inference!Returns("string")
    BY <1>0, <1>10, <2>2, ReturnsPays DEF inference!ToolsDone
  <2> QED
    BY <1>10, <2>1, <2>2 DEF inference!ToolsDone
<1> QED
  BY <1>1, <1>2, <1>3, <1>4, <1>6, <1>7, <1>8, <1>9, <1>10, RequestedPays DEF inference!Next

LEMMA LateOnceHolds == LateOnce /\ inference!Next => LateOnce'
<1> SUFFICES ASSUME LateOnce, inference!Next PROVE LateOnce'
  OBVIOUS
<1>1. CASE \/ inference!Enter \/ inference!Configured \/ inference!Requested
           \/ inference!CreateFails \/ inference!ToolsDone
  BY <1>1 DEF inference!Enter, inference!Configured, inference!Requested, inference!CreateFails, inference!ToolsDone, inference!Throws, inference!Returns, LateOnce
<1>2. CASE inference!Created \/ inference!StreamToolCall \/ inference!StreamText \/ inference!Abort
  BY <1>2 DEF inference!Created, inference!Answered, inference!StreamToolCall, inference!StreamText, inference!Abort, LateOnce
<1>3. ASSUME NEW calls, inference!Received(calls), aborted' = aborted, ~aborted \/ pc = "stream"
      PROVE  LateOnce'
  BY <1>3 DEF inference!Received, inference!Throws, inference!Returns, LateOnce
<1>4. CASE inference!StreamFinishes \/ inference!StreamBreaks \/ inference!CreatedWhole
  BY <1>3, <1>4 DEF inference!StreamFinishes, inference!StreamBreaks, inference!CreatedWhole, inference!Answered, inference!Throws, inference!Returns, LateOnce
<1> QED
  BY <1>1, <1>2, <1>4 DEF inference!Next

(* An event shows nothing, or what is missing up to the end of the text.   *)
LEMMA EventShows ==
  ASSUME ShownInOrder, NEW total \in Nat, total >= content,
         NEW finished \in BOOLEAN, inference!OnEvent(total, finished)
  PROVE  /\ content' = total
         /\ \E n \in 0..total : shown' = Count(n) /\ (finished => n = total)
<1>1. PICK n \in 0..content : shown = Count(n)
  BY DEF ShownInOrder
<1>2. content \in Nat /\ n \in Nat /\ n <= total
  BY DEF ShownInOrder
<1>3. Len(shown) = n /\ shown \in Seq(Nat)
  BY <1>1, <1>2 DEF Count
<1> DEFINE missing == [i \in 1..total - n |-> n + i]
<1>4. missing \in Seq(Nat) /\ Len(missing) = total - n
  BY <1>2
<1>5. shown \o missing = Count(total)
  <2>1. /\ shown \o missing \in Seq(Nat) /\ Len(shown \o missing) = total
        /\ \A i \in 1..total : (shown \o missing)[i] =
              IF i <= n THEN shown[i] ELSE missing[i - n]
    BY <1>2, <1>3, <1>4
  <2>2. \A i \in 1..total : (shown \o missing)[i] = i
    BY <1>1, <1>2, <2>1 DEF Count
  <2>3. Count(total) \in Seq(Nat) /\ Len(Count(total)) = total
    BY DEF Count
  <2> QED
    BY <2>1, <2>2, <2>3, SeqEqual DEF Count
<1>6. /\ content' = total
      /\ shown' = IF finished \/ total - n >= ChunkSize THEN shown \o missing ELSE shown
  BY <1>3 DEF inference!OnEvent
<1> HIDE DEF missing
<1> QED
  BY <1>1, <1>2, <1>5, <1>6

LEMMA ShownInOrderHolds ==
  ASSUME inference!InferenceAssumption, ShownInOrder, inference!Next
  PROVE  ShownInOrder'
<1>1. CASE UNCHANGED <<content, shown, provider, args>> /\ (pc' = "stream" => pc = "stream")
  BY <1>1 DEF ShownInOrder
<1>2. CASE \/ inference!Enter \/ inference!Configured \/ inference!Requested \/ inference!CreateFails
           \/ inference!StreamBreaks \/ inference!ToolsDone \/ inference!Abort
  BY <1>1, <1>2 DEF inference!Enter, inference!Configured, inference!Requested, inference!CreateFails, inference!StreamBreaks, inference!ToolsDone, inference!Abort, inference!response,
                    inference!Throws, inference!Returns, inference!Received
<1>3. CASE inference!Created
  <2>1. content' = 0 /\ shown' = Count(0)
    BY <1>3 DEF inference!Created, Count
  <2>2. "finished" \in DOMAIN provider' /\ ~provider'.finished
    BY <1>3 DEF inference!Created
  <2> QED
    BY <2>1, <2>2 DEF ShownInOrder
<1>4. CASE inference!CreatedWhole
  <2>1. content' \in Nat /\ shown' = Count(0) /\ ~args'.stream /\ pc' # "stream"
    BY <1>4 DEF inference!CreatedWhole, Count, inference!InferenceAssumption, inference!Received, inference!Throws, inference!Returns
  <2> QED
    BY <2>1 DEF ShownInOrder
<1>5. CASE inference!StreamToolCall
  <2>1. content' = content /\ shown' = shown /\ args' = args
    BY <1>5 DEF inference!StreamToolCall
  <2>2. pc = "stream" /\ \E call \in 1..provider.calls :
          provider' = [provider EXCEPT !.sent[call] = @ + 1]
    BY <1>5 DEF inference!StreamToolCall
  <2>3. "finished" \in DOMAIN provider' /\ provider'.finished = provider.finished
    BY <2>2 DEF ShownInOrder
  <2> QED
    BY <2>1, <2>2, <2>3 DEF ShownInOrder
<1>6. CASE inference!StreamText
  <2>1. content \in Nat /\ inference!OnEvent(content + 1, FALSE) /\ args' = args /\ provider' = provider
    BY <1>6 DEF inference!StreamText, ShownInOrder
  <2>2. pc = "stream" /\ "finished" \in DOMAIN provider /\ ~provider.finished
    BY <1>6 DEF inference!StreamText, ShownInOrder
  <2>3. /\ content' = content + 1
        /\ \E n \in 0..content + 1 : shown' = Count(n)
    <3>1. content + 1 \in Nat /\ content + 1 >= content /\ FALSE \in BOOLEAN
      BY <2>1
    <3> QED
      BY <2>1, <3>1, EventShows
  <2> QED
    BY <2>1, <2>2, <2>3 DEF ShownInOrder
<1>7. CASE inference!StreamFinishes
  <2>1. PICK total \in content..MaxContent : inference!OnEvent(total, TRUE)
    BY <1>7 DEF inference!StreamFinishes
  <2>2. total \in Nat /\ total >= content
    BY <2>1 DEF ShownInOrder, inference!InferenceAssumption
  <2>3. PICK n \in 0..total : shown' = Count(n) /\ n = total /\ content' = total
    BY <2>1, <2>2, EventShows
  <2>4. pc' # "stream"
    BY <1>7 DEF inference!StreamFinishes, inference!Received, inference!Throws, inference!Returns
  <2> QED
    BY <2>2, <2>3, <2>4 DEF ShownInOrder
<1> QED
  BY <1>2, <1>3, <1>4, <1>5, <1>6, <1>7 DEF inference!Next

LEMMA InferenceStep ==
  ASSUME inference!InferenceAssumption, InferenceInv, [inference!Next]_(inference!vars)
  PROVE  InferenceInv'
<1>1. CASE inference!Next
  BY <1>1, DepthPaidHolds, LateOnceHolds, ShownInOrderHolds DEF InferenceInv
<1>2. CASE UNCHANGED inference!vars
  BY <1>2 DEF inference!vars, InferenceInv, DepthPaid, LateOnce, ShownInOrder
<1> QED
  BY <1>1, <1>2

LEMMA InferenceInductive ==
  ASSUME inference!InferenceAssumption
  PROVE  inference!Spec => []InferenceInv
<1>1. inference!Init => InferenceInv
  BY InferenceInit
<1>2. InferenceInv /\ [inference!Next]_(inference!vars) => InferenceInv'
  BY InferenceStep
<1> QED
  BY <1>1, <1>2, PTL DEF inference!Spec

(* One invocation asks each model for at most MaxDepth responses, each     *)
(* with the retries of the client, and after an abort one round of tools   *)
(* is still run at most.                                                   *)
THEOREM FewRequests ==
  ASSUME inference!InferenceAssumption
  PROVE  inference!Spec => []RequestsBounded
<1>1. InferenceInv => RequestsBounded
  BY AllPaid DEF InferenceInv, LateOnce, RequestsBounded, Budget, Models, inference!Models
<1> QED
  BY <1>1, InferenceInductive, PTL

(* The text of a response that came to its end was shown as it is, for     *)
(* every length and every size of chunks.                                  *)
THEOREM TextShown ==
  ASSUME inference!InferenceAssumption
  PROVE  inference!Spec => []AnswerShown
<1>1. InferenceInv => AnswerShown
  BY DEF InferenceInv, ShownInOrder, AnswerShown, Count
<1> QED
  BY <1>1, InferenceInductive, PTL

-----------------------------------------------------------------------------
(* ToolCalls.                                                              *)

(* The deltas of a call so far make up a beginning of its arguments.       *)
Some(call, k) == [i \in 1..IF k < Pieces THEN k ELSE Pieces |-> <<call, i>>]

IdOf(style, call, e) == IF style = "index" THEN <<"tool", e>> ELSE <<"id", call>>

(* What an accumulator is when the entries are of the calls in of, and     *)
(* sent tells how many deltas of each came.                                *)
EntryOf(style, call, e, k) ==
  [id |-> IdOf(style, call, e), index |-> IF style = "id" THEN inference!None ELSE <<call - 1>>,
   name |-> <<call>>, args |-> Some(call, k)]

Accumulated(a, style, n, sent, of) ==
  /\ of \in Seq(1..n)
  /\ \A d, e \in 1..Len(of) : of[d] = of[e] => d = e
  /\ \A call \in 1..n : sent[call] > 0 <=> \E e \in 1..Len(of) : of[e] = call
  /\ style = "id" => \A e \in 1..Len(of) : of[e] = e
  /\ a.entries = [e \in 1..Len(of) |-> EntryOf(style, of[e], e, sent[of[e]])]
  /\ a.byIndex = IF style = "id" THEN {} ELSE {<<<<of[e] - 1>>, e>> : e \in 1..Len(of)}
  /\ a.byId = {<<IdOf(style, of[e], e), e>> : e \in 1..Len(of)}

(* Nothing came yet.                                                       *)
LEMMA NothingAccumulated ==
  ASSUME NEW style, NEW n \in Nat, NEW sent \in [1..n -> {0}]
  PROVE  Accumulated(inference!EmptyAccumulator, style, n, sent, << >>)
<1>1. << >> \in Seq(1..n) /\ Len(<< >>) = 0 /\ 1..0 = {}
  OBVIOUS
<1>2. \A call \in 1..n : sent[call] = 0
  OBVIOUS
<1>3. inference!EmptyAccumulator.entries = << >> /\ inference!EmptyAccumulator.byIndex = {} /\ inference!EmptyAccumulator.byId = {}
  BY DEF inference!EmptyAccumulator
<1>4. [e \in 1..0 |-> EntryOf(style, << >>[e], e, sent[<< >>[e]])] = << >>
  BY <1>1
<1> QED BY <1>1, <1>2, <1>3, <1>4 DEF Accumulated

(* A key that only one pair has finds its entry.                           *)
LEMMA FoundOne ==
  ASSUME NEW pairs, NEW key, NEW e, <<key, e>> \in pairs,
         \A p \in pairs : p[1] = key => p = <<key, e>>
  PROVE  inference!Found(pairs, key) = e
<1>1. \E p \in pairs : p[1] = key
  <2>1. <<key, e>>[1] = key
    OBVIOUS
  <2> QED BY <2>1
<1>2. (CHOOSE p \in pairs : p[1] = key) = <<key, e>>
  BY <1>1
<1>3. <<key, e>>[2] = e
  OBVIOUS
<1> QED BY <1>1, <1>2, <1>3 DEF inference!Found

LEMMA FoundNone ==
  ASSUME NEW pairs, NEW key, \A p \in pairs : p[1] # key
  PROVE  inference!Found(pairs, key) = 0
BY DEF inference!Found

(* The next piece goes to the end of the arguments; when they are complete *)
(* nothing is added.                                                       *)
LEMMA NextPiece ==
  ASSUME NEW call, NEW k \in Nat, k <= Pieces, Pieces \in Nat, Pieces > 0
  PROVE  inference!Arguments(Some(call, k), IF k + 1 > Pieces THEN inference!Whole(call) ELSE <<<<call, k + 1>>>>)
           = Some(call, k + 1)
<1>1. CASE k = Pieces
  <2>1. Some(call, k) = inference!Whole(call) /\ Some(call, k + 1) = inference!Whole(call)
    BY <1>1 DEF Some, inference!Whole
  <2>2. Len(inference!Whole(call)) = Pieces /\ inference!Whole(call)[1] = <<call, 1>>
    BY DEF inference!Whole
  <2>3. inference!Whole(call) # << >> /\ inference!Whole(call)[1][1] = call
    BY <2>2
  <2>4. inference!Complete(inference!Whole(call))
    BY <2>3 DEF inference!Complete
  <2> QED BY <2>1, <2>4 DEF inference!Arguments
<1>2. CASE k < Pieces
  <2>1. /\ Some(call, k) = [i \in 1..k |-> <<call, i>>]
        /\ Some(call, k + 1) = [i \in 1..k + 1 |-> <<call, i>>]
    <3>1. k + 1 = Pieces => (IF k + 1 < Pieces THEN k + 1 ELSE Pieces) = k + 1
      BY <1>2
    <3> QED BY <1>2, <3>1 DEF Some
  <2> DEFINE before == [i \in 1..k |-> <<call, i>>]
             after == [i \in 1..k + 1 |-> <<call, i>>]
             T == {<<call, i>> : i \in 1..k + 1}
  <2>2. before \in Seq(T) /\ Len(before) = k /\ after \in Seq(T) /\ Len(after) = k + 1
        /\ <<call, k + 1>> \in T
    <3>1. \A i \in 1..k + 1 : <<call, i>> \in T
      OBVIOUS
    <3>2. k + 1 \in 1..k + 1 /\ 1..k \subseteq 1..k + 1
      OBVIOUS
    <3> HIDE DEF T
    <3>3. before \in Seq(T) /\ after \in Seq(T)
      BY <3>1, <3>2
    <3> QED BY <3>1, <3>2, <3>3
  <2>3. ~inference!Complete(before)
    <3>1. ASSUME NEW c PROVE before # inference!Whole(c)
      <4>1. DOMAIN before = 1..k /\ DOMAIN inference!Whole(c) = 1..Pieces
        BY DEF inference!Whole
      <4>2. Pieces \in 1..Pieces /\ Pieces \notin 1..k
        BY <1>2
      <4> QED BY <4>1, <4>2
    <3> QED BY <3>1 DEF inference!Complete
  <2>4. before \o <<<<call, k + 1>>>> = after
    <3>1. before \o <<<<call, k + 1>>>> = Append(before, <<call, k + 1>>)
      BY <2>2, AppendIsConcat
    <3>2. Append(before, <<call, k + 1>>) \in Seq(T)
          /\ Len(Append(before, <<call, k + 1>>)) = k + 1
          /\ \A i \in 1..k + 1 : Append(before, <<call, k + 1>>)[i] = IF i <= k THEN before[i] ELSE <<call, k + 1>>
      BY <2>2
    <3>3. \A i \in 1..k + 1 : Append(before, <<call, k + 1>>)[i] = after[i]
      BY <3>2
    <3> QED BY <2>2, <3>1, <3>2, <3>3, SeqEqual
  <2>5. inference!Arguments(before, <<<<call, k + 1>>>>) = before \o <<<<call, k + 1>>>>
    BY <2>3 DEF inference!Arguments
  <2>6. Some(call, k) = before /\ Some(call, k + 1) = after /\ ~(k + 1 > Pieces)
    BY <1>2, <2>1
  <2> HIDE DEF before, after
  <2> QED BY <2>4, <2>5, <2>6
<1> QED BY <1>1, <1>2

(* The delta that comes after those in sent.                               *)
NextDelta(style, call, k) ==
  inference!Delta(IF style = "id" THEN inference!None ELSE <<call - 1>>,
        IF style = "index" \/ (style = "first" /\ k > 1) THEN inference!None ELSE <<"id", call>>,
        IF k = 1 THEN <<call>> ELSE inference!None,
        IF k > Pieces THEN inference!Whole(call) ELSE <<<<call, k>>>>)

(* Ids and indexes tell the entries apart.                                 *)
Keyed(a, style, n, of) ==
  /\ Len(of) \in Nat /\ \A e \in 1..Len(of) : of[e] \in 1..n
  /\ \A p \in a.byId : p[2] \in 1..Len(of) /\ p = <<IdOf(style, of[p[2]], p[2]), p[2]>>
  /\ \A p \in a.byIndex : style # "id" /\ p[2] \in 1..Len(of) /\ p = <<<<of[p[2]] - 1>>, p[2]>>
  /\ \A e \in 1..Len(of) : <<IdOf(style, of[e], e), e>> \in a.byId
  /\ style # "id" => \A e \in 1..Len(of) : <<<<of[e] - 1>>, e>> \in a.byIndex

LEMMA Keys ==
  ASSUME NEW n \in Nat, NEW style \in inference!Styles, NEW sent, NEW of, NEW a,
         Accumulated(a, style, n, sent, of)
  PROVE  Keyed(a, style, n, of)
<1>1. Len(of) \in Nat /\ \A e \in 1..Len(of) : of[e] \in 1..n
  BY DEF Accumulated
<1>2. ASSUME NEW p \in a.byId
      PROVE  p[2] \in 1..Len(of) /\ p = <<IdOf(style, of[p[2]], p[2]), p[2]>>
  <2>1. PICK e \in 1..Len(of) : p = <<IdOf(style, of[e], e), e>>
    BY <1>2 DEF Accumulated
  <2>2. p[2] = e
    BY <2>1
  <2> QED BY <2>1, <2>2
<1>3. ASSUME NEW p \in a.byIndex
      PROVE  style # "id" /\ p[2] \in 1..Len(of) /\ p = <<<<of[p[2]] - 1>>, p[2]>>
  <2>1. style # "id"
    BY <1>3 DEF Accumulated
  <2>2. PICK e \in 1..Len(of) : p = <<<<of[e] - 1>>, e>>
    BY <1>3, <2>1 DEF Accumulated
  <2>3. p[2] = e
    BY <2>2
  <2> QED BY <2>1, <2>2, <2>3
<1>4. ASSUME NEW e \in 1..Len(of) PROVE <<IdOf(style, of[e], e), e>> \in a.byId
  BY <1>4 DEF Accumulated
<1>5. ASSUME NEW e \in 1..Len(of), style # "id" PROVE <<<<of[e] - 1>>, e>> \in a.byIndex
  BY <1>5 DEF Accumulated
<1> QED BY <1>1, <1>2, <1>3, <1>4, <1>5 DEF Keyed

(* The entry of a call is found from its second delta on.                  *)
LEMMA LookupOld ==
  ASSUME NEW n \in Nat, NEW style \in inference!Styles, NEW sent, NEW of, NEW a,
         Accumulated(a, style, n, sent, of),
         NEW e \in 1..Len(of), NEW k \in Nat, k > 1
  PROVE  inference!Lookup(a, NextDelta(style, of[e], k)) = e
<1>0. Keyed(a, style, n, of)
  BY Keys
<1>1. of[e] \in 1..n /\ of[e] \in Nat /\ e \in Nat /\ e # 0
  BY <1>0 DEF Keyed
<1>2. \A d \in 1..Len(of) : of[d] = of[e] => d = e
  BY DEF Accumulated
<1> DEFINE delta == NextDelta(style, of[e], k)
<1>3. style # "id" => inference!Found(a.byIndex, <<of[e] - 1>>) = e
  <2>1. ASSUME NEW p \in a.byIndex, p[1] = <<of[e] - 1>> PROVE p = <<<<of[e] - 1>>, e>>
    <3>1. p[2] \in 1..Len(of) /\ p = <<<<of[p[2]] - 1>>, p[2]>>
      BY <1>0 DEF Keyed
    <3>2. of[p[2]] = of[e]
      <4>1. <<of[p[2]] - 1>> = <<of[e] - 1>>
        BY <2>1, <3>1
      <4>2. of[p[2]] - 1 = of[e] - 1 /\ of[p[2]] \in 1..n
        BY <1>0, <3>1, <4>1 DEF Keyed
      <4> QED BY <1>1, <4>2
    <3> QED BY <1>2, <3>1, <3>2
  <2>2. style # "id" => <<<<of[e] - 1>>, e>> \in a.byIndex
    BY <1>0 DEF Keyed
  <2> QED BY <2>1, <2>2, FoundOne
<1>4. style \in {"id", "both"} => inference!Found(a.byId, <<"id", of[e]>>) = e
  <2> SUFFICES ASSUME style \in {"id", "both"} PROVE inference!Found(a.byId, <<"id", of[e]>>) = e
    OBVIOUS
  <2>1. \A d \in 1..Len(of) : IdOf(style, of[d], d) = <<"id", of[d]>>
    BY DEF IdOf
  <2>2. ASSUME NEW p \in a.byId, p[1] = <<"id", of[e]>> PROVE p = <<<<"id", of[e]>>, e>>
    <3>1. p[2] \in 1..Len(of) /\ p = <<<<"id", of[p[2]]>>, p[2]>>
      BY <1>0, <2>1 DEF Keyed
    <3>2. <<"id", of[p[2]]>> = <<"id", of[e]>>
      BY <2>2, <3>1
    <3>3. of[p[2]] = of[e]
      BY <3>2
    <3> QED BY <1>2, <3>1, <3>3
  <2>3. <<<<"id", of[e]>>, e>> \in a.byId
    BY <1>0, <2>1 DEF Keyed
  <2> HIDE DEF IdOf
  <2> QED BY <2>2, <2>3, FoundOne
<1>5. /\ delta.index = (IF style = "id" THEN inference!None ELSE <<of[e] - 1>>)
      /\ delta.id = (IF style = "index" \/ style = "first" THEN inference!None ELSE <<"id", of[e]>>)
      /\ <<of[e] - 1>> # inference!None /\ <<"id", of[e]>> # inference!None
  <2>1. k \in Nat /\ k > 1
    OBVIOUS
  <2>2. of[e] \in Nat
    BY <1>1
  <2>3. /\ delta.index = (IF style = "id" THEN inference!None ELSE <<of[e] - 1>>)
        /\ delta.id = (IF style = "index" \/ (style = "first" /\ k > 1) THEN inference!None ELSE <<"id", of[e]>>)
        /\ <<of[e] - 1>> # inference!None /\ <<"id", of[e]>> # inference!None
    BY <2>1, <2>2 DEF NextDelta, inference!Delta, inference!None
  <2> HIDE DEF delta
  <2> QED BY <2>1, <2>3
<1> HIDE DEF delta
<1>6. inference!Lookup(a, delta) = e
  <2>1. style = "id" \/ style = "both" \/ style = "first" \/ style = "index"
    BY DEF inference!Styles
  <2>2. e # 0
    BY <1>1
  <2>3. CASE style = "id"
    BY <1>3, <1>4, <1>5, <2>2, <2>3 DEF inference!Lookup
  <2>4. CASE style = "both"
    BY <1>3, <1>4, <1>5, <2>2, <2>4 DEF inference!Lookup
  <2>5. CASE style \in {"first", "index"}
    BY <1>3, <1>5, <2>2, <2>5 DEF inference!Lookup
  <2> QED BY <2>1, <2>3, <2>4, <2>5
<1> QED BY <1>6 DEF delta

(* The first delta of a call finds nothing.                                *)
LEMMA LookupNew ==
  ASSUME NEW n \in Nat, NEW style \in inference!Styles, NEW sent, NEW of, NEW a,
         Accumulated(a, style, n, sent, of),
         NEW call \in 1..n, \A e \in 1..Len(of) : of[e] # call
  PROVE  inference!Lookup(a, NextDelta(style, call, 1)) = 0
<1> DEFINE delta == NextDelta(style, call, 1)
<1>0. Keyed(a, style, n, of)
  BY Keys
<1>1. style # "id" => inference!Found(a.byIndex, <<call - 1>>) = 0
  <2>1. ASSUME NEW p \in a.byIndex PROVE p[1] # <<call - 1>>
    <3>1. p[2] \in 1..Len(of) /\ p = <<<<of[p[2]] - 1>>, p[2]>> /\ of[p[2]] \in 1..n
      BY <1>0 DEF Keyed
    <3>2. of[p[2]] - 1 # call - 1
      BY <3>1
    <3>3. <<of[p[2]] - 1>> # <<call - 1>>
      BY <3>2
    <3> QED BY <3>1, <3>3
  <2> QED BY <2>1, FoundNone
<1>2. style # "index" => inference!Found(a.byId, <<"id", call>>) = 0
  <2>1. ASSUME NEW p \in a.byId, style # "index" PROVE p[1] # <<"id", call>>
    <3>1. p[2] \in 1..Len(of) /\ p = <<<<"id", of[p[2]]>>, p[2]>>
      BY <1>0, <2>1 DEF Keyed, IdOf
    <3>2. <<"id", of[p[2]]>> # <<"id", call>>
      BY <3>1
    <3> QED BY <3>1, <3>2
  <2> QED BY <2>1, FoundNone
<1>3. /\ delta.index = (IF style = "id" THEN inference!None ELSE <<call - 1>>)
      /\ delta.id = (IF style = "index" THEN inference!None ELSE <<"id", call>>)
  <2>1. call \in Nat /\ 1 \in Nat /\ ~(1 > 1)
    OBVIOUS
  <2>2. /\ delta.index = (IF style = "id" THEN inference!None ELSE <<call - 1>>)
        /\ delta.id = (IF style = "index" \/ (style = "first" /\ 1 > 1) THEN inference!None ELSE <<"id", call>>)
    BY <2>1 DEF NextDelta, inference!Delta
  <2> HIDE DEF delta
  <2> QED BY <2>1, <2>2
<1> HIDE DEF delta
<1>4. inference!Lookup(a, delta) = 0
  BY <1>1, <1>2, <1>3, Zenon DEF inference!Lookup
<1> QED BY <1>4 DEF delta

(* What accumulateToolCallDelta makes of an entry, found or new.           *)
Updated(old, delta) ==
  [id |-> IF delta.id # inference!None THEN delta.id ELSE old.id,
   index |-> IF old.index = inference!None THEN delta.index ELSE old.index,
   name |-> IF delta.name # inference!None THEN delta.name ELSE old.name,
   args |-> inference!Arguments(old.args, delta.args)]

LEMMA UpdatedIs ==
  ASSUME NEW style \in inference!Styles, NEW call \in Nat, NEW e, NEW k \in Nat, k > 0, k <= Pieces + 1,
         Pieces \in Nat, Pieces > 0, NEW old,
         old.id = IdOf(style, call, e),
         \/ k > 1 /\ old = EntryOf(style, call, e, k - 1)
         \/ k = 1 /\ old.index = inference!None /\ old.name = inference!None /\ old.args = << >>
  PROVE  Updated(old, NextDelta(style, call, k)) = EntryOf(style, call, e, k)
<1> DEFINE delta == NextDelta(style, call, k)
           entry == EntryOf(style, call, e, k)
<1>1. /\ delta.index = (IF style = "id" THEN inference!None ELSE <<call - 1>>)
      /\ delta.id = (IF style = "index" \/ (style = "first" /\ k > 1) THEN inference!None ELSE <<"id", call>>)
      /\ delta.name = (IF k = 1 THEN <<call>> ELSE inference!None)
      /\ delta.args = (IF k > Pieces THEN inference!Whole(call) ELSE <<<<call, k>>>>)
  BY DEF NextDelta, inference!Delta
<1>2. /\ <<call - 1>> # inference!None /\ <<"id", call>> # inference!None /\ <<call>> # inference!None
  BY DEF inference!None
<1>3. /\ entry.id = IdOf(style, call, e) /\ entry.name = <<call>> /\ entry.args = Some(call, k)
      /\ entry.index = (IF style = "id" THEN inference!None ELSE <<call - 1>>)
      /\ entry = [id |-> entry.id, index |-> entry.index, name |-> entry.name, args |-> entry.args]
  BY DEF EntryOf
<1>4. k > 1 => /\ old.name = <<call>> /\ old.args = Some(call, k - 1)
               /\ old.index = (IF style = "id" THEN inference!None ELSE <<call - 1>>)
  BY DEF EntryOf
<1>5. inference!Arguments(old.args, delta.args) = Some(call, k)
  <2>1. old.args = Some(call, k - 1)
    <3>1. CASE k = 1
      <4>1. Some(call, 0) = << >>
        BY DEF Some
      <4> QED BY <3>1, <4>1
    <3> QED BY <1>4, <3>1
  <2>2. k - 1 \in Nat /\ k - 1 <= Pieces /\ (k - 1) + 1 = k
    OBVIOUS
  <2>3. inference!Arguments(Some(call, k - 1), IF (k - 1) + 1 > Pieces THEN inference!Whole(call) ELSE <<<<call, (k - 1) + 1>>>>)
           = Some(call, (k - 1) + 1)
    BY <2>2, NextPiece
  <2> HIDE DEF delta
  <2> QED BY <1>1, <2>1, <2>2, <2>3
<1> HIDE DEF delta, entry
<1>6. (IF delta.id # inference!None THEN delta.id ELSE old.id) = entry.id
  BY <1>1, <1>2, <1>3 DEF IdOf, inference!Styles
<1>7. (IF old.index = inference!None THEN delta.index ELSE old.index) = entry.index
  BY <1>1, <1>2, <1>3, <1>4
<1>8. (IF delta.name # inference!None THEN delta.name ELSE old.name) = entry.name
  BY <1>1, <1>2, <1>3, <1>4
<1>9. Updated(old, delta) = entry
  BY <1>3, <1>5, <1>6, <1>7, <1>8, Zenon DEF Updated
<1> QED BY <1>9 DEF delta, entry

(* Deltas after the first.                                                 *)
LEMMA AccumulateOld ==
  ASSUME NEW n \in Nat, NEW style \in inference!Styles, NEW sent \in [1..n -> 0..Pieces + 1], NEW of, NEW a,
         Pieces \in Nat, Pieces > 0,
         Accumulated(a, style, n, sent, of), NEW e \in 1..Len(of), sent[of[e]] <= Pieces
  PROVE  Accumulated(inference!Accumulate(a, NextDelta(style, of[e], sent[of[e]] + 1)), style, n,
                     [sent EXCEPT ![of[e]] = sent[of[e]] + 1], of)
<1> DEFINE call == of[e]
           k == sent[call] + 1
           delta == NextDelta(style, call, k)
           old == a.entries[e]
           new == Updated(old, delta)
           more == [sent EXCEPT ![call] = k]
<1>0. Keyed(a, style, n, of)
  BY Keys
<1>1. call \in 1..n /\ call \in Nat /\ e \in Nat /\ e # 0 /\ Len(of) \in Nat
  BY <1>0 DEF Keyed
<1>2. sent[call] > 0
  BY <1>1 DEF Accumulated
<1>3. k \in Nat /\ k > 1 /\ k <= Pieces + 1 /\ k - 1 = sent[call]
  BY <1>1, <1>2
<1>4. old = EntryOf(style, call, e, sent[call])
  BY DEF Accumulated
<1>5. new = EntryOf(style, call, e, k)
  <2>1. old.id = IdOf(style, call, e)
    BY <1>4 DEF EntryOf
  <2> HIDE DEF old, call, k
  <2> QED BY <1>1, <1>3, <1>4, <2>1, UpdatedIs
<1>6. inference!Lookup(a, delta) = e
  BY <1>3, LookupOld
<1>7. inference!Accumulate(a, delta) =
        [entries |-> [a.entries EXCEPT ![e] = new],
         byIndex |-> IF old.index = inference!None /\ delta.index # inference!None
                       THEN inference!Set(a.byIndex, delta.index, e) ELSE a.byIndex,
         byId |-> inference!Set({p \in a.byId : p[1] # old.id}, new.id, e)]
  <2> HIDE DEF delta
  <2> QED BY <1>1, <1>6, Zenon DEF inference!Accumulate, Updated
<1>8. ~(old.index = inference!None /\ delta.index # inference!None)
  BY <1>4 DEF EntryOf, NextDelta, inference!Delta, inference!None
<1>9. inference!Set({p \in a.byId : p[1] # old.id}, new.id, e) = a.byId
  <2>1. old.id = IdOf(style, call, e) /\ new.id = IdOf(style, call, e)
    BY <1>4, <1>5 DEF EntryOf
  <2>2. <<IdOf(style, call, e), e>> \in a.byId
    BY <1>0 DEF Keyed
  <2>3. ASSUME NEW p \in a.byId, p[1] = IdOf(style, call, e)
        PROVE  p = <<IdOf(style, call, e), e>>
    <3>1. p[2] \in 1..Len(of) /\ p = <<IdOf(style, of[p[2]], p[2]), p[2]>>
      BY <1>0 DEF Keyed
    <3>2. IdOf(style, of[p[2]], p[2]) = IdOf(style, call, e)
      BY <2>3, <3>1
    <3>3. p[2] = e
      <4>1. of[p[2]] = of[e] => p[2] = e
        BY <3>1 DEF Accumulated
      <4> QED BY <3>2, <4>1 DEF IdOf
    <3> QED BY <3>1, <3>3
  <2>4. \A i : <<i, e>>[1] = i
    OBVIOUS
  <2> HIDE DEF IdOf, new, old, call
  <2> QED BY <2>1, <2>2, <2>3, <2>4 DEF inference!Set
<1>10. [a.entries EXCEPT ![e] = new] = [d \in 1..Len(of) |-> EntryOf(style, of[d], d, more[of[d]])]
  <2>1. \A d \in 1..Len(of) : more[of[d]] = IF d = e THEN k ELSE sent[of[d]]
    <3>1. \A d \in 1..Len(of) : of[d] \in 1..n /\ (of[d] = of[e] <=> d = e)
      BY <1>0 DEF Keyed, Accumulated
    <3> QED BY <3>1
  <2>2. a.entries = [d \in 1..Len(of) |-> EntryOf(style, of[d], d, sent[of[d]])]
    BY DEF Accumulated
  <2> HIDE DEF new, more, k, call
  <2>3. [a.entries EXCEPT ![e] = new] = [d \in 1..Len(of) |-> IF d = e THEN new ELSE a.entries[d]]
    BY <2>2
  <2>4. \A d \in 1..Len(of) : (IF d = e THEN new ELSE a.entries[d]) = EntryOf(style, of[d], d, more[of[d]])
    BY <1>5, <2>1, <2>2 DEF call
  <2> QED BY <2>3, <2>4
<1>11. \A c \in 1..n : more[c] > 0 <=> \E d \in 1..Len(of) : of[d] = c
  <2>1. \A c \in 1..n : more[c] > 0 <=> sent[c] > 0
    BY <1>1, <1>2, <1>3
  <2> QED BY <2>1 DEF Accumulated
<1> DEFINE b == inference!Accumulate(a, delta)
<1>12. b.entries = [d \in 1..Len(of) |-> EntryOf(style, of[d], d, more[of[d]])]
       /\ b.byIndex = a.byIndex /\ b.byId = a.byId
  <2> HIDE DEF delta, old, new, more
  <2> QED BY <1>7, <1>8, <1>9, <1>10
<1> HIDE DEF b, more
<1>13. Accumulated(b, style, n, more, of)
  BY <1>11, <1>12 DEF Accumulated
<1> QED BY <1>13 DEF b, more

(* The first delta of a call.                                              *)
LEMMA AccumulateNew ==
  ASSUME NEW n \in Nat, NEW style \in inference!Styles, NEW sent \in [1..n -> 0..Pieces + 1], NEW of, NEW a,
         Pieces \in Nat, Pieces > 0,
         Accumulated(a, style, n, sent, of), NEW call \in 1..n, sent[call] = 0,
         style = "id" => \A c \in 1..call - 1 : sent[c] > 0
  PROVE  Accumulated(inference!Accumulate(a, NextDelta(style, call, 1)), style, n,
                     [sent EXCEPT ![call] = 1], Append(of, call))
<1> DEFINE delta == NextDelta(style, call, 1)
           e == Len(of) + 1
           old == [id |-> IF delta.id # inference!None THEN delta.id ELSE <<"tool", e>>,
                   index |-> inference!None, name |-> inference!None, args |-> << >>]
           new == Updated(old, delta)
           more == [sent EXCEPT ![call] = 1]
           by == Append(of, call)
<1>0. Keyed(a, style, n, of)
  BY Keys
<1>1. call \in Nat /\ e \in Nat /\ e # 0 /\ Len(of) \in Nat /\ of \in Seq(1..n)
  BY <1>0 DEF Keyed, Accumulated
<1>2. \A d \in 1..Len(of) : of[d] # call
  BY DEF Accumulated
<1>3. /\ by \in Seq(1..n) /\ Len(by) = e /\ by[e] = call
      /\ \A d \in 1..Len(of) : by[d] = of[d]
      /\ \A d \in 1..e : d \in 1..Len(of) \/ d = e
  BY <1>1
<1>4. \A c, d \in 1..e : by[c] = by[d] => c = d
  <2>1. \A c, d \in 1..Len(of) : of[c] = of[d] => c = d
    BY DEF Accumulated
  <2>2. ASSUME NEW c \in 1..e, NEW d \in 1..e, by[c] = by[d] PROVE c = d
    <3> HIDE DEF by
    <3>1. CASE c \in 1..Len(of) /\ d \in 1..Len(of)
      BY <1>3, <2>1, <2>2, <3>1
    <3>2. CASE c = e /\ d \in 1..Len(of)
      BY <1>2, <1>3, <2>2, <3>2
    <3>3. CASE d = e /\ c \in 1..Len(of)
      BY <1>2, <1>3, <2>2, <3>3
    <3> HIDE DEF e
    <3> QED BY <1>3, <3>1, <3>2, <3>3
  <2> HIDE DEF by, e
  <2> QED BY <2>2
<1>5. \A c \in 1..n : more[c] > 0 <=> \E d \in 1..e : by[d] = c
  <2>1. \A c \in 1..n : sent[c] > 0 <=> \E d \in 1..Len(of) : of[d] = c
    BY DEF Accumulated
  <2>2. \A c \in 1..n : more[c] > 0 <=> c = call \/ sent[c] > 0
    OBVIOUS
  <2>3. \A c \in 1..n : (\E d \in 1..e : by[d] = c) <=> c = call \/ \E d \in 1..Len(of) : of[d] = c
    <3>1. 1..Len(of) \subseteq 1..e /\ e \in 1..e
      BY <1>1
    <3> HIDE DEF by
    <3> QED BY <1>3, <3>1
  <2> QED BY <2>1, <2>2, <2>3
<1>6. style = "id" => \A d \in 1..e : by[d] = d
  <2> SUFFICES ASSUME style = "id" PROVE \A d \in 1..e : by[d] = d
    OBVIOUS
  <2>1. \A d \in 1..Len(of) : of[d] = d
    BY DEF Accumulated
  <2>2. \A c \in 1..n : sent[c] > 0 <=> c \in 1..Len(of)
    <3>1. \A c \in 1..n : sent[c] > 0 <=> \E d \in 1..Len(of) : of[d] = c
      BY DEF Accumulated
    <3> QED BY <2>1, <3>1
  <2>3. call = e
    <3>1. call > Len(of)
      BY <1>1, <2>2
    <3>2. ~(call > e)
      <4>1. SUFFICES ASSUME call > e PROVE FALSE
        OBVIOUS
      <4>2. e \in 1..call - 1 /\ e \in 1..n /\ e \notin 1..Len(of)
        BY <1>1, <4>1
      <4> QED BY <2>2, <4>2
    <3> QED BY <1>1, <3>1, <3>2
  <2> HIDE DEF by
  <2> QED BY <1>3, <2>1, <2>3
<1>7. inference!Lookup(a, delta) = 0
  BY <1>2, LookupNew
<1>8. old.id = IdOf(style, call, e) /\ old.index = inference!None /\ old.name = inference!None /\ old.args = << >>
  <2>1. delta.id = (IF style = "index" THEN inference!None ELSE <<"id", call>>) /\ <<"id", call>> # inference!None
    BY DEF NextDelta, inference!Delta, inference!None
  <2> HIDE DEF delta
  <2> QED BY <2>1 DEF IdOf
<1>9. new = EntryOf(style, call, e, 1)
  <2>1. 1 \in Nat /\ 1 > 0 /\ 1 <= Pieces + 1
    OBVIOUS
  <2> HIDE DEF old, e
  <2> QED BY <1>1, <1>8, <2>1, UpdatedIs
<1>10. inference!Accumulate(a, delta) =
         [entries |-> Append(a.entries, new),
          byIndex |-> IF old.index = inference!None /\ delta.index # inference!None
                        THEN inference!Set(a.byIndex, delta.index, e) ELSE a.byIndex,
          byId |-> inference!Set({p \in a.byId : p[1] # old.id}, new.id, e)]
  <2>1. Len(a.entries) = Len(of)
    BY <1>1 DEF Accumulated
  <2> HIDE DEF delta
  <2> QED BY <1>1, <1>7, <2>1, Zenon DEF inference!Accumulate, Updated
<1>11. Append(a.entries, new) = [d \in 1..e |-> EntryOf(style, by[d], d, more[by[d]])]
  <2> DEFINE all == [d \in 1..e |-> EntryOf(style, by[d], d, more[by[d]])]
             T == {EntryOf(style, by[d], d, more[by[d]]) : d \in 1..e}
  <2>1. more[call] = 1 /\ \A d \in 1..Len(of) : of[d] \in 1..n /\ more[of[d]] = sent[of[d]]
    BY <1>0, <1>2 DEF Keyed
  <2>2. /\ a.entries = [d \in 1..Len(of) |-> EntryOf(style, of[d], d, sent[of[d]])]
        /\ Len(a.entries) = Len(of)
    BY <1>1 DEF Accumulated
  <2> HIDE DEF new, more, by
  <2>3. \A d \in 1..Len(of) : a.entries[d] = EntryOf(style, by[d], d, more[by[d]])
    <3>1. \A d \in 1..Len(of) : a.entries[d] = EntryOf(style, of[d], d, sent[of[d]])
      BY <2>2
    <3> QED BY <1>3, <2>1, <3>1
  <2>4. new = EntryOf(style, by[e], e, more[by[e]])
    BY <1>3, <1>9, <2>1
  <2>5. a.entries \in Seq(T) /\ new \in T /\ all \in Seq(T) /\ Len(all) = e
    <3>1. \A d \in 1..e : EntryOf(style, by[d], d, more[by[d]]) \in T
      OBVIOUS
    <3>2. 1..Len(of) \subseteq 1..e /\ e \in 1..e
      BY <1>1
    <3> HIDE DEF T
    <3>3. all \in [1..e -> T]
      BY <3>1
    <3>4. all \in Seq(T) /\ Len(all) = e
      <4>1. \A m, f : m \in Nat /\ f \in [1..m -> T] => f \in Seq(T) /\ Len(f) = m
        OBVIOUS
      <4> HIDE DEF all, e
      <4> QED BY <1>1, <3>3, <4>1
    <3>5. a.entries \in [1..Len(of) -> T]
      BY <2>2, <2>3, <3>1, <3>2
    <3>6. a.entries \in Seq(T)
      <4>1. \A m, f : m \in Nat /\ f \in [1..m -> T] => f \in Seq(T)
        OBVIOUS
      <4>2. Len(of) \in Nat
        BY <1>1
      <4> QED BY <3>5, <4>1, <4>2
    <3>7. new \in T
      BY <2>4, <3>1, <3>2
    <3> QED BY <3>4, <3>6, <3>7
  <2>6. \A d \in 1..e : all[d] = EntryOf(style, by[d], d, more[by[d]])
    OBVIOUS
  <2> HIDE DEF T, all
  <2>7. /\ Append(a.entries, new) \in Seq(T) /\ Len(Append(a.entries, new)) = e
        /\ \A d \in 1..Len(of) : Append(a.entries, new)[d] = a.entries[d]
        /\ Append(a.entries, new)[e] = new
    BY <1>1, <2>2, <2>5, AppendProperties
  <2>8. \A d \in 1..e : Append(a.entries, new)[d] = all[d]
    BY <1>3, <2>3, <2>4, <2>6, <2>7
  <2>9. Append(a.entries, new) = all
    BY <2>5, <2>7, <2>8, SeqEqual
  <2> QED BY <2>9 DEF all
<1>12. inference!Set({p \in a.byId : p[1] # old.id}, new.id, e) = {<<IdOf(style, by[d], d), d>> : d \in 1..e}
  <2>1. new.id = IdOf(style, call, e) /\ old.id = IdOf(style, call, e)
    BY <1>8, <1>9 DEF EntryOf
  <2>2. a.byId = {<<IdOf(style, of[d], d), d>> : d \in 1..Len(of)}
    BY DEF Accumulated
  <2>3. \A d \in 1..Len(of) : IdOf(style, by[d], d) = IdOf(style, of[d], d)
                              /\ IdOf(style, of[d], d) # IdOf(style, call, e)
    <3>1. \A d \in 1..Len(of) : d # e
      BY <1>1
    <3> HIDE DEF by
    <3> QED BY <1>2, <1>3, <3>1 DEF IdOf
  <2>4. \A i, d : <<i, d>>[1] = i
    OBVIOUS
  <2> HIDE DEF new, old, by, delta
  <2>5. {p \in a.byId : p[1] # old.id} = a.byId
    BY <2>1, <2>2, <2>3, <2>4
  <2>6. {p \in a.byId : p[1] # new.id} = a.byId
    BY <2>1, <2>2, <2>3, <2>4
  <2>7. inference!Set({p \in a.byId : p[1] # old.id}, new.id, e) = a.byId \cup {<<IdOf(style, call, e), e>>}
    BY <2>1, <2>5, <2>6 DEF inference!Set
  <2>8. \A p : p \in a.byId \cup {<<IdOf(style, call, e), e>>}
               <=> \E d \in 1..e : p = <<IdOf(style, by[d], d), d>>
    <3>1. 1..Len(of) \subseteq 1..e /\ e \in 1..e
      BY <1>1
    <3>2. \A d \in 1..Len(of) : <<IdOf(style, by[d], d), d>> = <<IdOf(style, of[d], d), d>>
      BY <2>3
    <3> HIDE DEF e
    <3> QED BY <1>3, <2>2, <3>1, <3>2
  <2> QED BY <2>7, <2>8
<1>13. (IF old.index = inference!None /\ delta.index # inference!None
          THEN inference!Set(a.byIndex, delta.index, e) ELSE a.byIndex)
         = IF style = "id" THEN {} ELSE {<<<<by[d] - 1>>, d>> : d \in 1..e}
  <2>1. delta.index = (IF style = "id" THEN inference!None ELSE <<call - 1>>) /\ <<call - 1>> # inference!None
    BY DEF NextDelta, inference!Delta, inference!None
  <2>2. CASE style = "id"
    BY <2>1, <2>2, <1>8 DEF Accumulated
  <2>3. CASE style # "id"
    <3>1. a.byIndex = {<<<<of[d] - 1>>, d>> : d \in 1..Len(of)}
      BY <2>3 DEF Accumulated
    <3>2. \A d \in 1..Len(of) : <<by[d] - 1>> = <<of[d] - 1>> /\ <<of[d] - 1>> # <<call - 1>>
      <4>1. \A d \in 1..Len(of) : by[d] = of[d] /\ of[d] - 1 # call - 1
        BY <1>0, <1>1, <1>2, <1>3 DEF Keyed
      <4> HIDE DEF by
      <4> QED BY <4>1
    <3>3. \A i, d : <<i, d>>[1] = i
      OBVIOUS
    <3> HIDE DEF by
    <3>4. {p \in a.byIndex : p[1] # <<call - 1>>} = a.byIndex
      BY <3>1, <3>2, <3>3
    <3>5. inference!Set(a.byIndex, <<call - 1>>, e) = a.byIndex \cup {<<<<call - 1>>, e>>}
      BY <3>4 DEF inference!Set
    <3>6. \A p : p \in a.byIndex \cup {<<<<call - 1>>, e>>} <=> \E d \in 1..e : p = <<<<by[d] - 1>>, d>>
      <4>1. 1..Len(of) \subseteq 1..e /\ e \in 1..e
        BY <1>1
      <4>2. \A d \in 1..Len(of) : <<<<by[d] - 1>>, d>> = <<<<of[d] - 1>>, d>>
        BY <3>2
      <4> HIDE DEF e
      <4> QED BY <1>3, <3>1, <4>1, <4>2
    <3> HIDE DEF delta, old
    <3> QED BY <1>8, <2>1, <2>3, <3>5, <3>6
  <2> QED BY <2>2, <2>3
<1> DEFINE b == inference!Accumulate(a, delta)
<1>14. /\ b.entries = [d \in 1..e |-> EntryOf(style, by[d], d, more[by[d]])]
       /\ b.byIndex = IF style = "id" THEN {} ELSE {<<<<by[d] - 1>>, d>> : d \in 1..e}
       /\ b.byId = {<<IdOf(style, by[d], d), d>> : d \in 1..e}
  <2> HIDE DEF delta, old, new, more, by, e
  <2> QED BY <1>10, <1>11, <1>12, <1>13
<1> HIDE DEF b, more, by, e
<1>15. Accumulated(b, style, n, more, by)
  BY <1>3, <1>4, <1>5, <1>6, <1>14 DEF Accumulated
<1> QED BY <1>15 DEF b, more, by

LEMMA LeastOf ==
  ASSUME NEW n \in Nat, NEW B \in SUBSET (1..n), B # {}
  PROVE  \E i \in B : \A j \in B : i <= j
<1>1. PICK S : S = 1..n
  OBVIOUS
<1>2. PICK F : F = {1..i : i \in B}
  OBVIOUS
<1>3. F \in SUBSET (SUBSET S) /\ F # {} /\ IsFiniteSet(S)
  <2>1. \A i \in B : 1..i \subseteq 1..n
    OBVIOUS
  <2>2. F \in SUBSET (SUBSET S)
    BY <1>1, <1>2, <2>1
  <2>3. F # {}
    <3>1. PICK i \in B : TRUE
      OBVIOUS
    <3>2. 1..i \in F
      BY <1>2
    <3> QED BY <3>2
  <2>4. IsFiniteSet(S)
    BY <1>1, FS_Interval
  <2> QED BY <2>2, <2>3, <2>4
<1>4. PICK T \in F : \A U \in F : U \subseteq T => U = T
  BY <1>3, MinimalSet
<1>5. PICK i \in B : T = 1..i
  BY <1>2
<1>6. ASSUME NEW j \in B, j < i PROVE FALSE
  <2>1. 1..j \in F /\ 1..j \subseteq T
    BY <1>2, <1>5, <1>6
  <2>2. 1..j = 1..i
    BY <1>4, <1>5, <2>1
  <2>3. i \in 1..i /\ i \notin 1..j
    BY <1>6
  <2> QED BY <2>2, <2>3
<1>7. \A j \in B : i <= j
  BY <1>6
<1> QED BY <1>7

(* Numbers that increase from 1 to n leave nothing out.                    *)
LEMMA Increasing ==
  ASSUME NEW n \in Nat, NEW g \in [1..n -> 1..n],
         \A i, j \in 1..n : i < j => g[i] < g[j]
  PROVE  \A i \in 1..n : g[i] = i
<1>1. \A i \in 1..n : g[i] >= i
  <2> SUFFICES ASSUME NEW k \in 1..n, g[k] < k PROVE FALSE
    OBVIOUS
  <2> DEFINE B == {i \in 1..n : g[i] < i}
  <2>1. PICK i \in B : \A j \in B : i <= j
    <3>1. B \in SUBSET (1..n) /\ B # {}
      OBVIOUS
    <3> HIDE DEF B
    <3> QED BY <3>1, LeastOf
  <2>2. i \in 1..n /\ g[i] \in 1..n /\ g[i] < i
    OBVIOUS
  <2>3. g[g[i]] < g[i]
    BY <2>2
  <2>4. g[i] \in B
    BY <2>2, <2>3
  <2> QED BY <2>1, <2>2, <2>4
<1>2. \A i \in 1..n : g[i] <= i
  <2> SUFFICES ASSUME NEW k \in 1..n, g[k] > k PROVE FALSE
    OBVIOUS
  <2> DEFINE B == {n + 1 - i : i \in {i \in 1..n : g[i] > i}}
  <2>1. PICK b \in B : \A c \in B : b <= c
    <3>1. B \in SUBSET (1..n) /\ B # {}
      <4>1. \A i \in 1..n : n + 1 - i \in 1..n
        OBVIOUS
      <4> QED BY <4>1
    <3> HIDE DEF B
    <3> QED BY <3>1, LeastOf
  <2>2. PICK i \in 1..n : g[i] > i /\ b = n + 1 - i
    BY <2>1
  <2>3. g[i] \in 1..n /\ g[g[i]] > g[i]
    BY <2>2
  <2>4. n + 1 - g[i] \in B
    BY <2>3
  <2>5. n + 1 - i <= n + 1 - g[i]
    BY <2>1, <2>2, <2>4
  <2> QED BY <2>2, <2>3, <2>5
<1>3. \A i \in 1..n : g[i] \in 1..n
  OBVIOUS
<1> QED BY <1>1, <1>2, <1>3

(* When all deltas of all calls came, the calls are those that were sent.  *)
LEMMA AssembledAsSent ==
  ASSUME NEW n \in Nat, NEW style \in inference!Styles, NEW sent \in [1..n -> 0..Pieces + 1], NEW of, NEW a,
         Pieces \in Nat, Pieces > 0,
         Accumulated(a, style, n, sent, of), \A call \in 1..n : sent[call] >= Pieces
  PROVE  inference!Assemble(a) = [call \in 1..n |-> [name |-> <<call>>, args |-> inference!Whole(call)]]
<1> DEFINE m == Len(of)
           entries == {p[2] : p \in IF a.byIndex # {} THEN a.byIndex ELSE a.byId}
           named == {e \in entries : a.entries[e].name # inference!None}
           Earlier(d, e) == IF a.byIndex # {}
                              THEN a.entries[d].index[1] < a.entries[e].index[1] ELSE d < e
           Sorted(s) == \A i, j \in DOMAIN s : i < j => Earlier(s[i], s[j])
           sorted == CHOOSE s \in inference!SetToSeqs(named) : Sorted(s)
<1>0. Keyed(a, style, n, of)
  BY Keys
<1>1. m \in Nat /\ of \in [1..m -> 1..n]
  BY <1>0 DEF Keyed, Accumulated
<1>2. \A c \in 1..n : \E e \in 1..m : of[e] = c
  <2>1. \A c \in 1..n : sent[c] > 0
    OBVIOUS
  <2> QED BY <2>1 DEF Accumulated
<1>3. \A d, e \in 1..m : of[d] = of[e] => d = e
  BY DEF Accumulated
<1>4. m = n /\ Cardinality(1..m) = m
  <2>1. of \in Bijection(1..m, 1..n)
    <3> HIDE DEF m
    <3> QED BY <1>1, <1>2, <1>3 DEF Bijection, Injection, Surjection, IsInjective
  <2>2. IsFiniteSet(1..m) /\ Cardinality(1..m) = m /\ Cardinality(1..n) = n
    <3> HIDE DEF m
    <3> QED BY <1>1, FS_Interval
  <2>3. Cardinality(1..n) = Cardinality(1..m)
    BY <2>1, <2>2, FS_Bijection DEF ExistsBijection
  <2> QED BY <2>2, <2>3
<1>5. \A e \in 1..m : /\ a.entries[e].name = <<of[e]>> /\ a.entries[e].args = inference!Whole(of[e])
                      /\ style # "id" => a.entries[e].index = <<of[e] - 1>>
  <2>1. \A e \in 1..m : a.entries[e] = EntryOf(style, of[e], e, sent[of[e]])
    BY DEF Accumulated
  <2>2. \A call \in 1..n : Some(call, sent[call]) = inference!Whole(call)
    <3>1. \A call \in 1..n : (IF sent[call] < Pieces THEN sent[call] ELSE Pieces) = Pieces
      OBVIOUS
    <3> QED BY <3>1 DEF Some, inference!Whole
  <2>3. \A e \in 1..m : /\ a.entries[e].name = <<of[e]>>
                        /\ a.entries[e].args = Some(of[e], sent[of[e]])
                        /\ style # "id" => a.entries[e].index = <<of[e] - 1>>
    <3>1. ASSUME NEW e \in 1..m
          PROVE  /\ a.entries[e].name = <<of[e]>>
                 /\ a.entries[e].args = Some(of[e], sent[of[e]])
                 /\ style # "id" => a.entries[e].index = <<of[e] - 1>>
      <4>1. a.entries[e] = EntryOf(style, of[e], e, sent[of[e]])
        BY <2>1
      <4>2. /\ EntryOf(style, of[e], e, sent[of[e]]).name = <<of[e]>>
            /\ EntryOf(style, of[e], e, sent[of[e]]).args = Some(of[e], sent[of[e]])
            /\ style # "id" => EntryOf(style, of[e], e, sent[of[e]]).index = <<of[e] - 1>>
        BY DEF EntryOf
      <4> QED BY <4>1, <4>2
    <3> HIDE DEF m
    <3> QED BY <3>1, Zenon
  <2>4. \A e \in 1..m : of[e] \in 1..n
    BY <1>1
  <2> QED BY <2>2, <2>3, <2>4
<1>6. a.byIndex # {} <=> style # "id" /\ m > 0
  <2>1. CASE style = "id"
    BY <2>1 DEF Accumulated
  <2>2. CASE style # "id"
    <3>1. a.byIndex = {<<<<of[e] - 1>>, e>> : e \in 1..m}
      BY <2>2 DEF Accumulated
    <3>2. m > 0 <=> 1..m # {}
      <4>1. m \in Nat
        BY <1>1
      <4> HIDE DEF m
      <4>2. m > 0 => 1 \in 1..m
        BY <4>1
      <4>3. ASSUME NEW e \in 1..m PROVE m > 0
        BY <4>1
      <4> QED BY <4>2, <4>3
    <3> HIDE DEF m
    <3> QED BY <2>2, <3>1, <3>2
  <2> QED BY <2>1, <2>2
<1>7. entries = 1..m
  <2>1. ASSUME NEW p \in IF a.byIndex # {} THEN a.byIndex ELSE a.byId PROVE p[2] \in 1..m
    BY <1>0 DEF Keyed
  <2>2. ASSUME NEW e \in 1..m PROVE e \in entries
    <3>1. \A i : <<i, e>>[2] = e
      OBVIOUS
    <3>2. CASE a.byIndex # {}
      <4>1. <<<<of[e] - 1>>, e>> \in a.byIndex
        BY <1>0, <1>6, <3>2 DEF Keyed
      <4> QED BY <3>1, <3>2, <4>1
    <3>3. CASE a.byIndex = {}
      <4>1. <<IdOf(style, of[e], e), e>> \in a.byId
        BY <1>0 DEF Keyed
      <4> QED BY <3>1, <3>3, <4>1
    <3> QED BY <3>2, <3>3
  <2> QED BY <2>1, <2>2
<1>8. named = 1..m
  <2>1. \A e \in 1..m : a.entries[e].name # inference!None
    <3>1. \A i : <<i>> # << >>
      OBVIOUS
    <3> QED BY <1>5, <3>1 DEF inference!None
  <2> HIDE DEF entries
  <2> QED BY <1>7, <2>1
<1>9. \A d, e \in 1..m : Earlier(d, e) <=> of[d] < of[e]
  <2>1. CASE style = "id"
    <3>1. \A e \in 1..m : of[e] = e
      BY <2>1 DEF Accumulated
    <3> QED BY <1>6, <2>1, <3>1
  <2>2. CASE style # "id"
    <3>1. ASSUME NEW d \in 1..m, NEW e \in 1..m PROVE Earlier(d, e) <=> of[d] < of[e]
      <4>1. a.byIndex # {}
        BY <1>1, <1>6, <2>2
      <4>2. a.entries[d].index[1] = of[d] - 1 /\ a.entries[e].index[1] = of[e] - 1
        BY <1>5, <2>2
      <4>3. of[d] \in 1..n /\ of[e] \in 1..n
        BY <1>1
      <4> QED BY <4>1, <4>2, <4>3
    <3> HIDE DEF Earlier
    <3> QED BY <3>1
  <2> QED BY <2>1, <2>2
<1>10. inference!SetToSeqs(named) = {f \in [1..m -> 1..m] : \A i, j \in 1..m : i # j => f[i] # f[j]}
  <2> HIDE DEF named, m
  <2>1. Cardinality(named) = m
    BY <1>4, <1>8
  <2>2. inference!SetToSeqs(named) = {f \in [1..Cardinality(named) -> named] :
                             \A i, j \in 1..Cardinality(named) : i # j => f[i] # f[j]}
    <3>1. inference!Cardinality(named) = Cardinality(named)
      BY Zenon DEF inference!Cardinality, Cardinality
    <3>2. inference!SetToSeqs(named) =
            {f \in [1..inference!Cardinality(named) -> named] :
               \A i, j \in 1..inference!Cardinality(named) : i # j => f[i] # f[j]}
      BY Zenon DEF inference!SetToSeqs
    <3> QED BY <3>1, <3>2
  <2> QED BY <1>8, <2>1, <2>2
<1> HIDE DEF m, entries, named, Earlier
<1>11. \E s \in inference!SetToSeqs(named) : Sorted(s)
  <2> DEFINE inverse == [c \in 1..m |-> CHOOSE e \in 1..m : of[e] = c]
  <2>1. \A c \in 1..m : inverse[c] \in 1..m /\ of[inverse[c]] = c
    BY <1>2, <1>4
  <2>2. inverse \in [1..m -> 1..m] /\ DOMAIN inverse = 1..m
    BY <2>1
  <2> HIDE DEF inverse
  <2>3. \A i, j \in 1..m : i # j => inverse[i] # inverse[j]
    BY <2>1
  <2>4. Sorted(inverse)
    BY <1>9, <2>1, <2>2
  <2>5. inverse \in inference!SetToSeqs(named)
    BY <1>10, <2>2, <2>3
  <2> QED BY <2>4, <2>5
<1>12. sorted \in inference!SetToSeqs(named) /\ Sorted(sorted)
  <2> HIDE DEF Sorted
  <2> QED BY <1>11, Zenon
<1>13. inference!Assemble(a) = [i \in DOMAIN sorted |->
                        [name |-> a.entries[sorted[i]].name, args |-> a.entries[sorted[i]].args]]
  BY Zenon DEF inference!Assemble, sorted, named, entries, Earlier
<1> HIDE DEF sorted
<1>14. sorted \in [1..m -> 1..m] /\ DOMAIN sorted = 1..m
  BY <1>10, <1>12
<1>15. \A i \in 1..m : of[sorted[i]] = i
  <2> DEFINE g == [i \in 1..m |-> of[sorted[i]]]
  <2>1. g \in [1..m -> 1..m] /\ \A i \in 1..m : g[i] = of[sorted[i]]
    BY <1>1, <1>4, <1>14
  <2>2. \A i, j \in 1..m : i < j => g[i] < g[j]
    BY <1>9, <1>12, <1>14, <2>1
  <2> HIDE DEF g
  <2>3. \A i \in 1..m : g[i] = i
    BY <1>1, <2>1, <2>2, Increasing
  <2> QED BY <2>1, <2>3
<1>16. \A i \in 1..m : /\ a.entries[sorted[i]].name = <<i>>
                       /\ a.entries[sorted[i]].args = inference!Whole(i)
  BY <1>5, <1>14, <1>15
<1> QED BY <1>4, <1>13, <1>14, <1>16

(* The accumulator has what came of the calls of the response, whichever   *)
(* order they came in.                                                     *)
CallsKept ==
  /\ provider = [calls |-> provider.calls, style |-> provider.style, sent |-> provider.sent,
                 finished |-> provider.finished]
  /\ provider.calls \in Nat /\ provider.style \in inference!Styles
  /\ provider.sent \in [1..provider.calls -> 0..Pieces + 1]
  /\ \E of : Accumulated(acc, provider.style, provider.calls, provider.sent, of)
  /\ provider.finished => \A call \in 1..provider.calls : provider.sent[call] >= Pieces

(* A response of which nothing came.                                       *)
LEMMA CallsBegin ==
  ASSUME NEW p, NEW n \in Nat, NEW style \in inference!Styles, Pieces \in Nat,
         p = [calls |-> n, style |-> style, sent |-> [c \in 1..n |-> 0], finished |-> FALSE]
  PROVE  /\ p = [calls |-> p.calls, style |-> p.style, sent |-> p.sent, finished |-> p.finished]
         /\ p.calls \in Nat /\ p.style \in inference!Styles /\ ~p.finished
         /\ p.sent \in [1..p.calls -> 0..Pieces + 1]
         /\ \E of : Accumulated(inference!EmptyAccumulator, p.style, p.calls, p.sent, of)
<1>1. p.calls = n /\ p.style = style /\ p.sent = [c \in 1..n |-> 0] /\ ~p.finished
  OBVIOUS
<1>2. p = [calls |-> p.calls, style |-> p.style, sent |-> p.sent, finished |-> p.finished]
  OBVIOUS
<1>3. p.sent \in [1..n -> {0}] /\ p.sent \in [1..n -> 0..Pieces + 1]
  BY <1>1
<1>4. Accumulated(inference!EmptyAccumulator, p.style, p.calls, p.sent, << >>)
  BY <1>1, <1>3, NothingAccumulated
<1> QED BY <1>1, <1>2, <1>3, <1>4

(* Before the first response there is none.                                *)
LEMMA InitCalls == ASSUME inference!InferenceAssumption, inference!Init PROVE CallsKept
<1>1. provider = [calls |-> 0, style |-> "both", sent |-> [c \in 1..0 |-> 0], finished |-> FALSE]
  <2>1. [c \in 1..0 |-> 0] = << >>
    OBVIOUS
  <2> QED BY <2>1 DEF inference!Init, inference!NoResponse
<1>2. 0 \in Nat /\ "both" \in inference!Styles /\ acc = inference!EmptyAccumulator /\ Pieces \in Nat
  BY DEF inference!Init, inference!Styles, inference!InferenceAssumption
<1> QED BY <1>1, <1>2, CallsBegin DEF CallsKept

(* A whole response has the entries of all its calls.                      *)
LEMMA WholeAccumulated ==
  ASSUME NEW n \in Nat, NEW sent, sent = [c \in 1..n |-> Pieces], Pieces \in Nat, Pieces > 0, NEW a,
         a = [inference!EmptyAccumulator EXCEPT
                !.entries = [c \in 1..n |-> [id |-> <<"id", c>>, index |-> inference!None, name |-> <<c>>,
                                             args |-> inference!Whole(c)]],
                !.byId = {<<<<"id", c>>, c>> : c \in 1..n}]
  PROVE  Accumulated(a, "id", n, sent, [c \in 1..n |-> c])
<1> DEFINE of == [c \in 1..n |-> c]
<1>1. of \in Seq(1..n) /\ Len(of) = n /\ \A c \in 1..n : of[c] = c
  OBVIOUS
<1>2. /\ a.entries = [c \in 1..n |-> [id |-> <<"id", c>>, index |-> inference!None, name |-> <<c>>,
                                      args |-> inference!Whole(c)]]
      /\ a.byIndex = {} /\ a.byId = {<<<<"id", c>>, c>> : c \in 1..n}
  BY DEF inference!EmptyAccumulator
<1>3. \A c \in 1..n : EntryOf("id", of[c], c, sent[of[c]]) =
        [id |-> <<"id", c>>, index |-> inference!None, name |-> <<c>>, args |-> inference!Whole(c)]
  <2>1. \A c \in 1..n : sent[of[c]] = Pieces /\ Some(c, Pieces) = inference!Whole(c) /\ IdOf("id", c, c) = <<"id", c>>
    BY <1>1 DEF Some, inference!Whole, IdOf
  <2> HIDE DEF of
  <2> QED BY <1>1, <2>1 DEF EntryOf
<1>4. \A c \in 1..n : IdOf("id", of[c], c) = <<"id", c>>
  BY <1>1 DEF IdOf
<1>5. \A c \in 1..n : sent[c] > 0
  OBVIOUS
<1> HIDE DEF of
<1>6. a.entries = [c \in 1..n |-> EntryOf("id", of[c], c, sent[of[c]])]
  BY <1>2, <1>3
<1>7. a.byId = {<<IdOf("id", of[c], c), c>> : c \in 1..n}
  BY <1>2, <1>4
<1>8. Accumulated(a, "id", n, sent, of)
  BY <1>1, <1>2, <1>5, <1>6, <1>7 DEF Accumulated
<1> QED BY <1>8 DEF of

LEMMA CallsKeptHolds ==
  ASSUME inference!InferenceAssumption, CallsKept, inference!Next
  PROVE  CallsKept'
<1>0. Pieces \in Nat /\ Pieces > 0 /\ MaxCalls \in Nat
  BY DEF inference!InferenceAssumption
<1>1. CASE UNCHANGED <<provider, acc>>
  BY <1>1 DEF CallsKept
<1>2. CASE \/ inference!Enter \/ inference!Configured \/ inference!Requested \/ inference!CreateFails
           \/ inference!StreamBreaks \/ inference!StreamText \/ inference!ToolsDone \/ inference!Abort
  BY <1>1, <1>2 DEF inference!Enter, inference!Configured, inference!Requested, inference!CreateFails, inference!StreamBreaks, inference!StreamText, inference!ToolsDone, inference!Abort, inference!response
<1>3. CASE inference!Created
  <2>1. PICK calls \in IF args.tools THEN 0..MaxCalls ELSE {0}, style \in inference!Styles :
          provider' = [calls |-> calls, style |-> style, sent |-> [c \in 1..calls |-> 0],
                       finished |-> FALSE]
    BY <1>3, Zenon DEF inference!Created
  <2>2. acc' = inference!EmptyAccumulator /\ calls \in Nat
    BY <1>0, <1>3 DEF inference!Created
  <2> QED BY <1>0, <2>1, <2>2, CallsBegin DEF CallsKept
<1>4. CASE inference!StreamToolCall
  <2>1. PICK call \in 1..provider.calls :
          /\ inference!MaySend(call)
          /\ acc' = inference!Accumulate(acc, inference!DeltaOf(call, provider.sent[call] + 1))
          /\ provider' = [provider EXCEPT !.sent[call] = @ + 1]
    BY <1>4 DEF inference!StreamToolCall
  <2>2. PICK of : Accumulated(acc, provider.style, provider.calls, provider.sent, of)
    BY DEF CallsKept
  <2> DEFINE n == provider.calls
             style == provider.style
             sent == provider.sent
             k == sent[call] + 1
             more == [sent EXCEPT ![call] = k]
  <2>3. /\ n \in Nat /\ style \in inference!Styles /\ sent \in [1..n -> 0..Pieces + 1] /\ call \in 1..n
        /\ sent[call] <= Pieces /\ sent[call] \in 0..Pieces
        /\ style = "id" => \A c \in 1..call - 1 : sent[c] > 0
    BY <1>0, <2>1 DEF CallsKept, inference!MaySend
  <2>4. inference!DeltaOf(call, k) = NextDelta(style, call, k)
    BY Zenon DEF inference!DeltaOf, NextDelta
  <2>5. /\ provider' = [calls |-> n, style |-> style, sent |-> more, finished |-> provider.finished]
        /\ more \in [1..n -> 0..Pieces + 1]
    <3>1. provider = [calls |-> n, style |-> style, sent |-> sent, finished |-> provider.finished]
      BY DEF CallsKept
    <3>2. k \in 0..Pieces + 1
      BY <1>0, <2>3
    <3>3. more \in [1..n -> 0..Pieces + 1]
      <4> HIDE DEF k, n, sent
      <4> QED BY <2>3, <3>2
    <3>4. provider' = [provider EXCEPT !.sent = more]
      BY <2>1, Zenon
    <3> HIDE DEF more, n, style, sent
    <3> QED BY <3>1, <3>3, <3>4
  <2>6. provider.finished => \A c \in 1..n : more[c] >= Pieces
    <3>1. \A c \in 1..n : more[c] >= sent[c] /\ more[c] \in Int /\ sent[c] \in Int
      BY <1>0, <2>3
    <3> HIDE DEF more
    <3> QED BY <1>0, <3>1 DEF CallsKept
  <2>7. \E by : Accumulated(acc', style, n, more, by)
    <3>1. CASE sent[call] = 0
      <4>1. k = 1
        BY <3>1
      <4>2. Accumulated(inference!Accumulate(acc, NextDelta(style, call, 1)), style, n,
                        [sent EXCEPT ![call] = 1], Append(of, call))
        <5> HIDE DEF n, style, sent
        <5> QED BY <1>0, <2>2, <2>3, <3>1, AccumulateNew DEF n, style, sent
      <4> QED BY <2>1, <2>4, <4>1, <4>2
    <3>2. CASE sent[call] > 0
      <4>1. PICK e \in 1..Len(of) : of[e] = call
        BY <2>2, <2>3, <3>2 DEF Accumulated
      <4>2. Accumulated(inference!Accumulate(acc, NextDelta(style, of[e], sent[of[e]] + 1)), style, n,
                        [sent EXCEPT ![of[e]] = sent[of[e]] + 1], of)
        BY <1>0, <2>2, <2>3, <4>1, AccumulateOld
      <4> QED BY <2>1, <2>4, <4>1, <4>2
    <3> QED BY <2>3, <3>1, <3>2
  <2> HIDE DEF more, n, style
  <2>8. /\ provider'.calls = n /\ provider'.style = style /\ provider'.sent = more
        /\ provider'.finished = provider.finished
    BY <2>5
  <2> QED BY <2>3, <2>5, <2>6, <2>7, <2>8 DEF CallsKept
<1>5. CASE inference!StreamFinishes
  <2>1. /\ provider' = [provider EXCEPT !.finished = TRUE] /\ acc' = acc
        /\ \A c \in 1..provider.calls : provider.sent[c] >= Pieces
    BY <1>5 DEF inference!StreamFinishes
  <2>2. /\ provider' = [calls |-> provider.calls, style |-> provider.style, sent |-> provider.sent,
                        finished |-> TRUE]
    BY <2>1 DEF CallsKept
  <2> QED BY <2>1, <2>2 DEF CallsKept
<1>6. CASE inference!CreatedWhole
  <2>1. PICK calls \in IF args.tools THEN 0..MaxCalls ELSE {0} :
          /\ provider' = [calls |-> calls, style |-> "id", sent |-> [c \in 1..calls |-> Pieces],
                          finished |-> TRUE]
          /\ acc' = [inference!EmptyAccumulator EXCEPT
                       !.entries = [c \in 1..calls |->
                         [id |-> <<"id", c>>, index |-> inference!None, name |-> <<c>>,
                          args |-> inference!Whole(c)]],
                       !.byId = {<<<<"id", c>>, c>> : c \in 1..calls}]
    BY <1>6, Zenon DEF inference!CreatedWhole
  <2>2. calls \in Nat /\ "id" \in inference!Styles /\ Pieces \in 0..Pieces + 1
    BY <1>0, <2>1 DEF inference!Styles
  <2> DEFINE sent == [c \in 1..calls |-> Pieces]
  <2>3. Accumulated(acc', "id", calls, sent, [c \in 1..calls |-> c])
    BY <1>0, <2>1, <2>2, WholeAccumulated
  <2>4. sent \in [1..calls -> 0..Pieces + 1] /\ \A c \in 1..calls : sent[c] >= Pieces
    BY <1>0, <2>2
  <2> HIDE DEF sent
  <2>5. /\ provider'.calls = calls /\ provider'.style = "id" /\ provider'.sent = sent
        /\ provider' = [calls |-> calls, style |-> "id", sent |-> sent, finished |-> TRUE]
    BY <2>1 DEF sent
  <2> QED BY <2>2, <2>3, <2>4, <2>5 DEF CallsKept
<1> QED BY <1>2, <1>3, <1>4, <1>5, <1>6 DEF inference!Next

(* The calls that are run are the calls that were answered, for every      *)
(* number of calls and pieces, and however their deltas are marked and     *)
(* mixed.                                                                  *)
THEOREM CallsRunAsSent ==
  ASSUME inference!InferenceAssumption
  PROVE  inference!Spec => []ToolCallsAsSent
<1>1. inference!Init => CallsKept
  BY InitCalls
<1>2. CallsKept /\ [inference!Next]_(inference!vars) => CallsKept'
  <2>1. CASE UNCHANGED inference!vars
    BY <2>1 DEF inference!vars, CallsKept
  <2> QED BY <2>1, CallsKeptHolds
<1>3. CallsKept => inference!ToolCallsAsSent
  <2>1. Pieces \in Nat /\ Pieces > 0
    BY DEF inference!InferenceAssumption
  <2> QED BY <2>1, AssembledAsSent DEF CallsKept, inference!ToolCallsAsSent
<1> QED BY <1>1, <1>2, <1>3, PTL DEF inference!Spec, ToolCallsAsSent

-----------------------------------------------------------------------------
(* PhaseImplementation.  While a stream goes on, the parser is where the   *)
(* answer is, what it completed is what the answer meant so far, and the   *)
(* last file of a name is that or awaits its fixer.  The invariant says    *)
(* nothing of answers that were torn, and of files that were not applied   *)
(* or patched again only that they are there.                              *)

(* What a phase works with.                                                *)
Contents == Seq(Int)
FileObjects == [file : Files, format : phase!Formats, contents : Contents, diff : BOOLEAN]
GeneratedFiles == [file : Files, contents : Contents, fixing : BOOLEAN]
Blocks == [file : Files, format : phase!Formats, lines : Contents]

AnswerShape(a) ==
  /\ DOMAIN a = {"block", "half", "length", "meant", "blocks", "diffs"}
  /\ a.block # phase!None => a.block[1] \in Blocks
  /\ a.half \in BOOLEAN /\ a.length \in Nat /\ a.diffs \subseteq Files
  /\ a.meant \in [Files -> Contents] /\ a.blocks \in [Files -> Nat]

(* The file of the block that is open was not closed, and completedFiles   *)
(* is a map.                                                               *)
ParserShape(p) ==
  /\ DOMAIN p = DOMAIN phase!InitialState
  /\ p.file # phase!None => p.file[1] \in Files /\ p.file[1] \notin p.closed
  /\ p.format \in phase!Formats /\ p.content \in Contents /\ p.completed \in Seq(FileObjects)
  /\ \A i, j \in DOMAIN p.completed : p.completed[i].file = p.completed[j].file => i = j

(* The parser is where the answer is.                                      *)
InStep ==
  /\ parser.partial = begun
  /\ begun # phase!None => stage = "streaming" /\ begun[1] \in phase!NextLines
  /\ parser.file = phase!None <=> answer.block = phase!None
  /\ parser.file # phase!None =>
       LET block == answer.block[1]
       IN parser.file[1] = block.file /\ parser.format = block.format /\ parser.content = block.lines
  /\ answer.half => parser.half

(* Files about which SavedAsAnswered says something.                       *)
Plain(f) == f \in Files /\ f \notin unapplied /\ ~phase!PatchedAgain(f)

(* What the parser completed is what was meant.                            *)
CompletedRight ==
  \A f \in Files :
    /\ answer.blocks[f] > 0 <=> phase!Completed(parser, f) # {}
    /\ Plain(f) => \A i \in phase!Completed(parser, f) :
                     phase!ProcessGenerated(parser.completed[i], TRUE) = answer.meant[f]

(* The last file of a name will be saved; a fixer may still add to it.     *)
Right(generated, meant) ==
  \/ generated.contents = meant
  \/ ~generated.fixing /\ generated.contents = Append(meant, phase!Fixed)

Latest(i, f) == files[i].file = f /\ \A j \in DOMAIN files : files[j].file = f => j <= i

FilesRight ==
  \A f \in Files :
    /\ answer.blocks[f] > 0 <=> \E i \in DOMAIN files : files[i].file = f
    /\ answer.blocks[f] > 0 =>
         \E i \in DOMAIN files : Latest(i, f) /\ (Plain(f) => Right(files[i], answer.meant[f]))

PhaseInv == ~torn =>
  /\ original \in [Files -> Contents] /\ AnswerShape(answer)
  /\ \A f \in Files : answer.blocks[f] = 0 => answer.meant[f] = original[f]
  /\ stage \in {"streaming", "whole"} => ParserShape(parser) /\ InStep /\ CompletedRight
  /\ stage \in {"streaming", "fixing"} => files \in Seq(GeneratedFiles) /\ FilesRight
  /\ stage = "whole" => files = << >>
  /\ stage \in {"streaming", "whole", "fixing"} => saved = original
  /\ phase!SavedAsAnswered

LEMMA Singles == \A x : <<x>> # phase!None /\ <<x>>[1] = x
BY DEF phase!None

LEMMA ObjectShape ==
  ASSUME NEW p, ParserShape(p), p.file # phase!None, NEW applies \in BOOLEAN
  PROVE  /\ phase!FileObject(p, applies) \in FileObjects
         /\ phase!FileObject(p, applies).file = p.file[1] /\ phase!FileObject(p, applies).format = p.format
         /\ p.format = "full_content" => phase!FileObject(p, applies).contents = p.content
         /\ p.format = "unified_diff" /\ phase!Completed(p, p.file[1]) = {} =>
              phase!FileObject(p, applies).contents = p.content /\ phase!FileObject(p, applies).diff
<1> DEFINE file == p.file[1]
           known == {i \in phase!Completed(p, file) : p.completed[i].contents # << >>}
           applied == p.format = "unified_diff" /\ known # {} /\ applies
           existing == p.completed[CHOOSE i \in known : TRUE]
           o == phase!FileObject(p, applies)
<1>1. o = [file |-> file, format |-> p.format,
           contents |-> IF applied THEN existing.contents \o p.content ELSE p.content,
           diff |-> p.format = "unified_diff" /\ (applied => existing.diff)]
  BY DEF phase!FileObject
<1>2. ASSUME applied PROVE existing \in FileObjects
  <2> DEFINE i == CHOOSE i \in known : TRUE
  <2>1. i \in DOMAIN p.completed
    BY <1>2 DEF phase!Completed
  <2>2. \A j \in DOMAIN p.completed : p.completed[j] \in FileObjects
    BY DEF ParserShape
  <2> HIDE DEF i
  <2>3. p.completed[i] \in FileObjects
    BY <2>1, <2>2
  <2> QED BY <2>3 DEF i
<1>3. p.format \in phase!Formats /\ p.content \in Contents /\ file \in Files
  BY DEF ParserShape
<1> HIDE DEF existing
<1>4. (IF applied THEN existing.contents \o p.content ELSE p.content) \in Contents
  BY <1>2, <1>3 DEF FileObjects, Contents
<1>5. o \in FileObjects
  BY <1>1, <1>2, <1>3, <1>4 DEF FileObjects
<1>6. o.file = file /\ o.format = p.format
  BY <1>1
<1>7. p.format = "full_content" \/ phase!Completed(p, file) = {} => ~applied
  OBVIOUS
<1> HIDE DEF applied
<1>8. ASSUME ~applied PROVE o.contents = p.content
  BY <1>1, <1>8
<1>9. ASSUME ~applied, p.format = "unified_diff" PROVE o.diff
  <2>1. o.diff = (p.format = "unified_diff" /\ (applied => existing.diff))
    BY <1>1
  <2> QED BY <1>9, <2>1, Zenon
<1> HIDE DEF o
<1> QED BY <1>5, <1>6, <1>7, <1>8, <1>9 DEF o

(* What finalizeCurrentFile does.                                          *)
LEMMA Finalized ==
  ASSUME NEW p, ParserShape(p), p.file # phase!None, NEW applies \in BOOLEAN,
         NEW o, o = phase!FileObject(p, applies), NEW r, r = phase!FinalizeCurrentFile(p, applies)
  PROVE  /\ ParserShape(r) /\ r.file = phase!None /\ r.partial = p.partial /\ r.half = p.half
         /\ r.callback = <<"close", p.file[1]>>
         /\ phase!Completed(r, p.file[1]) # {}
         /\ \A i \in phase!Completed(r, p.file[1]) : r.completed[i] = o
         /\ \A f \in Files \ {p.file[1]} :
              /\ phase!Completed(r, f) = phase!Completed(p, f)
              /\ \A i \in phase!Completed(r, f) : r.completed[i] = p.completed[i]
<1> DEFINE completed == IF phase!Completed(p, o.file) = {} THEN Append(p.completed, o)
                        ELSE [i \in DOMAIN p.completed |->
                                IF p.completed[i].file = o.file THEN o ELSE p.completed[i]]
<1>1. o \in FileObjects /\ o.file = p.file[1]
  BY ObjectShape
<1>2. /\ p.completed \in Seq(FileObjects) /\ p.file[1] \notin p.closed
      /\ DOMAIN p = DOMAIN phase!InitialState /\ p.format \in phase!Formats
      /\ \A i, j \in DOMAIN p.completed : p.completed[i].file = p.completed[j].file => i = j
  BY DEF ParserShape
<1>3. /\ DOMAIN r = DOMAIN phase!InitialState /\ r.file = phase!None /\ r.partial = p.partial /\ r.half = p.half
      /\ r.callback = <<"close", p.file[1]>> /\ r.content = << >> /\ r.format = p.format
      /\ r.completed = completed
  BY <1>1, <1>2 DEF phase!FinalizeCurrentFile, phase!InitialState
<1> HIDE DEF completed
<1>4. CASE phase!Completed(p, o.file) = {}
  <2> DEFINE n == Len(p.completed)
  <2>1. /\ n \in Nat /\ DOMAIN p.completed = 1..n
        /\ completed = Append(p.completed, o) /\ completed \in Seq(FileObjects)
        /\ DOMAIN completed = 1..(n + 1) /\ completed[n + 1] = o
        /\ \A i \in 1..n : completed[i] = p.completed[i] /\ completed[i].file # o.file
    BY <1>1, <1>2, <1>4 DEF completed, phase!Completed
  <2> HIDE DEF n
  <2>2. \A i \in DOMAIN completed : (i \in 1..n /\ completed[i] = p.completed[i]) \/ i = n + 1
    BY <2>1
  <2>3. \A i, j \in DOMAIN completed : completed[i].file = completed[j].file => i = j
    BY <1>2, <2>1, <2>2
  <2>4. ParserShape(r)
    BY <1>2, <1>3, <2>1, <2>3 DEF ParserShape, Contents
  <2>5. phase!Completed(r, o.file) = {n + 1}
    BY <1>3, <2>1, <2>2 DEF phase!Completed
  <2>6. ASSUME NEW f \in Files \ {o.file}
        PROVE  /\ phase!Completed(r, f) = phase!Completed(p, f)
               /\ \A i \in phase!Completed(r, f) : r.completed[i] = p.completed[i]
    BY <1>3, <2>1, <2>2 DEF phase!Completed
  <2> QED BY <1>1, <1>3, <2>1, <2>4, <2>5, <2>6
<1>5. CASE phase!Completed(p, o.file) # {}
  <2>1. /\ completed = [i \in DOMAIN p.completed |->
                          IF p.completed[i].file = o.file THEN o ELSE p.completed[i]]
    BY <1>5 DEF completed
  <2>2. /\ DOMAIN completed = DOMAIN p.completed
        /\ \A i \in DOMAIN completed : completed[i].file = p.completed[i].file
        /\ \A i \in DOMAIN completed : completed[i] =
              IF p.completed[i].file = o.file THEN o ELSE p.completed[i]
    BY <2>1
  <2>3. completed \in Seq(FileObjects)
    BY <1>1, <1>2, <2>1
  <2>4. ParserShape(r)
    BY <1>2, <1>3, <2>2, <2>3 DEF ParserShape, Contents
  <2>5. \A f : phase!Completed(r, f) = phase!Completed(p, f)
    BY <1>3, <2>2 DEF phase!Completed
  <2>6. /\ \A i \in phase!Completed(r, o.file) : r.completed[i] = o
        /\ \A f \in Files \ {o.file} : \A i \in phase!Completed(r, f) : r.completed[i] = p.completed[i]
    BY <1>3, <2>2 DEF phase!Completed
  <2> QED BY <1>1, <1>3, <1>5, <2>4, <2>5, <2>6
<1> QED BY <1>4, <1>5

(* Parts and callbacks are of no matter to the shape.                      *)
LEMMA Cleared ==
  ASSUME NEW p, ParserShape(p), NEW q,
         \/ q = [p EXCEPT !.partial = phase!None] \/ q = [p EXCEPT !.callback = phase!None]
         \/ q = [p EXCEPT !.partial = phase!None, !.callback = phase!None]
         \/ \E kept : q = [p EXCEPT !.partial = kept, !.callback = phase!None]
         \/ \E between, more : q = [p EXCEPT !.between = between, !.commands = more]
  PROVE  /\ ParserShape(q) /\ q.file = p.file /\ q.format = p.format /\ q.content = p.content
         /\ q.completed = p.completed /\ q.closed = p.closed
<1>1. /\ DOMAIN q = DOMAIN p /\ q.file = p.file /\ q.format = p.format
      /\ q.content = p.content /\ q.completed = p.completed /\ q.closed = p.closed
  BY DEF ParserShape, phase!InitialState
<1> QED BY <1>1 DEF ParserShape

LEMMA ContentTaken ==
  ASSUME NEW p, ParserShape(p), p.file # phase!None, NEW line, line.kind # "marker",
         NEW n \in Nat, NEW applies \in BOOLEAN, NEW r, r = phase!ProcessLine(p, line, n, applies)
  PROVE  /\ ParserShape(r) /\ r.file = p.file /\ r.format = p.format /\ r.half = p.half
         /\ r.partial = p.partial /\ r.completed = p.completed /\ r.callback = phase!None
         /\ r.content = IF line.kind = "blank" THEN p.content ELSE Append(p.content, n)
<1> DEFINE q == [p EXCEPT !.callback = phase!None]
<1>1. r = IF line.kind = "blank" THEN q ELSE [q EXCEPT !.content = Append(@, n)]
  BY DEF phase!ProcessLine, phase!AddContentLine
<1>2. /\ DOMAIN q = DOMAIN phase!InitialState /\ q.file = p.file /\ q.format = p.format
      /\ q.content = p.content /\ q.completed = p.completed /\ q.closed = p.closed
      /\ q.partial = p.partial /\ q.half = p.half /\ q.callback = phase!None
  BY DEF ParserShape, phase!InitialState
<1>3. ParserShape(q)
  BY Cleared
<1> HIDE DEF q
<1>4. CASE line.kind = "blank"
  BY <1>1, <1>2, <1>3, <1>4
<1>5. CASE line.kind # "blank"
  <2>1. /\ DOMAIN r = DOMAIN phase!InitialState /\ r.file = p.file /\ r.format = p.format
        /\ r.content = Append(p.content, n) /\ r.completed = p.completed /\ r.closed = p.closed
        /\ r.partial = p.partial /\ r.half = p.half /\ r.callback = phase!None
    BY <1>1, <1>2, <1>5 DEF phase!InitialState
  <2>2. Append(p.content, n) \in Contents
    BY DEF ParserShape, Contents
  <2> QED BY <1>5, <2>1, <2>2 DEF ParserShape
<1> QED BY <1>4, <1>5

Opens(p, line) == line.kind = "command" \/ (line.kind = "rest" /\ p.half)

(* The lines outside of blocks.                                            *)
Outside(line) ==
  /\ line.kind \in {"command", "rest", "half", "install", "text", "blank"}
  /\ line.kind \in {"command", "rest"} => line.file \in Files /\ line.format \in phase!Formats

LEMMA OutsideTaken ==
  ASSUME NEW p, ParserShape(p), p.file = phase!None, NEW line, NEW n \in Nat, NEW applies \in BOOLEAN,
         Outside(line),
         NEW r, r = phase!ProcessLine(p, line, n, applies)
  PROVE  /\ ParserShape(r) /\ r.partial = p.partial /\ r.completed = p.completed
         /\ r.callback = phase!None \/ r.callback[1] = "open"
         /\ Opens(p, line) => r.file = <<line.file>> /\ r.format = line.format /\ r.content = << >>
         /\ ~Opens(p, line) => r.file = phase!None
         /\ line.kind = "half" => r.half
         /\ line.kind = "blank" => r.half = p.half
<1> USE DEF Outside
<1> DEFINE q == [p EXCEPT !.callback = phase!None]
           b == phase!ProcessBetween(q)
<1>1. r = IF line.kind = "blank" THEN q ELSE phase!ProcessOutside(q, line)
  BY DEF phase!ProcessLine
<1>2. /\ DOMAIN q = DOMAIN phase!InitialState /\ q.file = p.file /\ q.format = p.format
      /\ q.content = p.content /\ q.completed = p.completed /\ q.closed = p.closed
      /\ q.partial = p.partial /\ q.half = p.half /\ q.callback = phase!None /\ ParserShape(q)
  <2>1. ParserShape(q)
    BY Cleared
  <2> QED BY <2>1 DEF ParserShape, phase!InitialState
<1> HIDE DEF q
<1>3. PICK between, install : b = [q EXCEPT !.between = between, !.commands = install]
  <2>1. b = [q EXCEPT !.commands = @ \o SelectSeq(q.between, LAMBDA c : ~phase!Contains(q.commands, c)),
                      !.between = << >>]
    BY DEF phase!ProcessBetween
  <2> DEFINE more == q.commands \o SelectSeq(q.between, LAMBDA c : ~phase!Contains(q.commands, c))
  <2>2. b = [q EXCEPT !.commands = more, !.between = << >>]
    BY <2>1
  <2> HIDE DEF more, b
  <2>3. b = [q EXCEPT !.between = << >>, !.commands = more]
    BY <1>2, <2>2 DEF phase!InitialState
  <2> QED BY <2>3
<1>4. /\ DOMAIN b = DOMAIN phase!InitialState /\ b.file = p.file /\ b.format = p.format
      /\ b.content = p.content /\ b.completed = p.completed /\ b.closed = p.closed
      /\ b.partial = p.partial /\ b.half = p.half /\ b.callback = phase!None /\ ParserShape(b)
  <2>1. ParserShape(b)
    <3> HIDE DEF b
    <3> QED BY <1>2, <1>3, Cleared
  <2> HIDE DEF b
  <2> QED BY <1>2, <1>3, <2>1 DEF phase!InitialState
<1>5. CASE line.kind = "blank"
  BY <1>1, <1>2, <1>5 DEF Opens
<1>6. CASE Opens(p, line)
  <2>1. r = phase!HandleCommand(b, line)
    BY <1>1, <1>2, <1>6 DEF Opens, phase!ProcessOutside
  <2> HIDE DEF b
  <2>2. /\ DOMAIN r = DOMAIN phase!InitialState /\ r.file = <<line.file>> /\ r.format = line.format
        /\ r.content = << >> /\ r.completed = p.completed /\ r.closed = p.closed \ {line.file}
        /\ r.partial = p.partial
        /\ r.callback = IF line.file \in b.opened THEN phase!None ELSE <<"open", line.file>>
    BY <1>4, <2>1 DEF phase!HandleCommand, phase!InitialState
  <2>3. line.file \in Files /\ line.format \in phase!Formats
    BY <1>6 DEF Opens
  <2>4. ParserShape(r)
    BY <1>4, <2>2, <2>3, Singles DEF ParserShape, Contents
  <2> QED BY <1>6, <2>2, <2>4 DEF Opens
<1>7. CASE ~Opens(p, line) /\ line.kind # "blank"
  <2>1. \/ line.kind # "half" /\ r = b
        \/ line.kind = "half" /\ r = [b EXCEPT !.half = TRUE]
        \/ line.kind = "install" /\ r = [b EXCEPT !.between = <<line.number>>]
    BY <1>1, <1>2, <1>7 DEF Opens, phase!ProcessOutside
  <2> HIDE DEF b
  <2>2. /\ DOMAIN r = DOMAIN phase!InitialState /\ r.file = b.file /\ r.format = b.format
        /\ r.content = b.content /\ r.completed = b.completed /\ r.closed = b.closed
        /\ r.partial = b.partial /\ r.callback = b.callback /\ (line.kind = "half" => r.half)
    BY <1>4, <2>1 DEF phase!InitialState
  <2>3. ParserShape(r)
    BY <1>4, <2>2 DEF ParserShape
  <2> QED BY <1>4, <1>7, <2>2, <2>3
<1> QED BY <1>5, <1>6, <1>7

(* What a line is for the answer.                                          *)
LEMMA BlockAnswered ==
  ASSUME AnswerShape(answer), answer.block # phase!None, NEW line, line.kind = "marker", phase!Answered(line)
  PROVE  LET block == answer.block[1]
         IN /\ AnswerShape(answer') /\ answer'.block = phase!None /\ ~answer'.half
            /\ answer'.meant = [answer.meant EXCEPT ![block.file] = phase!Taken(@, block)]
            /\ answer'.blocks = [answer.blocks EXCEPT ![block.file] = @ + 1]
            /\ answer'.diffs = IF block.format = "unified_diff"
                                 THEN answer.diffs \cup {block.file} ELSE answer.diffs
<1> DEFINE block == answer.block[1]
           half == ~(answer.block # phase!None)
                     /\ (line.kind = "half" \/ (answer.half /\ line.kind = "blank"))
           meant == [answer.meant EXCEPT ![block.file] = phase!Taken(@, block)]
           blocks == [answer.blocks EXCEPT ![block.file] = @ + 1]
           diffs == IF block.format = "unified_diff"
                      THEN answer.diffs \cup {block.file} ELSE answer.diffs
           closes == answer.block # phase!None /\ line.kind = "marker"
           next == IF closes THEN phase!None
                   ELSE IF ~(answer.block # phase!None) /\ line.kind \in {"command", "rest"}
                     THEN <<[file |-> line.file, format |-> line.format, lines |-> << >>]>>
                   ELSE IF answer.block # phase!None /\ line.kind # "blank"
                     THEN <<[block EXCEPT !.lines = Append(@, phase!Number)]>> ELSE answer.block
<1>1. answer' = [answer EXCEPT
        !.length = @ + 1, !.half = half,
        !.meant = IF closes THEN meant ELSE @,
        !.blocks = IF closes THEN blocks ELSE @,
        !.diffs = IF closes /\ block.format = "unified_diff"
                    THEN answer.diffs \cup {block.file} ELSE @,
        !.block = next]
  BY Zenon DEF phase!Answered
<1>2. block.file \in Files /\ block.lines \in Contents
  BY DEF AnswerShape, Blocks
<1>3. meant \in [Files -> Contents] /\ blocks \in [Files -> Nat] /\ diffs \subseteq Files
  <2>1. \A c \in Contents : phase!Taken(c, block) \in Contents
    BY <1>2 DEF phase!Taken, Contents
  <2> HIDE DEF block
  <2> QED BY <1>2, <2>1 DEF AnswerShape
<1>4. half = FALSE /\ closes /\ next = phase!None
  OBVIOUS
<1> HIDE DEF half, meant, blocks, closes, next
<1>5. /\ DOMAIN answer' = DOMAIN answer /\ answer'.length = answer.length + 1
      /\ answer'.block = phase!None /\ answer'.half = half /\ answer'.meant = meant
      /\ answer'.blocks = blocks /\ answer'.diffs = diffs
  BY <1>1, <1>4 DEF AnswerShape
<1> HIDE DEF diffs
<1>6. AnswerShape(answer')
  <2>1. answer'.half \in BOOLEAN
    BY <1>4, <1>5
  <2>2. answer'.length \in Nat
    BY <1>5 DEF AnswerShape
  <2> QED BY <1>3, <1>5, <2>1, <2>2 DEF AnswerShape
<1>7. answer'.half = FALSE
  BY <1>4, <1>5
<1> QED BY <1>5, <1>6, <1>7 DEF meant, blocks, diffs

(* The lines that may come.                                                *)
LEMMA LinesThatMayCome ==
  ASSUME AnswerShape(answer), NEW line \in phase!NextLines
  PROVE  /\ answer.block = phase!None =>
              Outside(line) /\ (line.kind = "rest" => answer.half)
         /\ phase!Number \in Nat
<1> USE DEF Outside
<1>1. CASE answer.block = phase!None /\ answer.half
  <2>1. line = phase!Blank \/ \E f \in Files : line = phase!RestOfCommand(f, "full_content")
    BY <1>1 DEF phase!NextLines
  <2> QED BY <1>1, <2>1 DEF phase!Blank, phase!RestOfCommand, phase!Formats, AnswerShape, phase!Number
<1>2. CASE answer.block = phase!None /\ ~answer.half
  <2>1. \/ line = phase!Text(phase!Number) \/ line = phase!Install(phase!Number)
        \/ line = phase!Blank \/ line = phase!HalfCommand
        \/ \E f \in Files, format \in phase!Formats : line = phase!Command(f, format)
    BY <1>2 DEF phase!NextLines
  <2>2. \/ line.kind \in {"text", "install", "blank", "half"}
        \/ line.kind = "command" /\ line.file \in Files /\ line.format \in phase!Formats
    BY <2>1 DEF phase!Text, phase!Install, phase!Blank, phase!HalfCommand, phase!Command
  <2> QED BY <1>2, <2>2 DEF AnswerShape, phase!Number
<1>3. CASE answer.block # phase!None
  BY <1>3 DEF AnswerShape, phase!Number
<1> QED BY <1>1, <1>2, <1>3 DEF AnswerShape

LEMMA LineAnswered ==
  ASSUME AnswerShape(answer), NEW line \in phase!NextLines, phase!Answered(line),
         answer.block = phase!None \/ line.kind # "marker"
  PROVE  /\ AnswerShape(answer') /\ answer'.meant = answer.meant
         /\ answer'.blocks = answer.blocks /\ answer'.diffs = answer.diffs
         /\ answer.block # phase!None =>
              /\ ~answer'.half
              /\ answer'.block = IF line.kind = "blank" THEN answer.block
                   ELSE <<[answer.block[1] EXCEPT !.lines = Append(@, phase!Number)]>>
         /\ answer.block = phase!None =>
              /\ answer'.half => line.kind = "half" \/ (answer.half /\ line.kind = "blank")
              /\ answer'.block = IF line.kind \in {"command", "rest"}
                   THEN <<[file |-> line.file, format |-> line.format, lines |-> << >>]>>
                   ELSE phase!None
<1> DEFINE half == answer.block = phase!None
                     /\ (line.kind = "half" \/ (answer.half /\ line.kind = "blank"))
           added == <<[answer.block[1] EXCEPT !.lines = Append(@, phase!Number)]>>
           empty == <<[file |-> line.file, format |-> line.format, lines |-> << >>]>>
           block == IF answer.block # phase!None
                      THEN IF line.kind = "blank" THEN answer.block ELSE added
                    ELSE IF line.kind \in {"command", "rest"} THEN empty ELSE phase!None
<1>1. answer' = [answer EXCEPT !.length = @ + 1, !.half = half, !.meant = @, !.blocks = @,
                               !.diffs = @, !.block = block]
  BY DEF phase!Answered
<1>2. half \in BOOLEAN
  OBVIOUS
<1>3. block # phase!None => block[1] \in Blocks
  <2>1. answer.block # phase!None => added[1] \in Blocks
    <3>1. answer.block # phase!None => answer.block[1] \in Blocks
      BY DEF AnswerShape
    <3>2. phase!Number \in Nat
      BY DEF AnswerShape, phase!Number
    <3>3. ASSUME answer.block # phase!None PROVE Append(answer.block[1].lines, phase!Number) \in Contents
      BY <3>1, <3>2, <3>3 DEF Blocks, Contents
    <3> QED BY <3>1, <3>3 DEF Blocks
  <2>2. answer.block = phase!None /\ line.kind \in {"command", "rest"} => empty[1] \in Blocks
    BY LinesThatMayCome DEF Blocks, Contents, Outside
  <2> HIDE DEF added, empty
  <2> QED BY <2>1, <2>2 DEF AnswerShape
<1> HIDE DEF half, block
<1>4. /\ DOMAIN answer' = DOMAIN answer /\ answer'.length = answer.length + 1
      /\ answer'.meant = answer.meant /\ answer'.blocks = answer.blocks
      /\ answer'.diffs = answer.diffs /\ answer'.half = half /\ answer'.block = block
  BY <1>1 DEF AnswerShape
<1>5. AnswerShape(answer')
  BY <1>2, <1>3, <1>4 DEF AnswerShape
<1>6. answer'.half => half
  BY <1>4
<1> QED BY <1>4, <1>5, <1>6 DEF half, block

(* The line makes the parser close a file, and the answer its block.       *)
Closed(line, inAnswer, inFile, long) ==
  LET o == phase!FileObject([parser EXCEPT !.partial = phase!None, !.callback = phase!None], inAnswer)
  IN /\ parser' = phase!FinalizeCurrentFile([parser EXCEPT !.partial = phase!None, !.callback = phase!None], inAnswer)
     /\ files' = IF stage = "streaming" THEN Append(files, phase!GeneratedFile(o, inFile, long)) ELSE files
     /\ unapplied' = IF inAnswer /\ inFile THEN unapplied ELSE unapplied \cup {parser.file[1]}

LEMMA FileAppended ==
  ASSUME files \in Seq(GeneratedFiles), NEW g \in GeneratedFiles, files' = Append(files, g),
         NEW n, n = Len(files) + 1
  PROVE  /\ files' \in Seq(GeneratedFiles) /\ n \in DOMAIN files' /\ files'[n] = g
         /\ Latest(n, g.file)'
         /\ \A f \in Files \ {g.file} :
              /\ (\E i \in DOMAIN files' : files'[i].file = f)
                   <=> (\E i \in DOMAIN files : files[i].file = f)
              /\ \A i \in DOMAIN files :
                   Latest(i, f) => i \in DOMAIN files' /\ Latest(i, f)' /\ files'[i] = files[i]
<1>1. /\ n \in Nat /\ DOMAIN files' = 1..n /\ files' \in Seq(GeneratedFiles) /\ files'[n] = g
      /\ \A i \in DOMAIN files : i \in DOMAIN files' /\ files'[i] = files[i]
      /\ \A i \in DOMAIN files' : i \in DOMAIN files \/ i = n
  OBVIOUS
<1>2. n \in DOMAIN files' /\ \A i \in DOMAIN files' : i <= n
  BY <1>1
<1>3. Latest(n, g.file)'
  BY <1>1, <1>2 DEF Latest
<1>4. ASSUME NEW f \in Files \ {g.file}
      PROVE  /\ (\E i \in DOMAIN files' : files'[i].file = f)
                  <=> (\E i \in DOMAIN files : files[i].file = f)
             /\ \A i \in DOMAIN files :
                  Latest(i, f) => i \in DOMAIN files' /\ Latest(i, f)' /\ files'[i] = files[i]
  BY <1>1, Zenon DEF Latest
<1> QED BY <1>1, <1>2, <1>3, <1>4

LEMMA ClosedHolds ==
  ASSUME PhaseInv, ~torn, stage \in {"streaming", "whole"}, parser.file # phase!None,
         NEW file, file = parser.file[1], NEW line, line.kind = "marker", phase!Answered(line),
         NEW inAnswer \in BOOLEAN, NEW inFile \in BOOLEAN, NEW long \in BOOLEAN,
         parser.format = "unified_diff" \/ (inAnswer /\ inFile),
         Closed(line, inAnswer, inFile, long), begun' = phase!None, UNCHANGED <<stage, original, saved>>
  PROVE  PhaseInv'
<1> DEFINE p == [parser EXCEPT !.partial = phase!None, !.callback = phase!None]
           o == phase!FileObject(p, inAnswer)
           block == answer.block[1]
           g == phase!GeneratedFile(o, inFile, long)
<1>1. /\ original \in [Files -> Contents] /\ AnswerShape(answer)
      /\ \A f \in Files : answer.blocks[f] = 0 => answer.meant[f] = original[f]
      /\ ParserShape(parser) /\ InStep /\ CompletedRight /\ saved = original
      /\ stage = "streaming" => files \in Seq(GeneratedFiles) /\ FilesRight
      /\ stage = "whole" => files = << >>
  BY DEF PhaseInv
<1>2. /\ file = block.file /\ parser.format = block.format /\ parser.content = block.lines
      /\ answer.block # phase!None /\ file \in Files
  BY <1>1 DEF InStep, ParserShape
<1>3. /\ ParserShape(p) /\ p.file = parser.file /\ p.format = parser.format
      /\ p.content = parser.content /\ p.completed = parser.completed /\ p.partial = phase!None
  <2>1. /\ ParserShape(p) /\ p.file = parser.file /\ p.format = parser.format
        /\ p.content = parser.content /\ p.completed = parser.completed
    BY <1>1, Cleared
  <2>2. p.partial = phase!None
    BY <1>1 DEF ParserShape, phase!InitialState
  <2> QED BY <2>1, <2>2
<1>4. /\ parser' = phase!FinalizeCurrentFile(p, inAnswer)
      /\ files' = IF stage = "streaming" THEN Append(files, g) ELSE files
      /\ unapplied' = IF inAnswer /\ inFile THEN unapplied ELSE unapplied \cup {file}
  BY DEF Closed
<1> HIDE DEF p, o
<1>5. /\ o \in FileObjects /\ o.file = file /\ o.format = parser.format
      /\ parser.format = "full_content" => o.contents = parser.content
      /\ parser.format = "unified_diff" /\ phase!Completed(parser, file) = {} =>
           o.contents = parser.content /\ o.diff
  BY <1>3, ObjectShape DEF o, phase!Completed
<1>6. /\ ParserShape(parser') /\ parser'.file = phase!None /\ parser'.partial = phase!None
      /\ phase!Completed(parser', file) # {}
      /\ \A i \in phase!Completed(parser', file) : parser'.completed[i] = o
      /\ \A f \in Files \ {file} :
           /\ phase!Completed(parser', f) = phase!Completed(parser, f)
           /\ \A i \in phase!Completed(parser', f) : parser'.completed[i] = parser.completed[i]
  <2>1. \A f : phase!Completed(p, f) = phase!Completed(parser, f)
    BY <1>3 DEF phase!Completed
  <2>2. p.file # phase!None /\ p.file[1] = file
    BY <1>3
  <2>3. o = phase!FileObject(p, inAnswer)
    BY DEF o
  <2> QED BY <1>3, <1>4, <2>1, <2>2, <2>3, Finalized
<1>7. /\ AnswerShape(answer') /\ answer'.block = phase!None /\ ~answer'.half
      /\ answer'.meant = [answer.meant EXCEPT ![file] = phase!Taken(@, block)]
      /\ answer'.blocks = [answer.blocks EXCEPT ![file] = @ + 1]
      /\ answer'.diffs = IF block.format = "unified_diff"
                           THEN answer.diffs \cup {file} ELSE answer.diffs
  BY <1>1, <1>2, BlockAnswered
<1> HIDE DEF block
<1>8. /\ answer.blocks[file] \in Nat /\ answer'.blocks[file] = answer.blocks[file] + 1
      /\ answer'.meant[file] = phase!Taken(answer.meant[file], block)
      /\ \A f \in Files \ {file} :
           answer'.blocks[f] = answer.blocks[f] /\ answer'.meant[f] = answer.meant[f]
  BY <1>1, <1>2, <1>7 DEF AnswerShape
<1>9. ASSUME NEW f \in Files, f # file, Plain(f)' PROVE Plain(f)
  BY <1>4, <1>7, <1>8, <1>9 DEF Plain, phase!PatchedAgain
<1>10. Plain(file)' => inAnswer /\ inFile
  BY <1>4, Zenon DEF Plain
<1>11. Plain(file)' => phase!ProcessGenerated(o, TRUE) = answer'.meant[file]
  <2> SUFFICES ASSUME Plain(file)' PROVE phase!ProcessGenerated(o, TRUE) = answer'.meant[file]
    OBVIOUS
  <2>1. CASE parser.format = "full_content"
    BY <1>2, <1>5, <1>8, <2>1 DEF phase!ProcessGenerated, phase!Taken
  <2>2. CASE parser.format = "unified_diff"
    <3>1. answer.blocks[file] = 0
      BY <1>2, <1>7, <1>8, <2>2 DEF Plain, phase!PatchedAgain
    <3>2. ~(answer.blocks[file] > 0)
      BY <3>1
    <3>3. phase!Completed(parser, file) = {} /\ answer.meant[file] = original[file]
      BY <1>1, <1>2, <3>1, <3>2 DEF CompletedRight
    <3> QED BY <1>2, <1>5, <1>8, <2>2, <3>3 DEF phase!ProcessGenerated, phase!Taken
  <2> QED BY <1>1, <2>1, <2>2 DEF ParserShape, phase!Formats
<1>12. \A object, found : phase!ProcessGenerated(object, found)' = phase!ProcessGenerated(object, found)
  BY DEF phase!ProcessGenerated
<1>13. CompletedRight'
  <2>1. ASSUME NEW f \in Files
        PROVE  /\ answer'.blocks[f] > 0 <=> phase!Completed(parser', f) # {}
               /\ Plain(f)' => \A i \in phase!Completed(parser', f) :
                                 phase!ProcessGenerated(parser'.completed[i], TRUE) = answer'.meant[f]
    <3>1. CASE f = file
      <4>1. answer'.blocks[f] > 0
        BY <1>8, <3>1
      <4> QED BY <1>6, <1>11, <3>1, <4>1
    <3>2. CASE f # file
      <4>1. /\ answer.blocks[f] > 0 <=> phase!Completed(parser, f) # {}
            /\ Plain(f) => \A i \in phase!Completed(parser, f) :
                             phase!ProcessGenerated(parser.completed[i], TRUE) = answer.meant[f]
        BY <1>1 DEF CompletedRight
      <4>2. answer'.blocks[f] = answer.blocks[f] /\ answer'.meant[f] = answer.meant[f]
        BY <1>8, <3>2
      <4>3. /\ phase!Completed(parser', f) = phase!Completed(parser, f)
            /\ \A i \in phase!Completed(parser', f) : parser'.completed[i] = parser.completed[i]
        BY <1>6, <3>2
      <4>4. Plain(f)' => Plain(f)
        BY <1>9, <3>2
      <4> QED BY <4>1, <4>2, <4>3, <4>4
    <3> QED BY <3>1, <3>2
  <2> QED BY <1>12, <2>1 DEF CompletedRight
<1>14. InStep'
  BY <1>6, <1>7 DEF InStep
<1>15. stage = "streaming" => files' \in Seq(GeneratedFiles) /\ FilesRight'
  <2> SUFFICES ASSUME stage = "streaming" PROVE files' \in Seq(GeneratedFiles) /\ FilesRight'
    OBVIOUS
  <2> SUFFICES ASSUME NEW n, n = Len(files) + 1 PROVE files' \in Seq(GeneratedFiles) /\ FilesRight'
    OBVIOUS
  <2>1. /\ g \in GeneratedFiles /\ g.file = file /\ g.contents = phase!ProcessGenerated(o, inFile)
    <3>1. phase!ProcessGenerated(o, inFile) \in Contents
      BY <1>1, <1>2, <1>5 DEF phase!ProcessGenerated, FileObjects, Contents
    <3> QED BY <1>2, <1>5, <3>1 DEF phase!GeneratedFile, GeneratedFiles
  <2> HIDE DEF g
  <2>2. /\ files' \in Seq(GeneratedFiles) /\ n \in DOMAIN files' /\ files'[n] = g /\ Latest(n, file)'
        /\ \A f \in Files \ {file} :
             /\ (\E i \in DOMAIN files' : files'[i].file = f)
                  <=> (\E i \in DOMAIN files : files[i].file = f)
             /\ \A i \in DOMAIN files :
                  Latest(i, f) => i \in DOMAIN files' /\ Latest(i, f)' /\ files'[i] = files[i]
    BY <1>1, <1>4, <2>1, FileAppended
  <2>3. ASSUME NEW f \in Files
        PROVE  /\ answer'.blocks[f] > 0 <=> \E i \in DOMAIN files' : files'[i].file = f
               /\ answer'.blocks[f] > 0 => \E i \in DOMAIN files' :
                    Latest(i, f)' /\ (Plain(f)' => Right(files'[i], answer'.meant[f]))
    <3>1. CASE f = file
      <4>1. answer'.blocks[f] > 0 /\ files'[n].file = f /\ Latest(n, f)'
        BY <1>8, <2>1, <2>2, <3>1
      <4>2. Plain(f)' => files'[n].contents = answer'.meant[f]
        BY <1>10, <1>11, <2>1, <2>2, <3>1
      <4>3. Plain(f)' => Right(files'[n], answer'.meant[f])
        BY <4>2 DEF Right
      <4> QED BY <2>2, <4>1, <4>3
    <3>2. CASE f # file
      BY <1>1, <1>8, <1>9, <2>2, <3>2 DEF FilesRight
    <3> QED BY <3>1, <3>2
  <2> QED BY <2>2, <2>3 DEF FilesRight, Right
<1> QED
  <2>1. \A f \in Files : answer'.blocks[f] = 0 => answer'.meant[f] = original[f]
    BY <1>1, <1>8
  <2> QED BY <1>1, <1>4, <1>6, <1>7, <1>13, <1>14, <1>15, <2>1 DEF PhaseInv, phase!SavedAsAnswered

(* Any other line.                                                         *)
LEMMA SaidHolds ==
  ASSUME PhaseInv, ~torn, stage \in {"streaming", "whole"},
         NEW line \in phase!NextLines, phase!Answered(line),
         parser.file = phase!None \/ line.kind # "marker", NEW applies \in BOOLEAN,
         parser' = phase!ProcessLine([parser EXCEPT !.partial = phase!None], line, phase!Number, applies),
         begun' = phase!None, UNCHANGED <<stage, original, files, saved, unapplied>>
  PROVE  PhaseInv'
<1> DEFINE p == [parser EXCEPT !.partial = phase!None]
<1>1. /\ original \in [Files -> Contents] /\ AnswerShape(answer)
      /\ \A f \in Files : answer.blocks[f] = 0 => answer.meant[f] = original[f]
      /\ ParserShape(parser) /\ InStep /\ CompletedRight /\ saved = original
      /\ stage = "streaming" => files \in Seq(GeneratedFiles) /\ FilesRight
      /\ stage = "whole" => files = << >>
  BY DEF PhaseInv
<1>2. /\ ParserShape(p) /\ p.file = parser.file /\ p.format = parser.format /\ p.half = parser.half
      /\ p.content = parser.content /\ p.completed = parser.completed /\ p.partial = phase!None
  <2>1. /\ ParserShape(p) /\ p.file = parser.file /\ p.format = parser.format
        /\ p.content = parser.content /\ p.completed = parser.completed
    BY <1>1, Cleared
  <2>2. p.partial = phase!None /\ p.half = parser.half
    BY <1>1 DEF ParserShape, phase!InitialState
  <2> QED BY <2>1, <2>2
<1> HIDE DEF p
<1>3. parser' = phase!ProcessLine(p, line, phase!Number, applies) /\ phase!Number \in Nat
  BY <1>1, LinesThatMayCome DEF p
<1>4. /\ parser.file = phase!None <=> answer.block = phase!None
      /\ parser.file # phase!None =>
           LET block == answer.block[1]
           IN parser.file[1] = block.file /\ parser.format = block.format /\ parser.content = block.lines
      /\ answer.half => parser.half
  BY <1>1 DEF InStep
<1>5. /\ AnswerShape(answer') /\ answer'.meant = answer.meant
      /\ answer'.blocks = answer.blocks /\ answer'.diffs = answer.diffs
  BY <1>1, <1>4, LineAnswered
<1>6. /\ ParserShape(parser') /\ parser'.partial = phase!None /\ parser'.completed = parser.completed
      /\ parser'.file = phase!None <=> answer'.block = phase!None
      /\ parser'.file # phase!None =>
           LET block == answer'.block[1]
           IN parser'.file[1] = block.file /\ parser'.format = block.format /\ parser'.content = block.lines
      /\ answer'.half => parser'.half
  <2>1. CASE parser.file # phase!None
    <3>1. /\ ParserShape(parser') /\ parser'.file = p.file /\ parser'.format = p.format
          /\ parser'.partial = p.partial /\ parser'.completed = p.completed
          /\ parser'.content = IF line.kind = "blank" THEN p.content ELSE Append(p.content, phase!Number)
      BY <1>2, <1>3, <2>1, ContentTaken
    <3>2. /\ ~answer'.half
          /\ answer'.block = IF line.kind = "blank" THEN answer.block
               ELSE <<[answer.block[1] EXCEPT !.lines = Append(@, phase!Number)]>>
      BY <1>1, <1>4, <2>1, LineAnswered
    <3>3. answer.block[1] \in Blocks
      BY <1>1, <1>4, <2>1 DEF AnswerShape
    <3>4. CASE line.kind = "blank"
      BY <1>2, <1>4, <2>1, <3>1, <3>2, <3>4
    <3>5. CASE line.kind # "blank"
      <4> DEFINE more == [answer.block[1] EXCEPT !.lines = Append(@, phase!Number)]
      <4>1. /\ more.file = answer.block[1].file /\ more.format = answer.block[1].format
            /\ more.lines = Append(answer.block[1].lines, phase!Number)
        BY <3>3 DEF Blocks
      <4>2. answer'.block = <<more>>
        BY <3>2, <3>5
      <4>3. answer'.block # phase!None /\ answer'.block[1] = more
        BY <4>2, Singles
      <4> HIDE DEF more
      <4> QED BY <1>2, <1>4, <2>1, <3>1, <3>2, <3>5, <4>1, <4>3
    <3> QED BY <3>4, <3>5
  <2>2. CASE parser.file = phase!None
    <3>1. Outside(line) /\ (line.kind = "rest" => answer.half)
      BY <1>1, <1>4, <2>2, LinesThatMayCome
    <3>2. /\ answer'.half => line.kind = "half" \/ (answer.half /\ line.kind = "blank")
          /\ answer'.block = IF line.kind \in {"command", "rest"}
               THEN <<[file |-> line.file, format |-> line.format, lines |-> << >>]>>
               ELSE phase!None
      BY <1>1, <1>4, <2>2, LineAnswered
    <3>3. /\ ParserShape(parser') /\ parser'.partial = p.partial /\ parser'.completed = p.completed
          /\ Opens(p, line) => parser'.file = <<line.file>> /\ parser'.format = line.format
                                 /\ parser'.content = << >>
          /\ ~Opens(p, line) => parser'.file = phase!None
          /\ line.kind = "half" => parser'.half
          /\ line.kind = "blank" => parser'.half = p.half
      <4>1. PICK q : q = p
        OBVIOUS
      <4>2. PICK r : r = parser'
        OBVIOUS
      <4>3. PICK n \in Nat : n = phase!Number
        BY <1>3
      <4>4. r = phase!ProcessLine(q, line, n, applies) /\ q.file = phase!None /\ ParserShape(q)
        BY <1>2, <1>3, <2>2, <4>1, <4>2, <4>3
      <4>5. Outside(line)
        BY <3>1
      <4>6. /\ ParserShape(r) /\ r.partial = q.partial /\ r.completed = q.completed
            /\ Opens(q, line) => r.file = <<line.file>> /\ r.format = line.format /\ r.content = << >>
            /\ ~Opens(q, line) => r.file = phase!None
            /\ line.kind = "half" => r.half
            /\ line.kind = "blank" => r.half = q.half
        BY <4>4, <4>5, OutsideTaken
      <4> QED BY <4>1, <4>2, <4>6
    <3>4. Opens(p, line) <=> line.kind \in {"command", "rest"}
      BY <1>2, <1>4, <3>1 DEF Opens
    <3>5. answer'.half => parser'.half
      BY <1>2, <1>4, <3>2, <3>3
    <3>6. CASE line.kind \in {"command", "rest"}
      <4> DEFINE block == [file |-> line.file, format |-> line.format, lines |-> << >>]
      <4>1. block.file = line.file /\ block.format = line.format /\ block.lines = << >>
        OBVIOUS
      <4>2. answer'.block = <<block>>
        BY <3>2, <3>6
      <4>3. answer'.block # phase!None /\ answer'.block[1] = block
        BY <4>2, Singles
      <4> HIDE DEF block
      <4>4. parser'.file = <<line.file>> /\ parser'.format = line.format /\ parser'.content = << >>
        BY <3>3, <3>4, <3>6
      <4>5. parser'.file # phase!None /\ parser'.file[1] = line.file
        BY <4>4, Singles
      <4> QED BY <1>2, <3>3, <3>5, <4>1, <4>3, <4>4, <4>5
    <3>7. CASE line.kind \notin {"command", "rest"}
      BY <1>2, <3>2, <3>3, <3>4, <3>5, <3>7
    <3> QED BY <3>6, <3>7
  <2> QED BY <2>1, <2>2
<1>7. \A f : Plain(f)' <=> Plain(f)
  BY <1>5 DEF Plain, phase!PatchedAgain
<1>8. CompletedRight'
  BY <1>1, <1>5, <1>6, <1>7 DEF CompletedRight, phase!Completed, phase!ProcessGenerated
<1>9. InStep'
  BY <1>6 DEF InStep
<1>10. stage = "streaming" => FilesRight'
  BY <1>1, <1>5, <1>7 DEF FilesRight, Latest
<1> QED BY <1>1, <1>5, <1>6, <1>8, <1>9, <1>10 DEF PhaseInv, phase!SavedAsAnswered

(* A chunk that closes a file, and one that does not.                      *)
LEMMA ClosingHolds ==
  ASSUME PhaseInv, ~torn, stage \in {"streaming", "whole"}, parser.file # phase!None,
         NEW line, line.kind = "marker", phase!Answered(line), NEW parsed,
         \A found \in BOOLEAN : parsed[found] =
           phase!FinalizeCurrentFile([parser EXCEPT !.partial = phase!None, !.callback = phase!None], found),
         phase!Parsed(parsed, TRUE), begun' = phase!None, UNCHANGED <<stage, original, saved>>
  PROVE  PhaseInv'
<1> DEFINE object(r) == r.completed[CHOOSE i \in phase!Completed(r, r.callback[2]) : TRUE]
<1>1. PICK inAnswer \in BOOLEAN, inFile \in BOOLEAN, long \in BOOLEAN :
        /\ parser.format = "unified_diff" \/ (inAnswer /\ inFile)
        /\ parser' = parsed[inAnswer]
        /\ files' = IF stage = "streaming" /\ parser'.callback # phase!None /\ parser'.callback[1] = "close"
                      THEN Append(files, phase!GeneratedFile(object(parsed[inAnswer]), inFile, long))
                      ELSE files
        /\ unapplied' = IF inAnswer /\ inFile THEN unapplied ELSE unapplied \cup {parser.file[1]}
  BY Zenon DEF phase!Parsed
<1>2. PICK p : p = [parser EXCEPT !.partial = phase!None, !.callback = phase!None]
  OBVIOUS
<1>3. PICK o, r, file : o = phase!FileObject(p, inAnswer) /\ r = parser' /\ file = parser.file[1]
  OBVIOUS
<1>4. r = phase!FinalizeCurrentFile(p, inAnswer)
  BY <1>1, <1>2, <1>3
<1>5. ParserShape(p) /\ p.file = parser.file
  <2>1. ParserShape(parser)
    BY DEF PhaseInv
  <2> QED BY <1>2, <2>1, Cleared
<1>6. /\ r.callback = <<"close", file>> /\ phase!Completed(r, file) # {}
      /\ \A i \in phase!Completed(r, file) : r.completed[i] = o
  BY <1>3, <1>4, <1>5, Finalized
<1>7. r.callback # phase!None /\ r.callback[1] = "close" /\ r.callback[2] = file
  BY <1>6 DEF phase!None
<1>8. object(r) = o
  BY <1>6, <1>7
<1> HIDE DEF object
<1>9. files' = IF stage = "streaming" THEN Append(files, phase!GeneratedFile(o, inFile, long)) ELSE files
  BY <1>1, <1>3, <1>7, <1>8
<1>10. Closed(line, inAnswer, inFile, long)
  BY <1>1, <1>2, <1>3, <1>4, <1>9 DEF Closed
<1> QED BY <1>1, <1>3, <1>10, ClosedHolds

LEMMA TakingHolds ==
  ASSUME PhaseInv, ~torn, stage \in {"streaming", "whole"},
         NEW line \in phase!NextLines, phase!Answered(line),
         parser.file = phase!None \/ line.kind # "marker", NEW parsed,
         \A found \in BOOLEAN : parsed[found] =
           phase!ProcessLine([parser EXCEPT !.partial = phase!None], line, phase!Number, found),
         phase!Parsed(parsed, FALSE), begun' = phase!None, UNCHANGED <<stage, original, saved>>
  PROVE  PhaseInv'
<1> DEFINE object(r) == r.completed[CHOOSE i \in phase!Completed(r, r.callback[2]) : TRUE]
<1>1. PICK inAnswer \in BOOLEAN, inFile \in BOOLEAN, long \in BOOLEAN :
        /\ inAnswer /\ inFile
        /\ parser' = parsed[inAnswer]
        /\ files' = IF stage = "streaming" /\ parser'.callback # phase!None /\ parser'.callback[1] = "close"
                      THEN Append(files, phase!GeneratedFile(object(parsed[inAnswer]), inFile, long))
                      ELSE files
        /\ unapplied' = IF inAnswer /\ inFile THEN unapplied ELSE unapplied \cup {parser.file[1]}
  BY Zenon DEF phase!Parsed
<1> HIDE DEF object
<1>2. /\ AnswerShape(answer) /\ ParserShape(parser) /\ InStep
  BY DEF PhaseInv
<1>3. PICK p : p = [parser EXCEPT !.partial = phase!None]
  OBVIOUS
<1>4. ParserShape(p) /\ p.file = parser.file
  BY <1>2, <1>3, Cleared
<1>5. phase!Number \in Nat
  BY <1>2, LinesThatMayCome
<1>6. PICK n, r : n \in Nat /\ n = phase!Number /\ r = parser'
  BY <1>5
<1>7. r = phase!ProcessLine(p, line, n, inAnswer)
  BY <1>1, <1>3, <1>6
<1>8. r.callback = phase!None \/ r.callback[1] = "open"
  <2>1. CASE p.file # phase!None
    BY <1>4, <1>6, <1>7, <2>1, ContentTaken
  <2>2. CASE p.file = phase!None
    <3>1. answer.block = phase!None
      BY <1>2, <1>4, <2>2 DEF InStep
    <3>2. Outside(line)
      BY <1>2, <3>1, LinesThatMayCome
    <3> QED BY <1>4, <1>6, <1>7, <2>2, <3>2, OutsideTaken
  <2> QED BY <2>1, <2>2
<1>9. UNCHANGED <<files, unapplied>>
  BY <1>1, <1>6, <1>8
<1>10. parser' = phase!ProcessLine([parser EXCEPT !.partial = phase!None], line, phase!Number, inAnswer)
  BY <1>1
<1> QED BY <1>9, <1>10, SaidHolds

LEMMA SayHolds ==
  ASSUME PhaseInv, ~torn, stage \in {"streaming", "whole"},
         NEW line \in phase!NextLines, phase!Answered(line),
         begun # phase!None => line = begun[1], begun' = phase!None,
         phase!Parsed([found \in BOOLEAN |-> phase!CompleteLine(parser, line, phase!Number, found)],
                      phase!Closes(line)),
         UNCHANGED <<stage, original, saved>>
  PROVE  PhaseInv'
<1>1. PICK parsed : parsed = [found \in BOOLEAN |-> phase!CompleteLine(parser, line, phase!Number, found)]
  OBVIOUS
<1>2. phase!Joined(parser.partial, line) = line
  <2>1. parser.partial = begun
    BY DEF PhaseInv, InStep
  <2> QED BY <2>1, Zenon DEF phase!Joined
<1>3. \A found \in BOOLEAN : parsed[found] =
        phase!ProcessLine([parser EXCEPT !.partial = phase!None], line, phase!Number, found)
  BY <1>1, <1>2, Zenon DEF phase!CompleteLine
<1>4. CASE parser.file # phase!None /\ line.kind = "marker"
  <2>1. phase!Closes(line) = TRUE
    BY <1>2, <1>4, Zenon DEF phase!Closes
  <2>2. phase!Parsed(parsed, TRUE)
    BY <1>1, <2>1
  <2>3. ParserShape(parser)
    BY DEF PhaseInv
  <2>4. \A found \in BOOLEAN : parsed[found] =
          phase!FinalizeCurrentFile([parser EXCEPT !.partial = phase!None, !.callback = phase!None], found)
    <3>1. PICK p : p = [parser EXCEPT !.partial = phase!None]
      OBVIOUS
    <3>2. p.file = parser.file
      BY <2>3, <3>1, Cleared
    <3>3. \A found \in BOOLEAN : phase!ProcessLine(p, line, phase!Number, found) =
            phase!FinalizeCurrentFile([p EXCEPT !.callback = phase!None], found)
      BY <1>4, <3>2 DEF phase!ProcessLine
    <3>4. [p EXCEPT !.callback = phase!None] = [parser EXCEPT !.partial = phase!None, !.callback = phase!None]
      BY <3>1
    <3> QED BY <1>3, <3>1, <3>3, <3>4
  <2> QED BY <1>4, <2>2, <2>4, ClosingHolds
<1>5. CASE ~(parser.file # phase!None /\ line.kind = "marker")
  <2>1. phase!Closes(line) = FALSE
    BY <1>2, <1>5, Zenon DEF phase!Closes
  <2>2. phase!Parsed(parsed, FALSE)
    BY <1>1, <2>1
  <2> QED BY <1>3, <1>5, <2>2, TakingHolds
<1> QED BY <1>4, <1>5

LEMMA CutHolds == ASSUME PhaseInv, ~torn, phase!CutLine PROVE PhaseInv'
<1>1. PICK line \in phase!NextLines : parser' = phase!KeepPart(parser, line) /\ begun' = <<line>>
  BY DEF phase!CutLine
<1>2. /\ stage = "streaming" /\ begun = phase!None
      /\ UNCHANGED <<stage, original, answer, files, saved, torn, unapplied>>
  BY DEF phase!CutLine
<1>3. /\ ParserShape(parser) /\ InStep /\ CompletedRight /\ FilesRight
  BY <1>2 DEF PhaseInv
<1>4. parser' = [parser EXCEPT !.partial = <<line>>, !.callback = phase!None]
  <2>1. phase!Joined(parser.partial, line) = line
    BY <1>2, <1>3, Zenon DEF InStep, phase!Joined
  <2> QED BY <1>1, <2>1 DEF phase!KeepPart
<1>5. /\ ParserShape(parser') /\ parser'.file = parser.file /\ parser'.format = parser.format
      /\ parser'.content = parser.content /\ parser'.completed = parser.completed
  <2>1. PICK q : q = parser'
    OBVIOUS
  <2> QED BY <1>3, <1>4, <2>1, Cleared
<1>6. parser'.partial = <<line>> /\ parser'.half = parser.half
  BY <1>3, <1>4 DEF ParserShape, phase!InitialState
<1>7. InStep'
  <2>1. begun'[1] = line /\ line \in phase!NextLines'
    BY <1>1, <1>2, Singles DEF phase!NextLines, phase!Number
  <2> QED BY <1>1, <1>2, <1>3, <1>5, <1>6, <2>1 DEF InStep
<1>8. CompletedRight'
  BY <1>2, <1>3, <1>5 DEF CompletedRight, phase!Completed, Plain, phase!PatchedAgain, phase!ProcessGenerated
<1>9. FilesRight'
  BY <1>2, <1>3 DEF FilesRight, Latest, Plain, phase!PatchedAgain
<1> QED BY <1>2, <1>5, <1>7, <1>8, <1>9 DEF PhaseInv, phase!SavedAsAnswered

LEMMA CutMarkerHolds == ASSUME PhaseInv, ~torn, phase!CutAfterMarker PROVE PhaseInv'
<1>1. /\ stage = "streaming" /\ begun' = phase!None /\ UNCHANGED <<stage, original, saved>>
  BY DEF phase!CutAfterMarker
<1>2. PICK line :
        /\ phase!MayBeMarker(parser, line) /\ phase!Answered(line)
        /\ phase!Parsed([found \in BOOLEAN |-> phase!TakeMarker(parser, found)], TRUE)
        /\ torn' = (torn \/ line.kind # "marker")
  BY DEF phase!CutAfterMarker
<1>3. CASE line.kind = "marker"
  <2>1. PICK parsed : parsed = [found \in BOOLEAN |-> phase!TakeMarker(parser, found)]
    OBVIOUS
  <2>2. \A found \in BOOLEAN : parsed[found] =
          phase!FinalizeCurrentFile([parser EXCEPT !.partial = phase!None, !.callback = phase!None], found)
    BY <2>1 DEF phase!TakeMarker
  <2>3. parser.file # phase!None /\ phase!Parsed(parsed, TRUE)
    BY <1>2, <1>3, <2>1 DEF phase!MayBeMarker
  <2> QED BY <1>1, <1>2, <1>3, <2>2, <2>3, ClosingHolds
<1>4. CASE line.kind # "marker"
  BY <1>2, <1>4 DEF PhaseInv
<1> QED BY <1>3, <1>4

LEMMA AnswerCut ==
  ASSUME AnswerShape(answer), phase!AnswerEnds
  PROVE  /\ AnswerShape(answer') /\ answer'.block = phase!None /\ ~answer'.half
         /\ answer'.meant = answer.meant /\ answer'.blocks = answer.blocks
         /\ answer'.diffs = answer.diffs
<1>1. /\ DOMAIN answer' = DOMAIN answer /\ answer'.length = answer.length
      /\ answer'.block = phase!None /\ answer'.half = FALSE /\ answer'.meant = answer.meant
      /\ answer'.blocks = answer.blocks /\ answer'.diffs = answer.diffs
  BY DEF AnswerShape, phase!AnswerEnds
<1> QED BY <1>1 DEF AnswerShape

LEMMA InitialShape == ParserShape(phase!InitialState) /\ \A f : phase!Completed(phase!InitialState, f) = {}
BY DEF ParserShape, phase!InitialState, phase!Completed, phase!None, Contents, phase!Formats

LEMMA StreamEndsHolds == ASSUME PhaseInv, ~torn, phase!StreamEnds PROVE PhaseInv'
<1>1. /\ stage = "streaming" /\ begun' = phase!None /\ UNCHANGED <<original, files, saved, torn, unapplied>>
      /\ \/ files = << >> /\ stage' = "whole" /\ parser' = phase!InitialState /\ phase!AnswerEnds
         \/ stage' = "fixing" /\ UNCHANGED <<parser, answer>>
  BY DEF phase!StreamEnds
<1>2. /\ original \in [Files -> Contents] /\ AnswerShape(answer) /\ FilesRight
      /\ files \in Seq(GeneratedFiles) /\ saved = original
      /\ \A f \in Files : answer.blocks[f] = 0 => answer.meant[f] = original[f]
  BY <1>1 DEF PhaseInv
<1>3. CASE files = << >> /\ stage' = "whole" /\ parser' = phase!InitialState /\ phase!AnswerEnds
  <2>1. /\ AnswerShape(answer') /\ answer'.block = phase!None /\ ~answer'.half
        /\ answer'.meant = answer.meant /\ answer'.blocks = answer.blocks
    BY <1>2, <1>3, AnswerCut
  <2>2. \A f \in Files : ~(answer.blocks[f] > 0)
    BY <1>2, <1>3 DEF FilesRight
  <2>3. ParserShape(parser') /\ \A f : phase!Completed(parser', f) = {}
    BY <1>3, InitialShape
  <2>4. CompletedRight'
    BY <2>1, <2>2, <2>3 DEF CompletedRight
  <2>5. InStep'
    BY <1>1, <1>3, <2>1 DEF InStep, phase!InitialState, phase!None
  <2> QED BY <1>1, <1>2, <1>3, <2>1, <2>3, <2>4, <2>5 DEF PhaseInv, phase!SavedAsAnswered
<1>4. CASE stage' = "fixing" /\ UNCHANGED <<parser, answer>>
  <2>1. FilesRight'
    BY <1>1, <1>2, <1>4 DEF FilesRight, Latest, Plain, phase!PatchedAgain
  <2> QED BY <1>1, <1>2, <1>4, <2>1 DEF PhaseInv, phase!SavedAsAnswered
<1> QED BY <1>1, <1>3, <1>4

LEMMA StreamBreaksHolds == ASSUME PhaseInv, ~torn, phase!StreamBreaks PROVE PhaseInv'
<1> SUFFICES ASSUME ~torn' PROVE PhaseInv'
  BY DEF PhaseInv
<1>1. /\ stage = "streaming" /\ stage' \in {"streaming", "failed"} /\ begun' = phase!None /\ phase!AnswerEnds
      /\ UNCHANGED <<original, parser, files, saved, unapplied>>
      /\ parser.file = phase!None /\ begun = phase!None
  BY DEF phase!StreamBreaks
<1>2. /\ original \in [Files -> Contents] /\ AnswerShape(answer) /\ FilesRight
      /\ files \in Seq(GeneratedFiles) /\ saved = original
      /\ ParserShape(parser) /\ InStep /\ CompletedRight
      /\ \A f \in Files : answer.blocks[f] = 0 => answer.meant[f] = original[f]
  BY <1>1 DEF PhaseInv
<1>3. /\ AnswerShape(answer') /\ answer'.block = phase!None /\ ~answer'.half
      /\ answer'.meant = answer.meant /\ answer'.blocks = answer.blocks
      /\ answer'.diffs = answer.diffs
  BY <1>1, <1>2, AnswerCut
<1>4. InStep'
  BY <1>1, <1>2, <1>3 DEF InStep
<1>5. CompletedRight'
  BY <1>1, <1>2, <1>3 DEF CompletedRight, phase!Completed, Plain, phase!PatchedAgain, phase!ProcessGenerated
<1>6. FilesRight'
  BY <1>1, <1>2, <1>3 DEF FilesRight, Latest, Plain, phase!PatchedAgain
<1> QED BY <1>1, <1>2, <1>3, <1>4, <1>5, <1>6 DEF PhaseInv, phase!SavedAsAnswered

LEMMA SayLineHolds == ASSUME PhaseInv, ~torn, phase!SayLine \/ phase!SayWhole PROVE PhaseInv'
<1>1. /\ stage \in {"streaming", "whole"} /\ UNCHANGED <<stage, original, saved>>
      /\ \/ begun' = phase!None
         \/ stage = "whole" /\ begun' = begun
  BY DEF phase!SayLine, phase!SayWhole
<1>2. begun' = phase!None /\ (stage = "whole" => begun = phase!None)
  BY <1>1 DEF PhaseInv, InStep
<1>3. PICK line \in phase!NextLines :
        /\ begun # phase!None => line = begun[1]
        /\ phase!Parsed([found \in BOOLEAN |-> phase!CompleteLine(parser, line, phase!Number, found)],
                        phase!Closes(line))
        /\ phase!Answered(line)
  <2>1. CASE phase!SayLine
    <3>1. PICK line \in IF begun = phase!None THEN phase!NextLines ELSE {begun[1]} :
            /\ phase!Parsed([found \in BOOLEAN |-> phase!CompleteLine(parser, line, phase!Number, found)],
                        phase!Closes(line))
            /\ phase!Answered(line)
      BY <2>1, Zenon DEF phase!SayLine
    <3>2. line \in phase!NextLines /\ (begun # phase!None => line = begun[1])
      BY <1>1 DEF PhaseInv, InStep
    <3> QED BY <3>1, <3>2
  <2>2. CASE phase!SayWhole
    <3>1. PICK line \in phase!NextLines :
            /\ phase!Parsed([found \in BOOLEAN |-> phase!CompleteLine(parser, line, phase!Number, found)],
                        phase!Closes(line))
            /\ phase!Answered(line)
      BY <2>2, Zenon DEF phase!SayWhole
    <3>2. stage = "whole"
      BY <2>2 DEF phase!SayWhole
    <3> QED BY <1>2, <3>1, <3>2
  <2> QED BY <2>1, <2>2
<1> QED BY <1>1, <1>2, <1>3, SayHolds

LEMMA WholeEndsHolds == ASSUME PhaseInv, ~torn, phase!WholeEnds PROVE PhaseInv'
<1>1. /\ stage = "whole" /\ stage' = "fixing" /\ UNCHANGED <<original, answer, saved>>
  BY DEF phase!WholeEnds
<1>2. PICK failing, long :
        /\ failing \in SUBSET {o.file : o \in {o \in phase!Range(parser.completed) : o.diff}}
        /\ files' = [i \in DOMAIN parser.completed |->
             LET object == parser.completed[i]
             IN phase!GeneratedFile(object, object.file \notin failing, i \in long)]
        /\ unapplied' = unapplied \cup failing
  BY Zenon DEF phase!WholeEnds
<1>3. /\ original \in [Files -> Contents] /\ AnswerShape(answer) /\ saved = original
      /\ ParserShape(parser) /\ CompletedRight
      /\ \A f \in Files : answer.blocks[f] = 0 => answer.meant[f] = original[f]
  BY <1>1 DEF PhaseInv
<1>4. /\ parser.completed \in Seq(FileObjects)
      /\ \A i, j \in DOMAIN parser.completed :
           parser.completed[i].file = parser.completed[j].file => i = j
  BY <1>3 DEF ParserShape
<1>5. /\ DOMAIN files' = DOMAIN parser.completed
      /\ \A i \in DOMAIN files' :
           /\ files'[i].file = parser.completed[i].file
           /\ files'[i].contents = phase!ProcessGenerated(parser.completed[i], parser.completed[i].file \notin failing)
           /\ files'[i] \in GeneratedFiles
  <2>1. DOMAIN files' = DOMAIN parser.completed
    BY <1>2
  <2>2. ASSUME NEW i \in DOMAIN parser.completed
        PROVE  /\ files'[i].file = parser.completed[i].file
               /\ files'[i].contents =
                    phase!ProcessGenerated(parser.completed[i], parser.completed[i].file \notin failing)
               /\ files'[i] \in GeneratedFiles
    <3>1. PICK o, found : o = parser.completed[i] /\ found = (o.file \notin failing)
      OBVIOUS
    <3>2. o \in FileObjects
      BY <1>4, <3>1
    <3>3. files'[i] = phase!GeneratedFile(o, found, i \in long) /\ (i \in long) \in BOOLEAN
      BY <1>2, <3>1
    <3>4. phase!ProcessGenerated(o, found) \in Contents
      BY <1>3, <3>2 DEF phase!ProcessGenerated, FileObjects, Contents
    <3> QED BY <3>1, <3>2, <3>3, <3>4 DEF phase!GeneratedFile, GeneratedFiles, FileObjects
  <2> QED BY <2>1, <2>2
<1>6. files' \in Seq(GeneratedFiles)
  <2>1. files' = [i \in DOMAIN parser.completed |-> files'[i]]
    BY <1>2
  <2>2. DOMAIN parser.completed = 1..Len(parser.completed) /\ Len(parser.completed) \in Nat
    BY <1>4
  <2>3. files' = [i \in 1..Len(parser.completed) |-> files'[i]]
    BY <2>1, <2>2, Zenon
  <2> QED BY <1>5, <2>2, <2>3, IsASeq
<1>7. ASSUME NEW f \in Files
      PROVE  /\ answer.blocks[f] > 0 <=> \E i \in DOMAIN files' : files'[i].file = f
             /\ answer.blocks[f] > 0 => \E i \in DOMAIN files' :
                  Latest(i, f)' /\ (Plain(f)' => Right(files'[i], answer.meant[f]))
  <2>1. /\ answer.blocks[f] > 0 <=> phase!Completed(parser, f) # {}
        /\ Plain(f) => \A i \in phase!Completed(parser, f) :
                         phase!ProcessGenerated(parser.completed[i], TRUE) = answer.meant[f]
    BY <1>3 DEF CompletedRight
  <2>2. answer.blocks[f] > 0 <=> \E i \in DOMAIN files' : files'[i].file = f
    BY <1>5, <2>1 DEF phase!Completed
  <2>3. ASSUME NEW i \in DOMAIN files', files'[i].file = f PROVE Latest(i, f)'
    <3>1. \A j \in DOMAIN files' : files'[j].file = f => j = i
      BY <1>4, <1>5, <2>3
    <3>2. i \in Int
      BY <1>4, <1>5
    <3> QED BY <2>3, <3>1, <3>2 DEF Latest
  <2>4. ASSUME NEW i \in DOMAIN files', files'[i].file = f, Plain(f)'
        PROVE  Right(files'[i], answer.meant[f])
    <3>1. Plain(f) /\ f \notin failing
      BY <1>1, <1>2, <2>4 DEF Plain, phase!PatchedAgain
    <3>2. i \in phase!Completed(parser, f)
      BY <1>5, <2>4 DEF phase!Completed
    <3>3. parser.completed[i].file \notin failing
      BY <1>5, <2>4, <3>1
    <3>4. files'[i].contents = phase!ProcessGenerated(parser.completed[i], TRUE)
      BY <1>5, <3>3
    <3> QED BY <2>1, <3>1, <3>2, <3>4 DEF Right
  <2> QED BY <2>2, <2>3, <2>4
<1>8. FilesRight'
  BY <1>1, <1>7 DEF FilesRight, Right
<1> QED BY <1>1, <1>3, <1>6, <1>8 DEF PhaseInv, phase!SavedAsAnswered

LEMMA FixerEndsHolds == ASSUME PhaseInv, ~torn, phase!FixerEnds PROVE PhaseInv'
<1>1. /\ stage \in {"streaming", "fixing", "failed"}
      /\ UNCHANGED <<stage, original, parser, begun, answer, saved, torn, unapplied>>
  BY DEF phase!FixerEnds
<1>2. ASSUME stage \in {"streaming", "fixing"} PROVE files' \in Seq(GeneratedFiles) /\ FilesRight'
  <2>1. PICK k \in DOMAIN files, fixes \in BOOLEAN :
          /\ files[k].fixing
          /\ files' = [files EXCEPT ![k].fixing = FALSE,
                                    ![k].contents = IF fixes THEN Append(@, phase!Fixed) ELSE @]
    BY Zenon DEF phase!FixerEnds
  <2>2. files \in Seq(GeneratedFiles) /\ FilesRight
    BY <1>2 DEF PhaseInv
  <2>3. PICK g, contents : /\ contents = IF fixes THEN Append(files[k].contents, phase!Fixed) ELSE files[k].contents
                           /\ g = [file |-> files[k].file, contents |-> contents, fixing |-> FALSE]
    OBVIOUS
  <2>4. files[k] \in GeneratedFiles
    BY <2>2
  <2>5. files' = [files EXCEPT ![k] = g]
    <3>1. /\ files' = [i \in DOMAIN files |-> files'[i]]
          /\ \A i \in DOMAIN files \ {k} : files'[i] = files[i]
      BY <2>1, <2>2
    <3>2. files'[k] = [files[k] EXCEPT !.fixing = FALSE, !.contents = contents]
      BY <2>1, <2>2, <2>3, <2>4 DEF GeneratedFiles
    <3>3. files'[k] = g
      BY <2>3, <2>4, <3>2 DEF GeneratedFiles
    <3> QED BY <2>2, <3>1, <3>3
  <2>6. contents \in Contents
    <3>1. files[k].contents \in Seq(Int) /\ phase!Fixed \in Int
      BY <2>4 DEF GeneratedFiles, Contents, phase!Fixed
    <3> QED BY <2>3, <3>1 DEF Contents
  <2>7. g \in GeneratedFiles
    BY <2>3, <2>4, <2>6 DEF GeneratedFiles
  <2>8. /\ files' \in Seq(GeneratedFiles) /\ DOMAIN files' = DOMAIN files
        /\ files'[k] = g /\ \A i \in DOMAIN files \ {k} : files'[i] = files[i]
    BY <2>2, <2>5, <2>7
  <2>9. \A i \in DOMAIN files : files'[i].file = files[i].file
    BY <2>3, <2>8
  <2>10. \A i \in DOMAIN files, f \in Files : Latest(i, f)' <=> Latest(i, f)
    <3> SUFFICES ASSUME NEW i \in DOMAIN files, NEW f \in Files PROVE Latest(i, f)' <=> Latest(i, f)
      OBVIOUS
    <3> QED BY <2>8, <2>9 DEF Latest
  <2>11. ASSUME NEW i \in DOMAIN files, NEW meant, Right(files[i], meant) PROVE Right(files'[i], meant)
    <3>1. CASE i = k
      <4>1. files[k].contents = meant
        BY <2>1, <2>11, <3>1, Zenon DEF Right
      <4>2. /\ files'[i].contents = contents
            /\ files'[i].fixing = FALSE
        BY <2>3, <2>8, <3>1
      <4>3. contents \in {meant, Append(meant, phase!Fixed)}
        BY <2>3, <4>1
      <4> QED BY <4>2, <4>3 DEF Right
    <3>2. CASE i # k
      BY <2>8, <2>11, <3>2
    <3> QED BY <3>1, <3>2
  <2>12. \A f : Plain(f)' <=> Plain(f)
    BY <1>1 DEF Plain, phase!PatchedAgain
  <2>13. ASSUME NEW f \in Files
        PROVE  /\ answer.blocks[f] > 0 <=> \E i \in DOMAIN files' : files'[i].file = f
               /\ answer.blocks[f] > 0 => \E i \in DOMAIN files' :
                    Latest(i, f)' /\ (Plain(f)' => Right(files'[i], answer.meant[f]))
    BY <2>2, <2>8, <2>9, <2>10, <2>11, <2>12 DEF FilesRight
  <2> QED BY <1>1, <2>8, <2>13 DEF FilesRight, Right
<1>3. stage \in {"streaming", "whole"} => ParserShape(parser) /\ InStep /\ CompletedRight
  BY DEF PhaseInv
<1>4. stage' \in {"streaming", "whole"} => ParserShape(parser') /\ InStep' /\ CompletedRight'
  BY <1>1, <1>3 DEF InStep, CompletedRight, phase!Completed, Plain, phase!PatchedAgain, phase!ProcessGenerated,
                    phase!NextLines, phase!Number
<1> QED BY <1>1, <1>2, <1>4 DEF PhaseInv, phase!SavedAsAnswered

LEMMA SaveFilesHolds == ASSUME PhaseInv, ~torn, phase!SaveFiles PROVE PhaseInv'
<1>1. /\ stage = "fixing" /\ \A i \in DOMAIN files : ~files[i].fixing
      /\ UNCHANGED <<original, answer, files, torn, unapplied>>
      /\ \/ stage' = "failed" /\ UNCHANGED saved
         \/ /\ stage' = "saved"
            /\ saved' = [f \in Files |-> IF \E i \in DOMAIN files : files[i].file = f
                                         THEN files[phase!Version(f)].contents ELSE saved[f]]
  BY DEF phase!SaveFiles
<1>2. /\ original \in [Files -> Contents] /\ AnswerShape(answer) /\ saved = original /\ FilesRight
      /\ files \in Seq(GeneratedFiles)
      /\ \A f \in Files : answer.blocks[f] = 0 => answer.meant[f] = original[f]
  BY <1>1 DEF PhaseInv
<1>3. phase!SavedAsAnswered'
  <2> SUFFICES ASSUME stage' = "saved", NEW f \in Files \ unapplied, ~phase!PatchedAgain(f)
               PROVE  saved'[f] \in {answer.meant[f], Append(answer.meant[f], phase!Fixed)}
    BY <1>1 DEF phase!SavedAsAnswered, phase!PatchedAgain
  <2>1. saved'[f] = IF \E i \in DOMAIN files : files[i].file = f
                      THEN files[phase!Version(f)].contents ELSE saved[f]
    BY <1>1
  <2>2. CASE \E i \in DOMAIN files : files[i].file = f
    <3>1. PICK i \in DOMAIN files : Latest(i, f) /\ Right(files[i], answer.meant[f])
      BY <1>2, <2>2 DEF FilesRight, Plain
    <3>2. phase!Version(f) = i
      <4>1. DOMAIN files \subseteq Int
        BY <1>2
      <4>2. \A j \in DOMAIN files : Latest(j, f) => j = i
        BY <3>1, <4>1 DEF Latest
      <4>3. phase!Version(f) = CHOOSE j \in DOMAIN files : Latest(j, f)
        BY Zenon DEF phase!Version, Latest
      <4> QED BY <3>1, <4>2, <4>3
    <3>3. files[i].contents \in {answer.meant[f], Append(answer.meant[f], phase!Fixed)}
      BY <3>1 DEF Right
    <3> QED BY <2>1, <2>2, <3>2, <3>3
  <2>3. CASE ~\E i \in DOMAIN files : files[i].file = f
    <3>1. answer.blocks[f] = 0
      BY <1>2, <2>3 DEF FilesRight, AnswerShape
    <3> QED BY <1>2, <2>1, <2>3, <3>1
  <2> QED BY <2>2, <2>3
<1> QED BY <1>1, <1>2, <1>3 DEF PhaseInv

LEMMA PhaseInvInit == ASSUME phase!Init PROVE PhaseInv
<1>1. /\ stage = "streaming" /\ original \in [Files -> {<< >>, <<0>>}] /\ parser = phase!InitialState
      /\ begun = phase!None /\ answer = phase!NoAnswer /\ files = << >> /\ saved = original
  BY DEF phase!Init
<1>2. original \in [Files -> Contents]
  <2>1. {<< >>, <<0>>} \subseteq Contents
    BY DEF Contents
  <2> QED BY <1>1, <2>1
<1>3. /\ answer.block = phase!None /\ ~answer.half /\ answer.meant = original
      /\ \A f \in Files : answer.blocks[f] = 0 /\ ~(answer.blocks[f] > 0)
  BY <1>1 DEF phase!NoAnswer
<1>4. AnswerShape(answer)
  BY <1>1, <1>2 DEF phase!NoAnswer, AnswerShape
<1>5. ParserShape(parser) /\ \A f : phase!Completed(parser, f) = {}
  BY <1>1, InitialShape
<1>6. InStep
  BY <1>1, <1>3 DEF InStep, phase!InitialState, phase!None
<1>7. CompletedRight
  BY <1>3, <1>5 DEF CompletedRight
<1>8. files \in Seq(GeneratedFiles) /\ FilesRight
  BY <1>1, <1>3 DEF FilesRight
<1> QED BY <1>1, <1>2, <1>3, <1>4, <1>5, <1>6, <1>7, <1>8 DEF PhaseInv, phase!SavedAsAnswered

LEMMA PhaseInvNext == ASSUME PhaseInv, [phase!Next]_(phase!vars) PROVE PhaseInv'
<1>1. CASE torn
  <2>1. torn'
    BY <1>1 DEF phase!Next, phase!vars, phase!SayLine, phase!CutLine, phase!CutAfterMarker, phase!StreamEnds,
                phase!StreamBreaks, phase!SayWhole, phase!WholeEnds, phase!WholeFails, phase!FixerEnds, phase!SaveFiles
  <2> QED BY <2>1 DEF PhaseInv
<1>2. CASE ~torn
  <2>1. CASE phase!WholeFails
    BY <2>1 DEF PhaseInv, phase!WholeFails, phase!SavedAsAnswered
  <2>2. CASE UNCHANGED phase!vars
    BY <2>2 DEF phase!vars, PhaseInv, phase!SavedAsAnswered, InStep, CompletedRight, FilesRight, phase!Completed,
                Plain, phase!PatchedAgain, phase!ProcessGenerated, phase!NextLines, phase!Number, Latest
  <2> QED BY <1>2, <2>1, <2>2, SayLineHolds, CutHolds, CutMarkerHolds, StreamEndsHolds,
             StreamBreaksHolds, WholeEndsHolds, FixerEndsHolds, SaveFilesHolds DEF phase!Next
<1> QED BY <1>1, <1>2

(* What is saved of a phase is what was answered, for every number of      *)
(* files and lines, whatever chunks the answer comes in.                   *)
THEOREM PhaseSaved == phase!Spec => []SavedAsAnswered
<1>1. PhaseInv => phase!SavedAsAnswered
  BY DEF PhaseInv, phase!SavedAsAnswered
<1> QED BY <1>1, PhaseInvInit, PhaseInvNext, PTL DEF phase!Spec, SavedAsAnswered

-----------------------------------------------------------------------------
(* Every behaviour is one of one of these parts, in which the others do    *)
(* not move, so what is proved of one holds of the whole.                  *)
LEMMA ChatRunsEach == ChatSpec => inference!Spec /\ phase!Spec
<1> DEFINE all == <<part, inferenceVars, phaseVars>>
<1>1. ChatInit => inference!Init /\ phase!Init
  BY DEF ChatInit
<1>2. [ChatNext]_all =>
        [inference!Next]_(inference!vars) /\ [phase!Next]_(phase!vars)
  <2>1. /\ UNCHANGED inferenceVars => UNCHANGED (inference!vars)
        /\ UNCHANGED phaseVars => UNCHANGED (phase!vars)
    BY DEF inference!vars, inferenceVars, phase!vars, phaseVars
  <2>2. CASE UNCHANGED all
    BY <2>1, <2>2
  <2>3. CASE ChatNext
    BY <2>1, <2>3 DEF ChatNext
  <2> QED BY <2>2, <2>3
<1> HIDE DEF all
<1> QED BY <1>1, <1>2, PTL DEF ChatSpec, inference!Spec, phase!Spec, all

(* What the runs check of an inference and of a phase, of whichever a      *)
(* behaviour is.                                                           *)
THEOREM ChatSound ==
  ASSUME inference!InferenceAssumption
  PROVE  ChatSpec => [](RequestsBounded /\ AnswerShown /\ ToolCallsAsSent /\ SavedAsAnswered)
<1>1. inference!Spec => [](RequestsBounded /\ AnswerShown /\ ToolCallsAsSent)
  BY FewRequests, TextShown, CallsRunAsSent, PTL
<1> QED BY <1>1, PhaseSaved, ChatRunsEach, PTL
==================================================================================
