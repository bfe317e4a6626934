------------------------------- MODULE ChatClient -------------------------------
(***************************************************************************)
(* A chat page (src/routes/chat/hooks/use-chat.ts, handle-websocket-       *)
(* message.ts) and what its agent does with the messages that start and    *)
(* stop generation (worker/agents/core/websocket.ts): those of the page,   *)
(* of its buttons, and the user's own, whose turn starts a generation when *)
(* it ends and none is running.  The page makes a new socket for every     *)
(* retry while the sockets, which are partysocket's, reconnect by          *)
(* themselves; the agent keeps a flag, shouldBeGenerating, and every       *)
(* update of its state is broadcast to the sockets it has.                 *)
(*                                                                         *)
(* connectWithRetry is memoised with the handler of the first render, so   *)
(* the handler sees isGenerating FALSE for ever.  The preview requests,    *)
(* the conversation and everything else that is displayed are left out.    *)
(***************************************************************************)
EXTENDS Integers, Sequences, SequencesExt

CONSTANTS
  MaxAttempts,   \* bound: sockets of the page
  MaxTroubles,   \* bound: failures, evictions, reconnects, generations cut short
  MaxClicks      \* bound: stops, resumes and messages of the user

ASSUME ChatClientAssumption ==
  {MaxAttempts, MaxTroubles, MaxClicks} \subseteq Nat

VARIABLES
  fresh,      \* urlChatId = 'new'
  mounted,    \* shouldReconnectRef
  status,     \* connectionStatus; connecting, retrying and failed are one
  attempt,    \* connectAttemptIdRef: sockets made so far
  websocket,  \* state: the last socket given to setWebsocket, 0 for none
  rendered,   \* the socket the effects of the last render know
  timers,     \* retryTimeouts that will fire
  sock,       \* what became of each socket
  armed,      \* the latest socket, while its connectionTimeout is due
  toServer,
  toClient,   \* shouldBeGenerating of the states sent and not yet handled
  intent,     \* shouldBeGenerating
  run,        \* the message that started the current generation
  done,       \* mvpGenerated
  pending,    \* pendingUserInputs: "late" when the current generation has
              \* looked for the last time
  turns,      \* user messages being answered
  queuers,    \* those of them that have queued a request
  stopped,    \* history: the agent took a stop and no resume since
  clicks, troubles

page == <<fresh, mounted, status, attempt, websocket, rendered, timers, sock, armed>>
agent == <<intent, run, done, pending, turns, queuers, stopped>>
wires == <<toServer, toClient>>
vars == <<page, agent, wires, clicks, troubles>>

Sockets == 1..MaxAttempts
Messages == {"generate_all", "stop_generation", "resume_generation", "user_suggestion"}
Starting == {"generate_all", "resume_generation", "user_suggestion"}

TypeOK ==
  /\ {fresh, mounted, intent, done, stopped} \subseteq BOOLEAN
  /\ status \in {"idle", "waiting", "connected"}
  /\ attempt \in 0..MaxAttempts /\ websocket \in 0..attempt /\ rendered \in 0..attempt
  /\ timers \in Nat /\ armed \subseteq 1..attempt
  /\ sock \in [Sockets -> {"none", "connecting", "open", "down", "closing", "closed"}]
  /\ toServer \in [Sockets -> Seq(Messages)] /\ toClient \in [Sockets -> Seq(BOOLEAN)]
  /\ run \in Starting \cup {"none"} /\ {turns, queuers} \subseteq Nat
  /\ pending \in {"none", "queued", "late"}
  /\ clicks \in 0..MaxClicks /\ troubles \in 0..MaxTroubles

Init ==
  /\ fresh \in BOOLEAN /\ mounted = TRUE /\ status = "idle" /\ attempt = 0
  /\ websocket = 0 /\ rendered = 0 /\ timers = 0 /\ armed = {}
  /\ sock = [i \in Sockets |-> "none"]
  /\ toServer = [i \in Sockets |-> << >>] /\ toClient = [i \in Sockets |-> << >>]
  /\ intent \in (IF fresh THEN {FALSE} ELSE BOOLEAN)
  /\ run = "none" /\ done = FALSE /\ pending = "none"
  /\ turns = 0 /\ queuers = 0 /\ stopped = FALSE
  /\ clicks = 0 /\ troubles = 0

(* What repeats the end of a queue counts as one with it: whoever handles  *)
(* it finds what the first has done.  (Without this the queues of two      *)
(* sockets grow for ever: each answers each state that is broadcast.)      *)
Then(queue, messages) ==
  IF IsSuffix(messages, queue) THEN queue ELSE queue \o messages

(* The bound of what goes wrong: the page has a socket left for each retry *)
(* that will follow.                                                       *)
Trouble(retries) ==
  /\ attempt + timers + retries <= MaxAttempts
  /\ troubles < MaxTroubles /\ troubles' = troubles + 1

-----------------------------------------------------------------------------
(* The page.                                                               *)

(* connectWithRetry.                                                       *)
ConnectWithRetry ==
  /\ attempt < MaxAttempts
  /\ attempt' = attempt + 1 /\ websocket' = attempt + 1 /\ status' = "waiting"
  /\ sock' = [sock EXCEPT ![attempt + 1] = "connecting"]
  /\ armed' = {attempt + 1}

(* init, when the session was created or found; the page may be gone.      *)
Connect ==
  /\ status = "idle"
  /\ ConnectWithRetry
  /\ UNCHANGED <<fresh, mounted, rendered, timers, agent, wires, clicks, troubles>>

RetryTimer ==
  /\ timers > 0 /\ timers' = timers - 1
  /\ ConnectWithRetry
  /\ UNCHANGED <<fresh, mounted, rendered, agent, wires, clicks, troubles>>

(* handleOnline.                                                           *)
Online ==
  /\ mounted /\ status \notin {"connected", "idle"} /\ Trouble(1)
  /\ ConnectWithRetry
  /\ UNCHANGED <<fresh, mounted, rendered, timers, agent, wires, clicks>>

(* handleConnectionFailure, called by each of the events of a socket, once *)
(* the latest attempt is known to have failed.                             *)
Failures(n) == timers' = timers + n /\ status' = "waiting"

Heard(i, n) ==
  IF i = attempt /\ mounted THEN Failures(n) ELSE UNCHANGED <<timers, status>>

Cut(lost) ==
  /\ toServer' = [i \in Sockets |-> IF i \in lost THEN << >> ELSE toServer[i]]
  /\ toClient' = [i \in Sockets |-> IF i \in lost THEN << >> ELSE toClient[i]]

(* A connection that fails is heard as an error and a close, one that is   *)
(* lost as a close with or without an error.  partysocket connects again.  *)
SocketFails(i) ==
  /\ sock' = [sock EXCEPT ![i] = "down"] /\ armed' = armed \ {i}
  /\ \/ sock[i] \in {"connecting", "open"} /\ Trouble(2) /\ Heard(i, 2)
     \/ sock[i] = "open" /\ Trouble(1) /\ Heard(i, 1)
  /\ Cut({i})
  /\ UNCHANGED <<fresh, mounted, attempt, websocket, rendered, agent, clicks>>

SocketReconnects(i) ==
  /\ sock[i] = "down" /\ sock' = [sock EXCEPT ![i] = "connecting"]
  /\ UNCHANGED <<fresh, mounted, status, attempt, websocket, rendered, timers, armed,
                 agent, wires, clicks, troubles>>

(* connectionTimeout: it does not ask whether the page is still there.     *)
ConnectionTimeout(i) ==
  /\ i \in armed /\ i = attempt /\ sock[i] = "connecting" /\ Trouble(2)
  /\ armed' = armed \ {i} /\ sock' = [sock EXCEPT ![i] = "closing"]
  /\ Failures(1)
  /\ UNCHANGED <<fresh, mounted, attempt, websocket, rendered, agent, wires, clicks>>

(* The heartbeat closes a socket that is silent while work is expected.    *)
Heartbeat ==
  /\ mounted /\ rendered # 0 /\ sock[rendered] = "open" /\ Trouble(1)
  /\ sock' = [sock EXCEPT ![rendered] = "closing"]
  /\ Cut({rendered})
  /\ UNCHANGED <<fresh, mounted, status, attempt, websocket, rendered, timers, armed,
                 agent, clicks>>

\* Mutant: a close that the page waits for is not a failure.
SocketClosed_Silent(i) ==
  /\ sock[i] = "closing" /\ sock' = [sock EXCEPT ![i] = "closed"]
  /\ armed' = armed \ {i}
  /\ UNCHANGED <<fresh, mounted, status, attempt, websocket, rendered, timers, agent, wires,
                 clicks, troubles>>

SocketClosed(i) ==
  /\ sock[i] = "closing" /\ sock' = [sock EXCEPT ![i] = "closed"]
  /\ armed' = armed \ {i}
  /\ Heard(i, 1)
  /\ UNCHANGED <<fresh, mounted, attempt, websocket, rendered, agent, wires, clicks,
                 troubles>>

(* The page closes a socket: one that waits to reconnect makes no event.   *)
ClosedBy(s) == CASE s \in {"connecting", "open"} -> "closing" [] s = "down" -> "closed"
                 [] OTHER -> s

(* The effects of a render close the socket of the render before.          *)
Render ==
  /\ mounted /\ rendered # websocket
  /\ rendered' = websocket
  /\ IF rendered = 0 THEN UNCHANGED <<sock, wires>>
     ELSE sock' = [sock EXCEPT ![rendered] = ClosedBy(@)] /\ Cut({rendered})
  /\ UNCHANGED <<fresh, mounted, status, attempt, websocket, timers, armed, agent, clicks,
                 troubles>>

Unmount ==
  /\ mounted /\ mounted' = FALSE /\ timers' = 0
  /\ IF rendered = 0 THEN UNCHANGED <<sock, wires>>
     ELSE sock' = [sock EXCEPT ![rendered] = ClosedBy(@)] /\ Cut({rendered})
  /\ UNCHANGED <<fresh, status, attempt, websocket, rendered, armed, agent, clicks, troubles>>

(* The agent sends its state to a socket that opens, and so does onConnect *)
(* when the template is loaded.                                            *)
Greeted(i, request) ==
  /\ toClient' = [toClient EXCEPT ![i] = <<intent>>]
  /\ toServer' = [toServer EXCEPT ![i] = request]

\* Mutant: the retries are cleared before the attempt is looked at.
SocketOpens_ClearFirst(i) ==
  /\ sock[i] = "connecting" /\ sock' = [sock EXCEPT ![i] = "open"] /\ timers' = 0
  /\ Greeted(i, IF i = 1 /\ fresh THEN <<"generate_all">> ELSE << >>)
  /\ IF i = attempt THEN status' = "connected" /\ armed' = armed \ {i}
     ELSE UNCHANGED <<status, armed>>
  /\ UNCHANGED <<fresh, mounted, attempt, websocket, rendered, agent, clicks, troubles>>

SocketOpens(i) ==
  /\ sock[i] = "connecting"
  /\ CASE ~mounted ->
            /\ sock' = [sock EXCEPT ![i] = "closing"]
            /\ UNCHANGED <<status, timers, armed, wires>>
       [] mounted /\ i # attempt ->
            /\ sock' = [sock EXCEPT ![i] = "open"] /\ Greeted(i, << >>)
            /\ UNCHANGED <<status, timers, armed>>
       [] OTHER ->
            /\ sock' = [sock EXCEPT ![i] = "open"]
            /\ Greeted(i, IF i = 1 /\ fresh THEN <<"generate_all">> ELSE << >>)
            /\ status' = "connected" /\ timers' = 0 /\ armed' = armed \ {i}
  /\ UNCHANGED <<fresh, mounted, attempt, websocket, rendered, agent, clicks, troubles>>

(* agent_connected and cf_agent_state, of any socket that is open.         *)
PageReceives(i) ==
  /\ sock[i] = "open" /\ toClient[i] # << >>
  /\ toClient' = [toClient EXCEPT ![i] = Tail(@)]
  /\ toServer' = IF Head(toClient[i])
                 THEN [toServer EXCEPT ![i] = Then(@, <<"generate_all">>)] ELSE toServer
  /\ UNCHANGED <<page, agent, clicks, troubles>>

(* handleStopGeneration, handleResumeGeneration and onNewMessage; what is  *)
(* written while the socket connects is sent when it is open.              *)
Click(request) ==
  /\ mounted /\ rendered # 0 /\ sock[rendered] = "open"
  /\ clicks < MaxClicks /\ clicks' = clicks + 1
  /\ toServer' = [toServer EXCEPT ![rendered] =
                    IF request = "user_suggestion" THEN Append(@, request)
                    ELSE Then(@, <<request>>)]
  /\ UNCHANGED <<page, agent, toClient, troubles>>

-----------------------------------------------------------------------------
(* The agent.                                                              *)

(* setState, with the flag of each of the states that are broadcast.       *)
SetIntent(flags) ==
  /\ intent' = Last(flags)
  /\ toClient' = [i \in Sockets |-> IF sock[i] = "open" THEN Then(toClient[i], flags)
                                    ELSE toClient[i]]

(* Nothing is left to generate: generateAllFiles returns at once.          *)
Complete == done /\ pending = "none"

(* generateAllFiles, called for a message.                                 *)
Starts(message) == IF run = "none" /\ ~Complete THEN message ELSE run

Taken(i, request) ==
  /\ sock[i] = "open" /\ toServer[i] # << >> /\ Head(toServer[i]) = request
  /\ toServer' = [toServer EXCEPT ![i] = Tail(@)]
  /\ UNCHANGED <<page, done, pending, clicks, troubles>>

(* Where nothing is left to generate the flag is cleared again.            *)
GenerateAll(i) ==
  /\ Taken(i, "generate_all")
  /\ IF run = "none" /\ Complete THEN SetIntent(<<TRUE, FALSE>>) ELSE SetIntent(<<TRUE>>)
  /\ run' = Starts("generate_all")
  /\ UNCHANGED <<turns, queuers, stopped>>

StopGeneration(i) ==
  /\ Taken(i, "stop_generation")
  /\ SetIntent(<<FALSE>>) /\ stopped' = TRUE
  /\ UNCHANGED <<run, turns, queuers>>

\* Mutant: a run that is resumed does not set the flag.
ResumeGeneration_NoFlag(i) ==
  /\ Taken(i, "resume_generation")
  /\ stopped' = FALSE
  /\ run' = Starts("resume_generation")
  /\ UNCHANGED <<intent, toClient, turns, queuers>>

(* The flag of a run that was resumed is not cleared when it ends.         *)
ResumeGeneration(i) ==
  /\ Taken(i, "resume_generation")
  /\ SetIntent(<<TRUE>>) /\ stopped' = FALSE
  /\ run' = Starts("resume_generation")
  /\ UNCHANGED <<turns, queuers>>

UserSuggestion(i) ==
  /\ Taken(i, "user_suggestion")
  /\ turns' = turns + 1
  /\ UNCHANGED <<intent, toClient, run, queuers, stopped>>

(* The tool queue_request of a turn.                                       *)
QueueUserRequest ==
  /\ queuers < turns /\ queuers' = queuers + 1
  /\ SetIntent(<<intent>>)
  /\ \/ pending' = "queued"
     \/ pending' = "late" /\ run # "none" /\ pending # "queued"
  /\ UNCHANGED <<page, run, done, turns, stopped, toServer, clicks, troubles>>

(* A turn ends, by an error or by starting a generation that may be needed *)
(* and that no flag is raised for.                                         *)
TurnEnds ==
  /\ turns > 0 /\ turns' = turns - 1
  /\ queuers' \in {queuers, queuers - 1} \cap 0..turns'
  /\ run' \in {run, Starts("user_suggestion")}
  /\ UNCHANGED <<page, wires, intent, done, pending, stopped, clicks, troubles>>

(* What a generation has done when it ends: all there was to do, or less.  *)
Completes == done' = TRUE /\ pending' = IF pending = "late" THEN "queued" ELSE "none"
CutShort ==
  /\ done' \in {done, TRUE}
  /\ pending' \in {"none", IF pending = "none" THEN "none" ELSE "queued"}

(* A generation ends complete, or by an error or a stop.                   *)
GenerationEnds ==
  /\ run # "none" /\ run' = "none"
  /\ \/ Completes /\ UNCHANGED troubles
     \/ CutShort /\ Trouble(0)
  /\ IF run = "generate_all" THEN SetIntent(<<FALSE>>) ELSE UNCHANGED <<intent, toClient>>
  /\ UNCHANGED <<page, turns, queuers, stopped, toServer, clicks>>

(* The object is evicted: its sockets and the turns are lost and its state *)
(* is kept.                                                                *)
Evict ==
  /\ Trouble(1) /\ run' = "none" /\ turns' = 0 /\ queuers' = 0
  /\ IF run = "none" THEN UNCHANGED <<done, pending>> ELSE CutShort
  /\ LET lost == {i \in Sockets : sock[i] = "open"}
     IN /\ sock' = [i \in Sockets |-> IF i \in lost THEN "down" ELSE sock[i]]
        /\ Cut(lost)
        /\ IF attempt \in lost THEN Heard(attempt, 1) ELSE UNCHANGED <<timers, status>>
  /\ UNCHANGED <<fresh, mounted, attempt, websocket, rendered, armed, intent, stopped,
                 clicks>>

-----------------------------------------------------------------------------
Settles == \E i \in Sockets : SocketReconnects(i) \/ SocketClosed(i) \/ SocketOpens(i)

Delivers(i) ==
  \/ PageReceives(i) \/ GenerateAll(i) \/ StopGeneration(i) \/ ResumeGeneration(i)
  \/ UserSuggestion(i)

Next ==
  \/ Connect \/ RetryTimer \/ Render \/ Settles
  \/ \E i \in Sockets : Delivers(i) \/ SocketFails(i) \/ ConnectionTimeout(i)
  \/ Online \/ Heartbeat \/ Unmount \/ QueueUserRequest \/ TurnEnds \/ GenerationEnds \/ Evict
  \/ Click("stop_generation") \/ Click("resume_generation") \/ Click("user_suggestion")

Spec == Init /\ [][Next]_vars

(* Timers fire and sockets settle, and the messages of the latest socket   *)
(* are delivered, whatever the others do.                                  *)
Fairness ==
  /\ WF_vars(Connect \/ RetryTimer \/ Settles)
  /\ WF_vars(\E i \in Sockets : i = attempt /\ Delivers(i))

FairSpec == Spec /\ Fairness

-----------------------------------------------------------------------------
(* A page that is there never gives up: its latest socket is alive, will   *)
(* be heard to close, or a retry is due.  (use-chat.ts:311-372: an event   *)
(* of an older socket must not disarm the retries of the latest.)          *)
NeverStranded ==
  mounted /\ status # "idle" => timers > 0 \/ sock[attempt] \notin {"none", "closed"}

(* A generation that was started or resumed by generate_all or             *)
(* resume_generation is one the agent means to run, unless it was stopped: *)
(* an eviction finds the flag set, whichever turns, runs and messages have *)
(* come in between.  (websocket.ts:20-126; the generation that the end of  *)
(* a turn starts has no flag: simpleGeneratorAgent.ts:2820-2825.)          *)
RunsAreIntended == run # "none" => intent \/ stopped \/ run = "user_suggestion"

(* A generation the flag is set for and that was cut off by an eviction is *)
(* started again by the page, if it stays.  (websocket.ts:20-28, handle-   *)
(* websocket-message.ts:314-329)                                           *)
GenerationResumes ==
  intent /\ run = "none" ~> run # "none" \/ ~intent \/ ~mounted

(* The flag is raised by the user only (docs/llm.md:1758-1760): once a     *)
(* stop was taken it stays cleared until generation is resumed.            *)
StopStays == stopped => ~intent
==================================================================================
