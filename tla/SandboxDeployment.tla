-------------------------- MODULE SandboxDeployment --------------------------
(***************************************************************************)
(* Deployment of the generated files to a sandbox                          *)
(* (worker/agents/services/implementations/DeploymentManager.ts).          *)
(*                                                                         *)
(* A call of deployToSandbox either joins the deployment in progress or    *)
(* owns a new one: a loop of attempts, each of which makes sure that an    *)
(* instance runs and writes files to it, with a back-off between attempts  *)
(* and a new sandbox session after errors.  Timeouts stop the waiting and  *)
(* not what is waited for: an attempt that timed out goes on as an orphan, *)
(* a loop whose owner gave up goes on retrying.  A health check polls the  *)
(* instance and redeploys; static analysis creates an instance when there  *)
(* is none.  An action is the stretch between two answers of the sandbox.  *)
(***************************************************************************)
EXTENDS Integers, Functions

CONSTANTS
  Calls,        \* slots for deployToSandbox calls
  Attempts,     \* slots for attempts, orphans included
  Checks,       \* slots for health check callbacks in progress
  Instances,    \* numbers for sandbox instances, used again once forgotten
  Sessions,     \* numbers for sandbox sessions, likewise
  Files,        \* paths of generated files
  None,
  MaxVersion,   \* bound: versions of a file
  MaxTroubles,  \* bound: failures, timeouts, deaths, evictions and analyses
  Strays,       \* are there attempts no loop waits for: those that timed
                \* out, those of a loop given up?
  Analyses,     \* does static analysis create an instance of its own?
  PartialWrites,\* may a write that is reported as done miss files?
  Redeploys     \* may a caller ask for a new instance, as the tool
                \* deploy_preview does?

ASSUME DeploymentAssumption ==
  /\ Instances \subseteq Nat /\ Sessions \subseteq Nat
  /\ None \notin Calls \cup Instances \cup Sessions
  /\ MaxVersion \in Nat /\ MaxTroubles \in Nat
  /\ {Strays, Analyses, PartialWrites, Redeploys} \subseteq BOOLEAN

VARIABLES
  sessionId,          \* persisted
  sandboxInstanceId,  \* persisted
  generatedFiles,     \* persisted: the version of every file
  promise,            \* currentDeploymentPromise: the call that owns it
  watched,            \* the instance healthCheckInterval polls
  calls, attempts, checks,
  instances,          \* in the sandboxes
  troubles

vars == <<sessionId, sandboxInstanceId, generatedFiles, promise, watched,
          calls, attempts, checks, instances, troubles>>

Version == 0..MaxVersion

(* A request names files with their contents; no file stands for all.      *)
FileSet == UNION {[S -> Version] : S \in SUBSET Files}
AllFiles == [f \in {} |-> 0]

Call ==
  [pc : {"off", "joined", "attempt", "setup", "backoff"},
   on : Calls \cup {None},              \* the call it joined
   files : FileSet,
   asked : [Files -> Version],          \* history: generatedFiles and the
   base : Instances \cup {None},        \* instance when it was called
   redeploy : BOOLEAN,
   tries : 1..3,                        \* attempt, modulo 3
   awaited : BOOLEAN,                   \* does its owner still wait?
   instance : Instances \cup {None}]

Attempt ==
  [pc : {"off", "status", "create", "write"},
   by : Calls \cup {None},              \* None: static analysis
   live : BOOLEAN,                      \* is it still waited for?
   client : Sessions \cup {None},       \* deploy's client
   creator : Sessions \cup {None},      \* createNewInstance's client
   instance : Instances \cup {None},
   files : FileSet,                     \* requested, then: to be written
   redeployed : BOOLEAN]

Check == [on : BOOLEAN, client : Sessions \cup {None},
          instance : Instances \cup {None}]

NoCall == [pc |-> "off", on |-> None, files |-> AllFiles,
           asked |-> [f \in Files |-> 0], base |-> None, redeploy |-> FALSE,
           tries |-> 1, awaited |-> FALSE, instance |-> None]
NoAttempt == [pc |-> "off", by |-> None, live |-> FALSE, client |-> None,
              creator |-> None, instance |-> None, files |-> AllFiles,
              redeployed |-> FALSE]
NoCheck == [on |-> FALSE, client |-> None, instance |-> None]
NoInstance == [session |-> None, up |-> FALSE, files |-> [f \in Files |-> 0]]

TypeOK ==
  /\ sessionId \in Sessions
  /\ sandboxInstanceId \in Instances \cup {None}
  /\ generatedFiles \in [Files -> Version]
  /\ promise \in Calls \cup {None}
  /\ watched \in Instances \cup {None}
  /\ calls \in [Calls -> Call]
  /\ attempts \in [Attempts -> Attempt]
  /\ \A a \in Attempts : attempts[a].pc \in {"status", "write"} =>
                           attempts[a].instance # None
  /\ checks \in [Checks -> Check]
  /\ instances \in [Instances -> [session : Sessions \cup {None}, up : BOOLEAN,
                                  files : [Files -> Version]]]
  /\ troubles \in 0..MaxTroubles

Init ==
  /\ sessionId \in Sessions /\ \A s \in Sessions : sessionId <= s
  /\ sandboxInstanceId = None
  /\ generatedFiles = [f \in Files |-> 0]
  /\ promise = None /\ watched = None
  /\ calls = [c \in Calls |-> NoCall]
  /\ attempts = [a \in Attempts |-> NoAttempt]
  /\ checks = [k \in Checks |-> NoCheck]
  /\ instances = [i \in Instances |-> NoInstance]
  /\ troubles = 0

Trouble == troubles < MaxTroubles /\ troubles' = troubles + 1

-----------------------------------------------------------------------------
(* The sandbox: a client reaches the instances of its own session only.    *)

Reaches(client, i) == instances[i].session = client
Healthy(client, i) == Reaches(client, i) /\ instances[i].up

Forgotten(i) ==
  /\ i \notin {sandboxInstanceId, watched}
  /\ \A c \in Calls : calls[c].instance # i
  /\ \A a \in Attempts : attempts[a].instance # i
  /\ \A k \in Checks : checks[k].instance # i

Unused(s) ==
  /\ s # sessionId
  /\ \A a \in Attempts : s \notin {attempts[a].client, attempts[a].creator}
  /\ \A k \in Checks : checks[k].client # s
  /\ \A i \in Instances : instances[i].session = s => Forgotten(i)

NewInstance(i) == Forgotten(i) /\ \A j \in Instances : Forgotten(j) => i <= j
NewSession(s) == Unused(s) /\ \A t \in Sessions : Unused(t) => s <= t

-----------------------------------------------------------------------------
\* Mutant: asks for a status also when there is no instance.
Deploying_AsksAlways(by, live, files, redeploy) ==
  [pc |-> IF redeploy THEN "create" ELSE "status",
   by |-> by, live |-> live, client |-> sessionId,
   creator |-> IF redeploy THEN sessionId ELSE None,
   instance |-> IF redeploy THEN None ELSE sandboxInstanceId,
   files |-> files, redeployed |-> FALSE]

(* deploy, up to its first await: ensureInstance asks for the status of    *)
(* the current instance, or creates one.                                   *)

Deploying(by, live, files, redeploy) ==
  LET old == IF redeploy THEN None ELSE sandboxInstanceId
  IN [pc |-> IF old = None THEN "create" ELSE "status",
      by |-> by, live |-> live, client |-> sessionId,
      creator |-> IF old = None THEN sessionId ELSE None,
      instance |-> old, files |-> files, redeployed |-> FALSE]

(* deployToSandbox: join the deployment in progress or start one.          *)
DeployToSandbox(c, files, redeploy) ==
  /\ calls[c].pc = "off"
  /\ IF promise # None
       THEN /\ calls' = [calls EXCEPT ![c] = [NoCall EXCEPT
                           !.pc = "joined", !.on = promise]]
            /\ UNCHANGED <<promise, attempts>>
       ELSE \E a \in Attempts :
              /\ attempts[a].pc = "off"
              /\ attempts' = [attempts EXCEPT ![a] = Deploying(c, TRUE, files, redeploy)]
              /\ calls' = [calls EXCEPT ![c] = [NoCall EXCEPT
                             !.pc = "attempt", !.files = files,
                             !.asked = generatedFiles,
                             !.base = IF DOMAIN files = {} THEN None ELSE sandboxInstanceId,
                             !.redeploy = redeploy, !.awaited = TRUE]]
              /\ promise' = c

(* The agent deploys some of its files as they are now, or all of them.    *)
Deploy(c) ==
  /\ \E S \in SUBSET Files, redeploy \in {FALSE, Redeploys} :
       DeployToSandbox(c, [f \in S |-> generatedFiles[f]], redeploy)
  /\ UNCHANGED <<sessionId, sandboxInstanceId, generatedFiles, watched, checks,
                 instances, troubles>>

SaveFile(f) ==
  /\ generatedFiles[f] < MaxVersion
  /\ generatedFiles' = [generatedFiles EXCEPT ![f] = @ + 1]
  /\ UNCHANGED <<sessionId, sandboxInstanceId, promise, watched, calls,
                 attempts, checks, instances, troubles>>

(* runStaticAnalysis without an instance: ensureInstance outside the       *)
(* promise, then all files are written.  Bounded with the troubles.        *)
Analyse(a) ==
  /\ Analyses /\ Trouble
  /\ attempts[a].pc = "off" /\ sandboxInstanceId = None
  /\ attempts' = [attempts EXCEPT ![a] = Deploying(None, FALSE, AllFiles, FALSE)]
  /\ UNCHANGED <<sessionId, sandboxInstanceId, generatedFiles, promise, watched,
                 calls, checks, instances>>

-----------------------------------------------------------------------------
(* The loop of executeDeploymentWithRetry.                                 *)

\* Mutant: who joined is not told.
Completed_OwnerOnly(c) ==
  /\ calls' = [calls EXCEPT ![c] = NoCall]
  /\ promise' = IF calls[c].awaited THEN None ELSE promise

\* Mutant: a loop whose owner gave up resets the promise as well.
Completed_ResetsAlways(c) ==
  /\ calls' = [d \in Calls |-> IF d = c \/ calls[d].on = c THEN NoCall ELSE calls[d]]
  /\ promise' = None

(* The promise of call c resolves: its owner, if it still waits, resets    *)
(* currentDeploymentPromise, and everyone who joined it goes on.           *)
Completed(c) ==
  /\ calls' = [d \in Calls |-> IF d = c \/ calls[d].on = c THEN NoCall ELSE calls[d]]
  /\ promise' = IF calls[c].awaited THEN None ELSE promise

(* The catch block: a new session after a session-level error and after    *)
(* every third attempt; the instance is forgotten in any case.             *)
Retry(c, sessionLevel) ==
  /\ IF sessionLevel \/ calls[c].tries = 3
       THEN \E s \in Sessions : NewSession(s) /\ sessionId' = s
       ELSE UNCHANGED sessionId
  /\ sandboxInstanceId' = None
  /\ calls' = [calls EXCEPT ![c].pc = "backoff", ![c].instance = None]
  /\ UNCHANGED promise

(* An attempt fails: nobody hears of it unless its loop still waits.       *)
Failed(a, sessionLevel) ==
  /\ attempts' = [attempts EXCEPT ![a] = NoAttempt]
  /\ IF attempts[a].live
       THEN Retry(attempts[a].by, sessionLevel)
       ELSE UNCHANGED <<sessionId, sandboxInstanceId, calls, promise>>
  /\ UNCHANGED <<generatedFiles, watched, checks>>

\* Mutant: a new instance gets the requested files only.
Writing_RequestedOnly(attempt, i, redeployed) ==
  [attempt EXCEPT !.pc = "write", !.creator = None, !.instance = i,
                  !.redeployed = redeployed,
                  !.files = IF DOMAIN @ = {} THEN generatedFiles ELSE @]

(* writeFiles is sent: all files, or those requested.                      *)
Writing(attempt, i, redeployed) ==
  [attempt EXCEPT !.pc = "write", !.creator = None, !.instance = i,
                  !.redeployed = redeployed,
                  !.files = IF redeployed \/ DOMAIN @ = {} THEN generatedFiles ELSE @]


StatusHealthy(a) ==
  /\ attempts[a].pc = "status"
  /\ Healthy(attempts[a].client, attempts[a].instance)
  /\ attempts' = [attempts EXCEPT ![a] = Writing(@, attempts[a].instance, FALSE)]
  /\ UNCHANGED <<sessionId, sandboxInstanceId, generatedFiles, promise, watched,
                 calls, checks, instances, troubles>>

StatusUnhealthy(a) ==
  /\ attempts[a].pc = "status"
  /\ IF Healthy(attempts[a].client, attempts[a].instance)
       THEN Trouble ELSE UNCHANGED troubles
  /\ attempts' = [attempts EXCEPT ![a].pc = "create", ![a].creator = sessionId,
                                  ![a].instance = None]
  /\ UNCHANGED <<sessionId, sandboxInstanceId, generatedFiles, promise, watched,
                 calls, checks, instances>>

Created(a) ==
  /\ attempts[a].pc = "create"
  /\ \E i \in Instances :
       /\ NewInstance(i)
       /\ instances' =
            [j \in Instances |->
               IF j = i THEN [NoInstance EXCEPT !.session = attempts[a].creator,
                                                !.up = TRUE]
               ELSE IF Forgotten(j) THEN NoInstance ELSE instances[j]]
       /\ sandboxInstanceId' = i
       /\ attempts' = [attempts EXCEPT ![a] = Writing(@, i, TRUE)]
  /\ UNCHANGED <<sessionId, generatedFiles, promise, watched, calls, checks, troubles>>

CreateFails(a) ==
  /\ attempts[a].pc = "create"
  /\ Trouble
  /\ \E sessionLevel \in BOOLEAN : Failed(a, sessionLevel)
  /\ UNCHANGED instances

Written(a, S) ==
  LET i == attempts[a].instance
  IN instances' = [instances EXCEPT ![i].files =
                     [f \in Files |-> IF f \in S THEN attempts[a].files[f] ELSE @[f]]]

AllWritten(a) == Written(a, DOMAIN attempts[a].files)
SomeWritten(a) == \E S \in SUBSET DOMAIN attempts[a].files : Written(a, S)

(* writeFiles answers success whatever its results say of the files.  A    *)
(* loop that still waits starts the health check for a new instance, or    *)
(* when there is none, and runs the set-up commands if there are any.      *)
WriteDone(a) ==
  LET attempt == attempts[a]
      c == attempt.by
      starts == attempt.redeployed \/ watched = None
  IN /\ attempt.pc = "write"
     /\ Reaches(attempt.client, attempt.instance)
     /\ \/ AllWritten(a) /\ UNCHANGED troubles
        \/ PartialWrites /\ Trouble /\ SomeWritten(a)
     /\ attempts' = [attempts EXCEPT ![a] = NoAttempt]
     /\ IF attempt.live
          THEN /\ watched' = IF starts THEN attempt.instance ELSE watched
               /\ \/ Completed(c)
                  \/ /\ starts
                     /\ calls' = [calls EXCEPT ![c].pc = "setup",
                                               ![c].instance = attempt.instance]
                     /\ UNCHANGED promise
          ELSE UNCHANGED <<watched, calls, promise>>
     /\ UNCHANGED <<sessionId, sandboxInstanceId, generatedFiles, checks>>

(* The client does not reach the instance, or the sandbox fails, with or   *)
(* without having written the files.                                       *)
WriteFails(a) ==
  /\ attempts[a].pc = "write"
  /\ IF Reaches(attempts[a].client, attempts[a].instance)
       THEN /\ Trouble
            /\ AllWritten(a) \/ UNCHANGED instances
            /\ \E sessionLevel \in BOOLEAN : Failed(a, sessionLevel)
       ELSE Failed(a, FALSE) /\ UNCHANGED <<instances, troubles>>

\* Mutant: the loop still takes the answer of the attempt it gave up.
AttemptTimesOut_StillLive(a) ==
  /\ Strays /\ Trouble
  /\ attempts[a].live
  /\ Retry(attempts[a].by, FALSE)
  /\ UNCHANGED <<generatedFiles, watched, attempts, checks, instances>>

(* PER_ATTEMPT_TIMEOUT_MS: the loop goes on, and so does the attempt.      *)
AttemptTimesOut(a) ==
  /\ Strays /\ Trouble
  /\ attempts[a].live
  /\ attempts' = [attempts EXCEPT ![a].live = FALSE, ![a].by = None]
  /\ Retry(attempts[a].by, FALSE)
  /\ UNCHANGED <<generatedFiles, watched, checks, instances>>

SetupDone(c) ==
  /\ calls[c].pc = "setup"
  /\ Completed(c)
  /\ UNCHANGED <<sessionId, sandboxInstanceId, generatedFiles, watched,
                 attempts, checks, instances, troubles>>

(* A time-out of the commands, or an error of the callback after them.     *)
SetupFails(c) ==
  /\ Trouble
  /\ calls[c].pc = "setup"
  /\ Retry(c, FALSE)
  /\ UNCHANGED <<generatedFiles, watched, attempts, checks, instances>>

BackoffOver(c) ==
  /\ calls[c].pc = "backoff"
  /\ calls' = [calls EXCEPT ![c].pc = "attempt", ![c].tries = (@ % 3) + 1]
  /\ \E a \in Attempts :
       /\ attempts[a].pc = "off"
       /\ attempts' = [attempts EXCEPT ![a] =
                         Deploying(c, TRUE, calls[c].files, calls[c].redeploy)]
  /\ UNCHANGED <<sessionId, sandboxInstanceId, generatedFiles, promise, watched,
                 checks, instances, troubles>>

(* MASTER_DEPLOYMENT_TIMEOUT_MS, for an owner and for one who joined.      *)
MasterTimeout(c) ==
  /\ Strays /\ Trouble
  /\ calls[c].awaited
  /\ calls' = [calls EXCEPT ![c].awaited = FALSE]
  /\ promise' = None
  /\ UNCHANGED <<sessionId, sandboxInstanceId, generatedFiles, watched,
                 attempts, checks, instances>>

JoinTimeout(c) ==
  /\ Strays /\ Trouble
  /\ calls[c].pc = "joined"
  /\ calls' = [calls EXCEPT ![c] = NoCall]
  /\ UNCHANGED <<sessionId, sandboxInstanceId, generatedFiles, promise, watched,
                 attempts, checks, instances>>

-----------------------------------------------------------------------------
(* The health check: its callback asks for the status and redeploys.       *)

HealthTick(k) ==
  /\ watched # None /\ ~checks[k].on
  /\ checks' = [checks EXCEPT ![k] = [on |-> TRUE, client |-> sessionId,
                                      instance |-> watched]]
  /\ UNCHANGED <<sessionId, sandboxInstanceId, generatedFiles, promise, watched,
                 calls, attempts, instances, troubles>>

FoundHealthy(k) ==
  /\ checks[k].on
  /\ Healthy(checks[k].client, checks[k].instance)
  /\ checks' = [checks EXCEPT ![k] = NoCheck]
  /\ UNCHANGED <<sessionId, sandboxInstanceId, generatedFiles, promise, watched,
                 calls, attempts, instances, troubles>>

FoundUnhealthy(k) ==
  /\ checks[k].on
  /\ IF Healthy(checks[k].client, checks[k].instance)
       THEN Trouble ELSE UNCHANGED troubles
  /\ checks' = [checks EXCEPT ![k] = NoCheck]
  /\ watched' = None
  /\ \E c \in Calls : DeployToSandbox(c, AllFiles, FALSE)
  /\ UNCHANGED <<sessionId, sandboxInstanceId, generatedFiles, instances>>

InstanceDies(i) ==
  /\ Trouble
  /\ instances[i].up /\ ~Forgotten(i)
  /\ instances' = [instances EXCEPT ![i].up = FALSE]
  /\ UNCHANGED <<sessionId, sandboxInstanceId, generatedFiles, promise, watched,
                 calls, attempts, checks>>

(* The Durable Object is evicted: only the persisted state stays.          *)
Evicted ==
  /\ Trouble
  /\ promise' = None /\ watched' = None
  /\ calls' = [c \in Calls |-> NoCall]
  /\ attempts' = [a \in Attempts |-> NoAttempt]
  /\ checks' = [k \in Checks |-> NoCheck]
  /\ UNCHANGED <<sessionId, sandboxInstanceId, generatedFiles, instances>>

AttemptStep(a) ==
  \/ StatusHealthy(a) \/ StatusUnhealthy(a) \/ Created(a) \/ CreateFails(a)
  \/ WriteDone(a) \/ WriteFails(a)

CallStep(c) == SetupDone(c) \/ BackoffOver(c)

CheckStep(k) == FoundHealthy(k) \/ FoundUnhealthy(k)

Next ==
  \/ \E c \in Calls : Deploy(c) \/ CallStep(c) \/ SetupFails(c)
                        \/ MasterTimeout(c) \/ JoinTimeout(c)
  \/ \E a \in Attempts : Analyse(a) \/ AttemptStep(a) \/ AttemptTimesOut(a)
  \/ \E k \in Checks : HealthTick(k) \/ CheckStep(k)
  \/ \E f \in Files : SaveFile(f)
  \/ \E i \in Instances : InstanceDies(i)
  \/ Evicted

Spec == Init /\ [][Next]_vars

(* The sandbox answers every call, back-offs end, the interval ticks and   *)
(* its callbacks run.                                                      *)
FairSpec ==
  /\ Spec
  /\ \A a \in Attempts : WF_vars(AttemptStep(a))
  /\ \A c \in Calls : WF_vars(SetupDone(c)) /\ SF_vars(BackoffOver(c))
  /\ \A k \in Checks : WF_vars(HealthTick(k)) /\ SF_vars(CheckStep(k))

-----------------------------------------------------------------------------
(* Safety.                                                                 *)

(* currentDeploymentPromise is the promise of the one call that still      *)
(* waits for its own deployment: no late loop resets the promise of        *)
(* another, and no two calls own a deployment at once.                     *)
PromiseExact == \A c \in Calls : calls[c].awaited <=> promise = c

(* A loop waits for one attempt at a time, and every attempt somebody      *)
(* waits for has its loop waiting.                                         *)
OneLiveAttempt ==
  /\ \A a, b \in Attempts : attempts[a].live /\ attempts[b].live
                             /\ attempts[a].by = attempts[b].by => a = b
  /\ \A c \in Calls : calls[c].pc = "attempt" <=>
                         \E a \in Attempts : attempts[a].live /\ attempts[a].by = c

(* Call c returns the preview of an instance.                              *)
Live(c) == {a \in Attempts : attempts[a].live /\ attempts[a].by = c}
Finishes(c) == /\ SetupDone(c) \/ \E a \in Live(c) : WriteDone(a)
               /\ calls'[c].pc = "off"
Preview(c) == IF calls[c].pc = "setup" THEN calls[c].instance
              ELSE attempts[CHOOSE a \in Live(c) : TRUE].instance
Asked(i, c) == IF DOMAIN calls[c].files = {} \/ i # calls[c].base
                 THEN Files ELSE DOMAIN calls[c].files
Has(i, c) == \A f \in Asked(i, c) : instances'[i].files[f] >= calls[c].asked[f]

(* Where no attempt goes astray and static analysis creates no instance,   *)
(* the call that owns a deployment returns the preview of an instance that *)
(* has the files of the call, or newer ones, whatever failed, died or      *)
(* redeployed in between; a new instance has every file.                   *)
OwnFilesDeployed == [][\A c \in Calls : Finishes(c) => Has(Preview(c), c)]_vars

-----------------------------------------------------------------------------
(* Liveness.                                                               *)

(* Every deployment comes to its end once the troubles are over, also one  *)
(* that competes with orphans, abandoned loops and static analysis.        *)
DeploymentsEnd == \A c \in Calls : []<>(calls[c].pc = "off")

Polled == watched # None /\ watched = sandboxInstanceId
Current == sandboxInstanceId # None /\ instances[sandboxInstanceId].up
Asleep == watched = None /\ \A c \in Calls : calls[c].pc = "off"
PollsAnother ==
  /\ None \notin {watched, sandboxInstanceId} /\ watched # sandboxInstanceId
  /\ instances[watched].up

=============================================================================
