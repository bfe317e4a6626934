----------------------- MODULE SandboxDeploymentProofs -----------------------
(***************************************************************************)
(* Proofs about SandboxDeployment, for every number of calls, attempts,    *)
(* instances, sessions, files and troubles.                                *)
(***************************************************************************)
EXTENDS SandboxDeployment, TLAPS

-----------------------------------------------------------------------------
(* The records that the actions build.                                     *)

LEMMA FileSets ==
  /\ AllFiles \in FileSet
  /\ \A g \in [Files -> Version] :
       g \in FileSet /\ \A S \in SUBSET Files : [f \in S |-> g[f]] \in FileSet
  /\ \A s \in FileSet : DOMAIN s \subseteq Files /\ \A f \in DOMAIN s : s[f] \in Version
<1>1. AllFiles \in FileSet
  <2>1. AllFiles \in [{} -> Version]
    BY DEF AllFiles
  <2>2. QED
    BY <2>1 DEF FileSet
<1>2. ASSUME NEW g \in [Files -> Version], NEW S \in SUBSET Files
      PROVE  [f \in S |-> g[f]] \in FileSet
  <2>1. [f \in S |-> g[f]] \in [S -> Version]
    BY <1>2
  <2>2. QED
    BY <2>1 DEF FileSet
<1>3. ASSUME NEW g \in [Files -> Version]
      PROVE  g \in FileSet
  BY <1>3 DEF FileSet
<1>4. ASSUME NEW s \in FileSet
      PROVE  DOMAIN s \subseteq Files /\ \A f \in DOMAIN s : s[f] \in Version
  <2>1. PICK S \in SUBSET Files : s \in [S -> Version]
    BY <1>4 DEF FileSet
  <2>2. QED
    BY <2>1
<1>5. QED
  BY <1>1, <1>2, <1>3, <1>4

LEMMA Blank ==
  /\ NoCall \in Call
  /\ NoCall.pc = "off" /\ NoCall.on = None /\ ~NoCall.awaited
  /\ NoAttempt \in Attempt
  /\ NoAttempt.pc = "off" /\ ~NoAttempt.live
  /\ NoCheck \in Check
  /\ NoInstance \in [session : Sessions \cup {None}, up : BOOLEAN,
                     files : [Files -> Version]]
<1>1. 0 \in Version
  BY DeploymentAssumption DEF Version
<1>2. QED
  BY <1>1, FileSets DEF NoCall, Call, NoAttempt, Attempt, NoCheck, Check, NoInstance

(* deploy asks for a status only when there is an instance.                *)
LEMMA DeployingType ==
  ASSUME TypeOK, NEW by \in Calls \cup {None}, NEW live \in BOOLEAN,
         NEW files \in FileSet, NEW redeploy \in BOOLEAN
  PROVE  LET attempt == Deploying(by, live, files, redeploy)
         IN /\ attempt \in Attempt
            /\ attempt.by = by /\ attempt.live = live
            /\ attempt.pc \in {"status", "create"}
            /\ attempt.pc = "status" => attempt.instance # None
BY DEF Deploying, Attempt, TypeOK

LEMMA WritingType ==
  ASSUME TypeOK, NEW attempt \in Attempt, NEW i \in Instances, NEW redeployed \in BOOLEAN
  PROVE  LET w == Writing(attempt, i, redeployed)
         IN /\ w \in Attempt
            /\ w.by = attempt.by /\ w.live = attempt.live
            /\ w.pc = "write" /\ w.instance = i
<1>1. generatedFiles \in FileSet
  BY FileSets DEF TypeOK
<1>2. QED
  BY <1>1 DEF Writing, Attempt

LEMMA WrittenType ==
  ASSUME TypeOK, NEW a \in Attempts, NEW S \in SUBSET DOMAIN attempts[a].files,
         Written(a, S)
  PROVE  instances' \in [Instances -> [session : Sessions \cup {None}, up : BOOLEAN,
                                       files : [Files -> Version]]]
<1>1. attempts[a].files \in FileSet
  BY DEF TypeOK, Attempt
<1>2. /\ S \subseteq Files
      /\ \A f \in S : attempts[a].files[f] \in Version
  BY <1>1, FileSets
<1>3. QED
  BY <1>2 DEF Written, TypeOK

-----------------------------------------------------------------------------
(* The inductive invariant: who owns a deployment has a loop running, who  *)
(* joined one does nothing else, and an attempt that is waited for is in   *)
(* progress and belongs to a call.                                         *)

CallShape ==
  \A c \in Calls :
    /\ calls[c].awaited => calls[c].pc \in {"attempt", "setup", "backoff"}
    /\ calls[c].on # None => calls[c].pc = "joined"

AttemptShape ==
  \A a \in Attempts : attempts[a].live => attempts[a].pc # "off" /\ attempts[a].by \in Calls

Shape == CallShape /\ AttemptShape /\ PromiseExact /\ OneLiveAttempt

IInv == TypeOK /\ Shape

-----------------------------------------------------------------------------
(* What the pieces of a step do to the calls.                              *)

(* A promise that resolves: the call and those who joined it are done.     *)
LEMMA CompletedKeeps ==
  ASSUME TypeOK, NEW c \in Calls, Completed(c)
  PROVE  /\ calls' \in [Calls -> Call]
         /\ promise' \in Calls \cup {None}
         /\ \A d \in Calls : calls'[d] = IF d = c \/ calls[d].on = c
                                           THEN NoCall ELSE calls[d]
<1>1. promise' \in Calls \cup {None}
  BY DEF Completed, TypeOK
<1>2. calls' = [d \in Calls |-> IF d = c \/ calls[d].on = c THEN NoCall ELSE calls[d]]
  BY DEF Completed
<1>3. calls \in [Calls -> Call] /\ NoCall \in Call
  BY Blank DEF TypeOK
<1>4. \A d \in Calls : (IF d = c \/ calls[d].on = c THEN NoCall ELSE calls[d]) \in Call
  BY <1>3
<1>5. calls' \in [Calls -> Call]
  BY <1>2, <1>4
<1>6. \A d \in Calls : calls'[d] = IF d = c \/ calls[d].on = c
                                      THEN NoCall ELSE calls[d]
  BY <1>2
<1>7. QED
  BY <1>1, <1>5, <1>6

LEMMA RetryKeeps ==
  ASSUME TypeOK, NEW c \in Calls, NEW sessionLevel \in BOOLEAN, Retry(c, sessionLevel)
  PROVE  /\ sessionId' \in Sessions
         /\ sandboxInstanceId' \in Instances \cup {None}
         /\ promise' = promise
         /\ calls' \in [Calls -> Call]
         /\ calls'[c].pc = "backoff"
         /\ \A d \in Calls : /\ calls'[d].awaited = calls[d].awaited
                             /\ calls'[d].on = calls[d].on
                             /\ d # c => calls'[d] = calls[d]
<1>1. sessionId' \in Sessions /\ sandboxInstanceId' \in Instances \cup {None}
  BY DEF Retry, TypeOK
<1>2. calls \in [Calls -> Call] /\ calls[c] \in Call
  BY DEF TypeOK
<1>3. [calls[c] EXCEPT !.pc = "backoff", !.instance = None] \in Call
  BY <1>2 DEF Call
<1>4. calls' = [calls EXCEPT ![c] = [calls[c] EXCEPT !.pc = "backoff", !.instance = None]]
  BY <1>2 DEF Retry
<1>5. calls' \in [Calls -> Call]
  BY <1>2, <1>3, <1>4
<1>6. /\ calls'[c] = [calls[c] EXCEPT !.pc = "backoff", !.instance = None]
      /\ \A d \in Calls : d # c => calls'[d] = calls[d]
  BY <1>2, <1>4
<1>7. /\ calls'[c].pc = "backoff"
      /\ calls'[c].awaited = calls[c].awaited
      /\ calls'[c].on = calls[c].on
  BY <1>2, <1>6 DEF Call
<1>8. promise' = promise
  BY DEF Retry
<1>9. QED
  BY <1>1, <1>5, <1>6, <1>7, <1>8

(* Steps that leave the calls alone and change no attempt somebody waits   *)
(* for keep the shape.                                                     *)
LEMMA SteadyShape ==
  ASSUME Shape, calls' = calls, promise' = promise,
         \A a \in Attempts : /\ attempts'[a].live = attempts[a].live
                             /\ attempts[a].live => /\ attempts'[a].by = attempts[a].by
                                                    /\ attempts'[a].pc # "off"
  PROVE  Shape'
<1>1. CallShape' /\ AttemptShape' /\ PromiseExact'
  BY DEF Shape, CallShape, AttemptShape, PromiseExact
<1>2. OneLiveAttempt'
  BY DEF Shape, OneLiveAttempt
<1>3. QED
  BY <1>1, <1>2 DEF Shape

(* A loop that stops waiting for its attempt: nobody waits for attempt a   *)
(* any more, and its call is in no other attempt.                          *)
LEMMA GivenUpShape ==
  ASSUME TypeOK, Shape, NEW a \in Attempts, NEW c \in Calls,
         attempts[a].live, attempts[a].by = c,
         \A b \in Attempts : IF b = a THEN ~attempts'[b].live
                                      ELSE attempts'[b] = attempts[b],
         calls'[c].pc # "attempt",
         calls'[c].awaited => calls'[c].pc \in {"setup", "backoff"},
         calls'[c].on = None,
         \A d \in Calls : \/ d = c
                          \/ calls'[d] = calls[d]
                          \/ calls[d].on = c /\ calls'[d] = NoCall,
         PromiseExact'
  PROVE  Shape'
<1>1. CallShape'
  BY Blank DEF Shape, CallShape
<1>2. AttemptShape'
  BY DEF Shape, AttemptShape
<1>3. ASSUME NEW d \in Calls
      PROVE  calls'[d].pc = "attempt" <=>
               \E b \in Attempts : attempts'[b].live /\ attempts'[b].by = d
  <2>1. calls[d].pc = "attempt" <=> \E b \in Attempts : attempts[b].live /\ attempts[b].by = d
    BY DEF Shape, OneLiveAttempt
  <2>2. CASE d = c
    BY <2>2 DEF Shape, OneLiveAttempt
  <2>3. CASE d # c /\ calls'[d] = calls[d]
    BY <2>1, <2>3
  <2>4. CASE d # c /\ calls[d].on = c /\ calls'[d] = NoCall
    <3>1. calls[d].pc = "joined"
      BY <2>4, DeploymentAssumption DEF Shape, CallShape
    <3>2. QED
      BY <2>1, <2>4, <3>1, Blank
  <2>5. QED
    BY <2>2, <2>3, <2>4
<1>4. OneLiveAttempt'
  BY <1>3 DEF Shape, OneLiveAttempt
<1>5. QED
  BY <1>1, <1>2, <1>4 DEF Shape

(* The same for a call that waits for no attempt.                          *)
LEMMA UnattendedShape ==
  ASSUME TypeOK, Shape, NEW c \in Calls,
         attempts' = attempts,
         calls[c].pc # "attempt", calls'[c].pc # "attempt",
         calls'[c].awaited => calls'[c].pc \in {"setup", "backoff"},
         calls'[c].on # None => calls'[c].pc = "joined",
         \A d \in Calls : \/ d = c
                          \/ calls'[d] = calls[d]
                          \/ calls[d].on = c /\ calls'[d] = NoCall,
         PromiseExact'
  PROVE  Shape'
<1>1. CallShape'
  BY Blank DEF Shape, CallShape
<1>2. AttemptShape'
  BY DEF Shape, AttemptShape
<1>3. ASSUME NEW d \in Calls
      PROVE  calls'[d].pc = "attempt" <=> calls[d].pc = "attempt"
  BY Blank, DeploymentAssumption DEF Shape, CallShape
<1>4. OneLiveAttempt'
  BY <1>3 DEF Shape, OneLiveAttempt
<1>5. QED
  BY <1>1, <1>2, <1>4 DEF Shape

(* A loop that starts an attempt: a was free and its call was in none.     *)
LEMMA AttemptingShape ==
  ASSUME TypeOK, Shape, NEW a \in Attempts, NEW c \in Calls,
         attempts[a].pc = "off", calls[c].pc # "attempt",
         attempts'[a].live, attempts'[a].by = c, attempts'[a].pc # "off",
         \A b \in Attempts : b # a => attempts'[b] = attempts[b],
         calls'[c].pc = "attempt", calls'[c].on = None,
         \A d \in Calls : d # c => calls'[d] = calls[d],
         PromiseExact'
  PROVE  Shape'
<1>1. ~attempts[a].live
  BY DEF Shape, AttemptShape
<1>2. CallShape' /\ AttemptShape'
  BY DEF Shape, CallShape, AttemptShape
<1>3. ASSUME NEW d \in Calls
      PROVE  calls'[d].pc = "attempt" <=>
               \E b \in Attempts : attempts'[b].live /\ attempts'[b].by = d
  BY <1>1 DEF Shape, OneLiveAttempt
<1>4. ASSUME NEW b \in Attempts, NEW e \in Attempts,
             attempts'[b].live, attempts'[e].live, attempts'[b].by = attempts'[e].by
      PROVE  b = e
  <2>1. \A x \in Attempts : attempts[x].live => attempts[x].by # c
    BY DEF Shape, OneLiveAttempt
  <2>2. QED
    BY <1>1, <1>4, <2>1 DEF Shape, OneLiveAttempt
<1>5. OneLiveAttempt'
  BY <1>3, <1>4 DEF OneLiveAttempt
<1>6. QED
  BY <1>2, <1>5 DEF Shape

(* A resolved promise is no longer anyone's.                               *)
LEMMA CompletedPromise ==
  ASSUME TypeOK, Shape, NEW c \in Calls, Completed(c)
  PROVE  PromiseExact' /\ calls'[c].pc = "off" /\ calls'[c].on = None /\ ~calls'[c].awaited
<1>1. \A d \in Calls : calls[d].on = c => ~calls[d].awaited
  BY DeploymentAssumption DEF Shape, CallShape
<1>2. PromiseExact
  BY DEF Shape
<1>3. \A d \in Calls : calls'[d].awaited <=> (calls[d].awaited /\ d # c)
  BY <1>1, CompletedKeeps, Blank
<1>4. PromiseExact'
  BY <1>2, <1>3, DeploymentAssumption DEF PromiseExact, Completed
<1>5. QED
  BY <1>4, CompletedKeeps, Blank

-----------------------------------------------------------------------------
(* One lemma per kind of step.                                             *)

LEMMA DeployToSandboxKeeps ==
  ASSUME IInv, NEW c \in Calls, NEW files \in FileSet, NEW redeploy \in BOOLEAN,
         DeployToSandbox(c, files, redeploy)
  PROVE  /\ calls' \in [Calls -> Call]
         /\ promise' \in Calls \cup {None}
         /\ attempts' \in [Attempts -> Attempt]
         /\ \A a \in Attempts : attempts'[a].pc \in {"status", "write"} =>
                                  attempts'[a].instance # None
         /\ Shape'
<1> USE DEF IInv
<1>1. CASE promise # None
  <2> DEFINE j == [NoCall EXCEPT !.pc = "joined", !.on = promise]
  <2>1. /\ calls' = [calls EXCEPT ![c] = j]
        /\ promise' = promise /\ attempts' = attempts
        /\ calls[c].pc = "off"
    BY <1>1 DEF DeployToSandbox
  <2>2. j \in Call /\ j.pc = "joined" /\ ~j.awaited
    BY Blank DEF TypeOK, Call
  <2> HIDE DEF j
  <2>3. calls' \in [Calls -> Call]
    BY <2>1, <2>2 DEF TypeOK
  <2>4. /\ calls'[c] = j
        /\ \A d \in Calls : d # c => calls'[d] = calls[d]
    BY <2>1 DEF TypeOK
  <2>5. PromiseExact'
    BY <2>1, <2>2, <2>4 DEF Shape, CallShape, PromiseExact
  <2>6. Shape'
    BY <2>1, <2>2, <2>4, <2>5, UnattendedShape
  <2>7. QED
    BY <2>1, <2>3, <2>6 DEF TypeOK
<1>2. CASE promise = None
  <2> DEFINE n == [NoCall EXCEPT !.pc = "attempt", !.files = files,
                     !.asked = generatedFiles,
                     !.base = IF DOMAIN files = {} THEN None ELSE sandboxInstanceId,
                     !.redeploy = redeploy, !.awaited = TRUE]
             new == Deploying(c, TRUE, files, redeploy)
  <2>1. PICK a \in Attempts :
          /\ attempts[a].pc = "off"
          /\ attempts' = [attempts EXCEPT ![a] = new]
          /\ calls' = [calls EXCEPT ![c] = n]
          /\ promise' = c
          /\ calls[c].pc = "off"
    BY <1>2 DEF DeployToSandbox
  <2>2. n \in Call /\ n.pc = "attempt" /\ n.awaited /\ n.on = None
    BY Blank DEF TypeOK, Call
  <2>3. /\ new \in Attempt /\ new.by = c /\ new.live
        /\ new.pc \in {"status", "create"}
        /\ new.pc = "status" => new.instance # None
    BY DeployingType
  <2> HIDE DEF n, new
  <2>4. /\ calls' \in [Calls -> Call] /\ attempts' \in [Attempts -> Attempt]
        /\ calls'[c] = n
        /\ \A d \in Calls : d # c => calls'[d] = calls[d]
        /\ attempts'[a] = new
        /\ \A b \in Attempts : b # a => attempts'[b] = attempts[b]
    BY <2>1, <2>2, <2>3 DEF TypeOK
  <2>5. PromiseExact'
    BY <1>2, <2>1, <2>2, <2>4, DeploymentAssumption DEF Shape, PromiseExact
  <2>6. Shape'
    BY <2>1, <2>2, <2>3, <2>4, <2>5, AttemptingShape
  <2>7. QED
    BY <2>1, <2>3, <2>4, <2>6 DEF TypeOK
<1>3. QED
  BY <1>1, <1>2

LEMMA DeployKeeps ==
  ASSUME IInv, NEW c \in Calls, Deploy(c)
  PROVE  IInv'
<1>1. PICK S \in SUBSET Files, redeploy \in BOOLEAN :
        DeployToSandbox(c, [f \in S |-> generatedFiles[f]], redeploy)
  BY DeploymentAssumption DEF Deploy
<1>2. [f \in S |-> generatedFiles[f]] \in FileSet
  BY FileSets DEF IInv, TypeOK
<1>3. /\ calls' \in [Calls -> Call]
      /\ promise' \in Calls \cup {None}
      /\ attempts' \in [Attempts -> Attempt]
      /\ \A a \in Attempts : attempts'[a].pc \in {"status", "write"} =>
                               attempts'[a].instance # None
      /\ Shape'
  BY <1>1, <1>2, DeployToSandboxKeeps
<1>4. TypeOK'
  BY <1>3 DEF Deploy, IInv, TypeOK
<1>5. QED
  BY <1>3, <1>4 DEF IInv

LEMMA SaveFileKeeps ==
  ASSUME IInv, NEW f \in Files, SaveFile(f)
  PROVE  IInv'
<1>1. generatedFiles' \in [Files -> Version]
  BY DeploymentAssumption DEF SaveFile, IInv, TypeOK, Version
<1>2. TypeOK'
  BY <1>1 DEF SaveFile, IInv, TypeOK
<1>3. Shape'
  BY SteadyShape DEF SaveFile, IInv, Shape, AttemptShape
<1>4. QED
  BY <1>2, <1>3 DEF IInv

LEMMA AnalyseKeeps ==
  ASSUME IInv, NEW a \in Attempts, Analyse(a)
  PROVE  IInv'
<1> DEFINE new == Deploying(None, FALSE, AllFiles, FALSE)
<1>1. /\ attempts' = [attempts EXCEPT ![a] = new]
      /\ attempts[a].pc = "off"
      /\ calls' = calls /\ promise' = promise
  BY DEF Analyse
<1>2. /\ new \in Attempt /\ ~new.live
      /\ new.pc = "status" => new.instance # None
      /\ new.pc # "write"
  BY DeployingType, FileSets DEF IInv
<1> HIDE DEF new
<1>3. /\ attempts' \in [Attempts -> Attempt] /\ attempts'[a] = new
      /\ \A b \in Attempts : b # a => attempts'[b] = attempts[b]
  BY <1>1, <1>2 DEF IInv, TypeOK
<1>4. TypeOK'
  <2>1. troubles' \in 0..MaxTroubles
    BY DeploymentAssumption DEF Analyse, Trouble, IInv, TypeOK
  <2>2. QED
    BY <1>1, <1>2, <1>3, <2>1 DEF Analyse, IInv, TypeOK
<1>5. ~attempts[a].live
  BY <1>1 DEF IInv, Shape, AttemptShape
<1>6. new.live = FALSE /\ attempts[a].live = FALSE
  BY <1>2, <1>5 DEF IInv, TypeOK, Attempt
<1>7. Shape'
  BY <1>1, <1>3, <1>6, SteadyShape DEF IInv, Shape, AttemptShape
<1>8. QED
  BY <1>4, <1>7 DEF IInv

(* An answer that lets the attempt write.                                  *)
LEMMA WritingKeeps ==
  ASSUME IInv, NEW a \in Attempts, NEW i \in Instances, NEW redeployed \in BOOLEAN,
         attempts[a].pc # "off",
         attempts' = [attempts EXCEPT ![a] = Writing(@, i, redeployed)],
         calls' = calls, promise' = promise
  PROVE  /\ attempts' \in [Attempts -> Attempt]
         /\ \A b \in Attempts : attempts'[b].pc \in {"status", "write"} =>
                                  attempts'[b].instance # None
         /\ Shape'
<1> DEFINE w == Writing(attempts[a], i, redeployed)
<1>1. attempts[a] \in Attempt /\ attempts \in [Attempts -> Attempt]
  BY DEF IInv, TypeOK
<1>2. /\ w \in Attempt /\ w.by = attempts[a].by /\ w.live = attempts[a].live
      /\ w.pc = "write" /\ w.instance = i
  BY <1>1, WritingType DEF IInv
<1>3. attempts' = [attempts EXCEPT ![a] = w]
  OBVIOUS
<1> HIDE DEF w
<1>4. /\ attempts' \in [Attempts -> Attempt] /\ attempts'[a] = w
      /\ \A b \in Attempts : b # a => attempts'[b] = attempts[b]
  BY <1>1, <1>2, <1>3
<1>5. Shape'
  BY <1>2, <1>4, SteadyShape DEF IInv, Shape, AttemptShape
<1>6. \A b \in Attempts : attempts'[b].pc \in {"status", "write"} =>
                            attempts'[b].instance # None
  BY <1>2, <1>4, DeploymentAssumption DEF IInv, TypeOK
<1>7. QED
  BY <1>4, <1>5, <1>6

LEMMA StatusHealthyKeeps ==
  ASSUME IInv, NEW a \in Attempts, StatusHealthy(a)
  PROVE  IInv'
<1>1. attempts[a].instance \in Instances
  BY DEF StatusHealthy, IInv, TypeOK, Attempt
<1>2. /\ attempts' \in [Attempts -> Attempt]
      /\ \A b \in Attempts : attempts'[b].pc \in {"status", "write"} =>
                               attempts'[b].instance # None
      /\ Shape'
  BY <1>1, WritingKeeps DEF StatusHealthy
<1>3. TypeOK'
  BY <1>2 DEF StatusHealthy, IInv, TypeOK
<1>4. QED
  BY <1>2, <1>3 DEF IInv

LEMMA StatusUnhealthyKeeps ==
  ASSUME IInv, NEW a \in Attempts, StatusUnhealthy(a)
  PROVE  IInv'
<1> DEFINE w == [attempts[a] EXCEPT !.pc = "create", !.creator = sessionId,
                                    !.instance = None]
<1>1. attempts[a] \in Attempt /\ attempts \in [Attempts -> Attempt]
  BY DEF IInv, TypeOK
<1>2. w \in Attempt /\ w.live = attempts[a].live /\ w.by = attempts[a].by /\ w.pc = "create"
  BY <1>1 DEF IInv, TypeOK, Attempt
<1>3. attempts' = [attempts EXCEPT ![a] = w]
  BY <1>1 DEF StatusUnhealthy
<1> HIDE DEF w
<1>4. /\ attempts' \in [Attempts -> Attempt] /\ attempts'[a] = w
      /\ \A b \in Attempts : b # a => attempts'[b] = attempts[b]
  BY <1>1, <1>2, <1>3
<1>5. Shape'
  BY <1>2, <1>4, SteadyShape DEF StatusUnhealthy, IInv, Shape, AttemptShape
<1>6. troubles' \in 0..MaxTroubles
  BY DeploymentAssumption DEF StatusUnhealthy, Trouble, IInv, TypeOK
<1>7. TypeOK'
  BY <1>2, <1>4, <1>6 DEF StatusUnhealthy, IInv, TypeOK
<1>8. QED
  BY <1>5, <1>7 DEF IInv

LEMMA CreatedKeeps ==
  ASSUME IInv, NEW a \in Attempts, Created(a)
  PROVE  IInv'
<1>1. PICK i \in Instances :
        /\ instances' =
             [j \in Instances |->
                IF j = i THEN [NoInstance EXCEPT !.session = attempts[a].creator,
                                                 !.up = TRUE]
                ELSE IF Forgotten(j) THEN NoInstance ELSE instances[j]]
        /\ sandboxInstanceId' = i
        /\ attempts' = [attempts EXCEPT ![a] = Writing(@, i, TRUE)]
  BY DEF Created
<1> DEFINE I == [session : Sessions \cup {None}, up : BOOLEAN, files : [Files -> Version]]
           n == [NoInstance EXCEPT !.session = attempts[a].creator, !.up = TRUE]
<1>2. NoInstance \in I /\ n \in I
  BY Blank DEF IInv, TypeOK, Attempt
<1>3. \A j \in Instances :
        (IF j = i THEN n ELSE IF Forgotten(j) THEN NoInstance ELSE instances[j]) \in I
  BY <1>2 DEF IInv, TypeOK
<1>4. instances' \in [Instances -> I]
  <2> HIDE DEF n, I
  <2>1. instances' = [j \in Instances |->
                       IF j = i THEN n ELSE IF Forgotten(j) THEN NoInstance ELSE instances[j]]
    BY <1>1 DEF n
  <2>2. QED
    BY <1>3, <2>1
<1>5. /\ attempts' \in [Attempts -> Attempt]
      /\ \A b \in Attempts : attempts'[b].pc \in {"status", "write"} =>
                               attempts'[b].instance # None
      /\ Shape'
  BY <1>1, WritingKeeps DEF Created
<1>6. TypeOK'
  BY <1>1, <1>4, <1>5 DEF Created, IInv, TypeOK
<1>7. QED
  BY <1>5, <1>6 DEF IInv

(* An attempt fails.                                                       *)
LEMMA FailedKeeps ==
  ASSUME IInv, NEW a \in Attempts, NEW sessionLevel \in BOOLEAN, Failed(a, sessionLevel)
  PROVE  /\ sessionId' \in Sessions
         /\ sandboxInstanceId' \in Instances \cup {None}
         /\ promise' \in Calls \cup {None}
         /\ calls' \in [Calls -> Call]
         /\ attempts' \in [Attempts -> Attempt]
         /\ \A b \in Attempts : attempts'[b].pc \in {"status", "write"} =>
                                  attempts'[b].instance # None
         /\ Shape'
<1>1. TypeOK /\ Shape /\ attempts \in [Attempts -> Attempt]
  BY DEF IInv, TypeOK
<1>2. /\ attempts' \in [Attempts -> Attempt] /\ attempts'[a] = NoAttempt
      /\ \A b \in Attempts : b # a => attempts'[b] = attempts[b]
  BY <1>1, Blank DEF Failed
<1>3. \A b \in Attempts : attempts'[b].pc \in {"status", "write"} =>
                            attempts'[b].instance # None
  BY <1>1, <1>2, Blank DEF TypeOK
<1>4. CASE attempts[a].live
  <2> DEFINE c == attempts[a].by
  <2>1. c \in Calls
    BY <1>1, <1>4 DEF Shape, AttemptShape
  <2>2. Retry(c, sessionLevel)
    BY <1>4 DEF Failed
  <2> HIDE DEF c
  <2>3. /\ sessionId' \in Sessions
        /\ sandboxInstanceId' \in Instances \cup {None}
        /\ promise' = promise
        /\ calls' \in [Calls -> Call]
        /\ calls'[c].pc = "backoff"
        /\ \A d \in Calls : /\ calls'[d].awaited = calls[d].awaited
                            /\ calls'[d].on = calls[d].on
                            /\ d # c => calls'[d] = calls[d]
    BY <1>1, <2>1, <2>2, RetryKeeps
  <2>4. calls[c].pc = "attempt"
    BY <1>1, <1>4, <2>1 DEF Shape, OneLiveAttempt, c
  <2>5. PromiseExact'
    BY <1>1, <2>3 DEF Shape, PromiseExact
  <2>6. calls[c].on = None
    BY <1>1, <2>1, <2>4 DEF Shape, CallShape
  <2>7. Shape'
    BY <1>1, <1>2, <1>4, <2>1, <2>3, <2>5, <2>6, Blank, GivenUpShape DEF c
  <2>8. QED
    BY <1>1, <1>2, <1>3, <2>3, <2>7 DEF TypeOK
<1>5. CASE ~attempts[a].live
  <2>1. /\ sessionId' = sessionId /\ sandboxInstanceId' = sandboxInstanceId
        /\ calls' = calls /\ promise' = promise
    BY <1>5 DEF Failed
  <2>2. attempts[a].live = FALSE /\ NoAttempt.live = FALSE
    BY <1>1, <1>5, Blank DEF Attempt
  <2>3. Shape'
    BY <1>1, <1>2, <2>1, <2>2, SteadyShape DEF Shape, AttemptShape
  <2>4. QED
    BY <1>1, <1>2, <1>3, <2>1, <2>3 DEF TypeOK
<1>6. QED
  BY <1>4, <1>5

LEMMA CreateFailsKeeps ==
  ASSUME IInv, NEW a \in Attempts, CreateFails(a)
  PROVE  IInv'
<1>1. PICK sessionLevel \in BOOLEAN : Failed(a, sessionLevel)
  BY DEF CreateFails
<1>2. troubles' \in 0..MaxTroubles
  BY DeploymentAssumption DEF CreateFails, Trouble, IInv, TypeOK
<1>3. UNCHANGED <<generatedFiles, watched, checks, instances>>
  BY <1>1 DEF CreateFails, Failed
<1>4. /\ sessionId' \in Sessions
      /\ sandboxInstanceId' \in Instances \cup {None}
      /\ promise' \in Calls \cup {None}
      /\ calls' \in [Calls -> Call]
      /\ attempts' \in [Attempts -> Attempt]
      /\ \A b \in Attempts : attempts'[b].pc \in {"status", "write"} =>
                               attempts'[b].instance # None
      /\ Shape'
  BY <1>1, FailedKeeps
<1>5. TypeOK'
  BY <1>2, <1>3, <1>4 DEF IInv, TypeOK
<1>6. QED
  BY <1>4, <1>5 DEF IInv

LEMMA WriteFailsKeeps ==
  ASSUME IInv, NEW a \in Attempts, WriteFails(a)
  PROVE  IInv'
<1>1. PICK sessionLevel \in BOOLEAN : Failed(a, sessionLevel)
  BY DEF WriteFails
<1>2. troubles' \in 0..MaxTroubles
  <2>1. troubles' = troubles \/ Trouble
    BY DEF WriteFails
  <2>2. troubles \in 0..MaxTroubles
    BY DEF IInv, TypeOK
  <2>3. QED
    BY <2>1, <2>2, DeploymentAssumption DEF Trouble
<1>3. instances' \in [Instances -> [session : Sessions \cup {None}, up : BOOLEAN,
                                    files : [Files -> Version]]]
  BY WrittenType DEF WriteFails, AllWritten, IInv, TypeOK
<1>4. UNCHANGED <<generatedFiles, watched, checks>>
  BY <1>1 DEF Failed
<1>5. /\ sessionId' \in Sessions
      /\ sandboxInstanceId' \in Instances \cup {None}
      /\ promise' \in Calls \cup {None}
      /\ calls' \in [Calls -> Call]
      /\ attempts' \in [Attempts -> Attempt]
      /\ \A b \in Attempts : attempts'[b].pc \in {"status", "write"} =>
                               attempts'[b].instance # None
      /\ Shape'
  BY <1>1, FailedKeeps
<1>6. TypeOK'
  BY <1>2, <1>3, <1>4, <1>5 DEF IInv, TypeOK
<1>7. QED
  BY <1>5, <1>6 DEF IInv

LEMMA WriteDoneKeeps ==
  ASSUME IInv, NEW a \in Attempts, WriteDone(a)
  PROVE  IInv'
<1> DEFINE c == attempts[a].by
           i == attempts[a].instance
           starts == attempts[a].redeployed \/ watched = None
<1>1. /\ TypeOK /\ Shape /\ attempts \in [Attempts -> Attempt]
      /\ i \in Instances
  BY DEF IInv, TypeOK, Attempt, WriteDone
<1>2. attempts' = [attempts EXCEPT ![a] = NoAttempt]
  BY DEF WriteDone
<1>3. /\ attempts' \in [Attempts -> Attempt] /\ attempts'[a] = NoAttempt
      /\ \A b \in Attempts : b # a => attempts'[b] = attempts[b]
  BY <1>1, <1>2, Blank
<1>4. \A b \in Attempts : attempts'[b].pc \in {"status", "write"} =>
                            attempts'[b].instance # None
  BY <1>1, <1>3, Blank DEF TypeOK
<1>5. /\ instances' \in [Instances -> [session : Sessions \cup {None}, up : BOOLEAN,
                                       files : [Files -> Version]]]
      /\ troubles' \in 0..MaxTroubles
  <2>1. PICK S \in SUBSET DOMAIN attempts[a].files : Written(a, S)
    BY DEF WriteDone, AllWritten, SomeWritten
  <2>2. troubles' \in 0..MaxTroubles
    BY <1>1, DeploymentAssumption DEF WriteDone, Trouble, TypeOK
  <2>3. QED
    BY <1>1, <2>1, <2>2, WrittenType
<1>6. /\ watched' \in Instances \cup {None}
      /\ promise' \in Calls \cup {None}
      /\ calls' \in [Calls -> Call]
      /\ Shape'
  <2>1. CASE ~attempts[a].live
    <3>1. calls' = calls /\ promise' = promise /\ watched' = watched
      BY <2>1 DEF WriteDone
    <3>2. attempts[a].live = FALSE /\ NoAttempt.live = FALSE
      BY <1>1, <2>1, Blank DEF Attempt
    <3>3. Shape'
      BY <1>1, <1>3, <3>1, <3>2, SteadyShape DEF Shape, AttemptShape
    <3>4. QED
      BY <1>1, <3>1, <3>3 DEF TypeOK
  <2>2. CASE attempts[a].live
    <3>1. /\ watched' = IF starts THEN i ELSE watched
          /\ \/ Completed(c)
             \/ /\ calls' = [calls EXCEPT ![c].pc = "setup", ![c].instance = i]
                /\ promise' = promise
      BY <2>2 DEF WriteDone
    <3>2. watched' \in Instances \cup {None}
      BY <1>1, <3>1 DEF TypeOK
    <3>3. c \in Calls /\ calls[c].pc = "attempt"
      BY <1>1, <2>2 DEF Shape, AttemptShape, OneLiveAttempt
    <3>4. calls[c].on = None
      BY <1>1, <3>3 DEF Shape, CallShape
    <3> HIDE DEF c, i
    <3>5. CASE Completed(c)
      <4>1. /\ PromiseExact'
            /\ calls'[c].pc = "off" /\ calls'[c].on = None /\ ~calls'[c].awaited
        BY <1>1, <3>3, <3>5, CompletedPromise
      <4>2. /\ calls' \in [Calls -> Call]
            /\ promise' \in Calls \cup {None}
            /\ \A d \in Calls : calls'[d] = IF d = c \/ calls[d].on = c
                                              THEN NoCall ELSE calls[d]
        BY <1>1, <3>3, <3>5, CompletedKeeps
      <4>3. Shape'
        BY <1>1, <1>3, <2>2, <3>3, <4>1, <4>2, Blank, GivenUpShape DEF c
      <4>4. QED
        BY <3>2, <4>2, <4>3
    <3>6. CASE /\ calls' = [calls EXCEPT ![c].pc = "setup", ![c].instance = i]
               /\ promise' = promise
      <4> DEFINE n == [calls[c] EXCEPT !.pc = "setup", !.instance = i]
      <4>1. calls[c] \in Call /\ calls \in [Calls -> Call]
        BY <1>1, <3>3 DEF TypeOK
      <4>2. n \in Call /\ n.pc = "setup" /\ n.on = calls[c].on
            /\ n.awaited = calls[c].awaited
        BY <1>1, <4>1 DEF Call
      <4>3. calls' = [calls EXCEPT ![c] = n]
        BY <3>6, <4>1
      <4> HIDE DEF n
      <4>4. /\ calls' \in [Calls -> Call] /\ calls'[c] = n
            /\ \A d \in Calls : d # c => calls'[d] = calls[d]
        BY <3>3, <4>1, <4>2, <4>3
      <4>5. PromiseExact'
        BY <1>1, <3>6, <4>2, <4>4 DEF Shape, PromiseExact
      <4>6. Shape'
        BY <1>1, <1>3, <2>2, <3>3, <3>4, <4>2, <4>4, <4>5, Blank, GivenUpShape DEF c
      <4>7. QED
        BY <1>1, <3>2, <3>6, <4>4, <4>6 DEF TypeOK
    <3>7. QED
      BY <3>1, <3>5, <3>6
  <2>3. QED
    BY <2>1, <2>2
<1>7. UNCHANGED <<sessionId, sandboxInstanceId, generatedFiles, checks>>
  BY DEF WriteDone
<1> HIDE DEF c, i, starts
<1>8. TypeOK'
  BY <1>1, <1>3, <1>4, <1>5, <1>6, <1>7 DEF TypeOK
<1>9. QED
  BY <1>6, <1>8 DEF IInv

LEMMA AttemptTimesOutKeeps ==
  ASSUME IInv, NEW a \in Attempts, AttemptTimesOut(a)
  PROVE  IInv'
<1> DEFINE c == attempts[a].by
           n == [attempts[a] EXCEPT !.live = FALSE, !.by = None]
<1>1. /\ TypeOK /\ Shape /\ attempts \in [Attempts -> Attempt]
      /\ attempts[a] \in Attempt /\ attempts[a].live
  BY DEF IInv, TypeOK, AttemptTimesOut
<1>2. c \in Calls
  BY <1>1 DEF Shape, AttemptShape
<1>3. n \in Attempt /\ ~n.live /\ n.pc = attempts[a].pc /\ n.instance = attempts[a].instance
  BY <1>1 DEF Attempt
<1>4. Retry(c, FALSE) /\ attempts' = [attempts EXCEPT ![a] = n]
  BY <1>1 DEF AttemptTimesOut
<1> HIDE DEF c, n
<1>5. /\ attempts' \in [Attempts -> Attempt] /\ attempts'[a] = n
      /\ \A b \in Attempts : b # a => attempts'[b] = attempts[b]
  BY <1>1, <1>3, <1>4
<1>6. /\ sessionId' \in Sessions
      /\ sandboxInstanceId' \in Instances \cup {None}
      /\ promise' = promise
      /\ calls' \in [Calls -> Call]
      /\ calls'[c].pc = "backoff"
      /\ \A d \in Calls : /\ calls'[d].awaited = calls[d].awaited
                          /\ calls'[d].on = calls[d].on
                          /\ d # c => calls'[d] = calls[d]
  BY <1>1, <1>2, <1>4, RetryKeeps
<1>7. calls[c].pc = "attempt"
  BY <1>1, <1>2 DEF Shape, OneLiveAttempt, c
<1>8. calls[c].on = None
  BY <1>1, <1>2, <1>7 DEF Shape, CallShape
<1>9. PromiseExact'
  BY <1>1, <1>6 DEF Shape, PromiseExact
<1>10. Shape'
  BY <1>1, <1>2, <1>3, <1>5, <1>6, <1>8, <1>9, GivenUpShape DEF c
<1>11. troubles' \in 0..MaxTroubles
  BY <1>1, DeploymentAssumption DEF AttemptTimesOut, Trouble, TypeOK
<1>12. UNCHANGED <<generatedFiles, watched, checks, instances>>
  BY DEF AttemptTimesOut
<1>13. TypeOK'
  BY <1>1, <1>3, <1>5, <1>6, <1>11, <1>12 DEF TypeOK
<1>14. QED
  BY <1>10, <1>13 DEF IInv

LEMMA SetupDoneKeeps ==
  ASSUME IInv, NEW c \in Calls, SetupDone(c)
  PROVE  IInv'
<1>1. TypeOK /\ Shape /\ Completed(c) /\ calls[c].pc = "setup"
  BY DEF IInv, SetupDone
<1>2. /\ PromiseExact'
      /\ calls'[c].pc = "off" /\ calls'[c].on = None /\ ~calls'[c].awaited
  BY <1>1, CompletedPromise
<1>3. /\ calls' \in [Calls -> Call]
      /\ promise' \in Calls \cup {None}
      /\ \A d \in Calls : calls'[d] = IF d = c \/ calls[d].on = c
                                        THEN NoCall ELSE calls[d]
  BY <1>1, CompletedKeeps
<1>4. attempts' = attempts
  BY DEF SetupDone
<1>5. Shape'
  BY <1>1, <1>2, <1>3, <1>4, UnattendedShape
<1>6. TypeOK'
  BY <1>1, <1>3, <1>4 DEF SetupDone, TypeOK
<1>7. QED
  BY <1>5, <1>6 DEF IInv

LEMMA SetupFailsKeeps ==
  ASSUME IInv, NEW c \in Calls, SetupFails(c)
  PROVE  IInv'
<1>1. TypeOK /\ Shape /\ Retry(c, FALSE) /\ calls[c].pc = "setup" /\ attempts' = attempts
  BY DEF IInv, SetupFails
<1>2. /\ sessionId' \in Sessions
      /\ sandboxInstanceId' \in Instances \cup {None}
      /\ promise' = promise
      /\ calls' \in [Calls -> Call]
      /\ calls'[c].pc = "backoff"
      /\ \A d \in Calls : /\ calls'[d].awaited = calls[d].awaited
                          /\ calls'[d].on = calls[d].on
                          /\ d # c => calls'[d] = calls[d]
  BY <1>1, RetryKeeps
<1>3. PromiseExact'
  BY <1>1, <1>2 DEF Shape, PromiseExact
<1>4. calls[c].on = None
  BY <1>1 DEF Shape, CallShape
<1>5. Shape'
  BY <1>1, <1>2, <1>3, <1>4, UnattendedShape
<1>6. troubles' \in 0..MaxTroubles
  BY <1>1, DeploymentAssumption DEF SetupFails, Trouble, TypeOK
<1>7. TypeOK'
  BY <1>1, <1>2, <1>6 DEF SetupFails, TypeOK
<1>8. QED
  BY <1>5, <1>7 DEF IInv

LEMMA BackoffOverKeeps ==
  ASSUME IInv, NEW c \in Calls, BackoffOver(c)
  PROVE  IInv'
<1> DEFINE new == Deploying(c, TRUE, calls[c].files, calls[c].redeploy)
           n == [calls[c] EXCEPT !.pc = "attempt", !.tries = (@ % 3) + 1]
<1>1. /\ TypeOK /\ Shape /\ calls[c] \in Call /\ calls[c].pc = "backoff"
      /\ attempts \in [Attempts -> Attempt] /\ calls \in [Calls -> Call]
  BY DEF IInv, TypeOK, BackoffOver
<1>2. PICK a \in Attempts : attempts[a].pc = "off" /\ attempts' = [attempts EXCEPT ![a] = new]
  BY DEF BackoffOver
<1>3. /\ new \in Attempt /\ new.by = c /\ new.live
      /\ new.pc \in {"status", "create"}
      /\ new.pc = "status" => new.instance # None
  <2>1. c \in Calls \cup {None} /\ TRUE \in BOOLEAN
    OBVIOUS
  <2>2. calls[c].files \in FileSet /\ calls[c].redeploy \in BOOLEAN
    BY <1>1 DEF Call
  <2>3. ASSUME NEW files \in FileSet, NEW redeploy \in BOOLEAN
        PROVE  LET attempt == Deploying(c, TRUE, files, redeploy)
               IN /\ attempt \in Attempt /\ attempt.by = c /\ attempt.live = TRUE
                  /\ attempt.pc \in {"status", "create"}
                  /\ attempt.pc = "status" => attempt.instance # None
    <3>1. TypeOK
      BY DEF IInv
    <3>2. QED
      BY <2>1, <3>1, DeployingType
  <2>4. QED
    BY <2>2, <2>3
<1>4. /\ n \in Call /\ n.pc = "attempt"
      /\ n.on = calls[c].on /\ n.awaited = calls[c].awaited
  <2>1. (calls[c].tries % 3) + 1 \in 1..3
    <3>1. calls[c].tries \in 1..3
      BY <1>1 DEF Call
    <3>2. QED
      BY <3>1
  <2>2. \A k \in 1..3 : [calls[c] EXCEPT !.pc = "attempt", !.tries = k] \in Call
    BY <1>1 DEF Call
  <2>3. QED
    BY <1>1, <2>1, <2>2 DEF Call
<1>5. calls' = [calls EXCEPT ![c] = n]
  BY <1>1 DEF BackoffOver
<1> HIDE DEF new, n
<1>6. /\ attempts' \in [Attempts -> Attempt] /\ attempts'[a] = new
      /\ \A b \in Attempts : b # a => attempts'[b] = attempts[b]
  BY <1>1, <1>2, <1>3
<1>7. /\ calls' \in [Calls -> Call] /\ calls'[c] = n
      /\ \A d \in Calls : d # c => calls'[d] = calls[d]
  BY <1>1, <1>4, <1>5
<1>8. PromiseExact'
  BY <1>1, <1>4, <1>7 DEF BackoffOver, Shape, PromiseExact
<1>9. calls[c].on = None
  BY <1>1 DEF Shape, CallShape
<1>10. Shape'
  BY <1>1, <1>2, <1>3, <1>4, <1>6, <1>7, <1>8, <1>9, AttemptingShape
<1>11. UNCHANGED <<sessionId, sandboxInstanceId, generatedFiles, promise, watched,
                   checks, instances, troubles>>
  BY DEF BackoffOver
<1>12. TypeOK'
  BY <1>1, <1>3, <1>6, <1>7, <1>11 DEF TypeOK
<1>13. QED
  BY <1>10, <1>12 DEF IInv

LEMMA MasterTimeoutKeeps ==
  ASSUME IInv, NEW c \in Calls, MasterTimeout(c)
  PROVE  IInv'
<1> DEFINE n == [calls[c] EXCEPT !.awaited = FALSE]
<1>1. /\ TypeOK /\ Shape /\ calls[c] \in Call /\ calls[c].awaited
      /\ calls \in [Calls -> Call]
  BY DEF IInv, TypeOK, MasterTimeout
<1>2. n \in Call /\ ~n.awaited /\ n.pc = calls[c].pc /\ n.on = calls[c].on
  BY <1>1 DEF Call
<1>3. calls' = [calls EXCEPT ![c] = n]
  BY <1>1 DEF MasterTimeout
<1> HIDE DEF n
<1>4. /\ calls' \in [Calls -> Call] /\ calls'[c] = n
      /\ \A d \in Calls : d # c => calls'[d] = calls[d]
  BY <1>1, <1>2, <1>3
<1>5. PromiseExact' /\ CallShape'
  BY <1>1, <1>2, <1>4, DeploymentAssumption DEF MasterTimeout, Shape, CallShape, PromiseExact
<1>6. \A d \in Calls : calls'[d].pc = calls[d].pc
  BY <1>2, <1>4
<1>7. attempts' = attempts
  BY DEF MasterTimeout
<1>8. AttemptShape' /\ OneLiveAttempt'
  BY <1>1, <1>6, <1>7 DEF Shape, AttemptShape, OneLiveAttempt
<1>9. troubles' \in 0..MaxTroubles
  BY <1>1, DeploymentAssumption DEF MasterTimeout, Trouble, TypeOK
<1>10. TypeOK'
  BY <1>1, <1>4, <1>7, <1>9 DEF MasterTimeout, TypeOK
<1>11. QED
  BY <1>5, <1>8, <1>10 DEF IInv, Shape

LEMMA JoinTimeoutKeeps ==
  ASSUME IInv, NEW c \in Calls, JoinTimeout(c)
  PROVE  IInv'
<1>1. /\ TypeOK /\ Shape /\ calls \in [Calls -> Call] /\ calls[c].pc = "joined"
      /\ calls' = [calls EXCEPT ![c] = NoCall]
      /\ promise' = promise /\ attempts' = attempts
  BY DEF IInv, TypeOK, JoinTimeout
<1>2. /\ calls' \in [Calls -> Call] /\ calls'[c] = NoCall
      /\ \A d \in Calls : d # c => calls'[d] = calls[d]
  BY <1>1, Blank
<1>3. PromiseExact'
  BY <1>1, <1>2, Blank DEF Shape, CallShape, PromiseExact
<1>4. Shape'
  BY <1>1, <1>2, <1>3, Blank, UnattendedShape
<1>5. troubles' \in 0..MaxTroubles
  BY <1>1, DeploymentAssumption DEF JoinTimeout, Trouble, TypeOK
<1>6. TypeOK'
  BY <1>1, <1>2, <1>5 DEF JoinTimeout, TypeOK
<1>7. QED
  BY <1>4, <1>6 DEF IInv

LEMMA HealthTickKeeps ==
  ASSUME IInv, NEW k \in Checks, HealthTick(k)
  PROVE  IInv'
<1>1. checks' \in [Checks -> Check]
  BY DEF HealthTick, IInv, TypeOK, Check
<1>2. TypeOK'
  BY <1>1 DEF HealthTick, IInv, TypeOK
<1>3. Shape'
  BY SteadyShape DEF HealthTick, IInv, Shape, AttemptShape
<1>4. QED
  BY <1>2, <1>3 DEF IInv

LEMMA FoundHealthyKeeps ==
  ASSUME IInv, NEW k \in Checks, FoundHealthy(k)
  PROVE  IInv'
<1>1. checks' \in [Checks -> Check]
  BY Blank DEF FoundHealthy, IInv, TypeOK
<1>2. TypeOK'
  BY <1>1 DEF FoundHealthy, IInv, TypeOK
<1>3. Shape'
  BY SteadyShape DEF FoundHealthy, IInv, Shape, AttemptShape
<1>4. QED
  BY <1>2, <1>3 DEF IInv

LEMMA FoundUnhealthyKeeps ==
  ASSUME IInv, NEW k \in Checks, FoundUnhealthy(k)
  PROVE  IInv'
<1>1. PICK c \in Calls : DeployToSandbox(c, AllFiles, FALSE)
  BY DEF FoundUnhealthy
<1>2. AllFiles \in FileSet /\ FALSE \in BOOLEAN
  BY FileSets
<1>3. /\ calls' \in [Calls -> Call]
      /\ promise' \in Calls \cup {None}
      /\ attempts' \in [Attempts -> Attempt]
      /\ \A a \in Attempts : attempts'[a].pc \in {"status", "write"} =>
                               attempts'[a].instance # None
      /\ Shape'
  BY <1>1, <1>2, DeployToSandboxKeeps
<1>4. checks' \in [Checks -> Check]
  BY Blank DEF FoundUnhealthy, IInv, TypeOK
<1>5. troubles' \in 0..MaxTroubles
  <2>1. troubles' = troubles \/ Trouble
    BY DEF FoundUnhealthy
  <2>2. troubles \in 0..MaxTroubles
    BY DEF IInv, TypeOK
  <2>3. QED
    BY <2>1, <2>2, DeploymentAssumption DEF Trouble
<1>6. /\ watched' = None
      /\ UNCHANGED <<sessionId, sandboxInstanceId, generatedFiles, instances>>
  BY DEF FoundUnhealthy
<1>7. TypeOK'
  BY <1>3, <1>4, <1>5, <1>6 DEF IInv, TypeOK
<1>8. QED
  BY <1>3, <1>7 DEF IInv

LEMMA InstanceDiesKeeps ==
  ASSUME IInv, NEW i \in Instances, InstanceDies(i)
  PROVE  IInv'
<1>1. instances' \in [Instances -> [session : Sessions \cup {None}, up : BOOLEAN,
                                    files : [Files -> Version]]]
  BY DEF InstanceDies, IInv, TypeOK
<1>2. troubles' \in 0..MaxTroubles
  BY DeploymentAssumption DEF InstanceDies, Trouble, IInv, TypeOK
<1>3. TypeOK'
  BY <1>1, <1>2 DEF InstanceDies, IInv, TypeOK
<1>4. Shape'
  BY SteadyShape DEF InstanceDies, IInv, Shape, AttemptShape
<1>5. QED
  BY <1>3, <1>4 DEF IInv

LEMMA EvictedKeeps ==
  ASSUME IInv, Evicted
  PROVE  IInv'
<1>1. /\ promise' = None /\ watched' = None
      /\ calls' = [c \in Calls |-> NoCall]
      /\ attempts' = [a \in Attempts |-> NoAttempt]
      /\ checks' = [k \in Checks |-> NoCheck]
      /\ UNCHANGED <<sessionId, sandboxInstanceId, generatedFiles, instances>>
  BY DEF Evicted
<1>2. troubles' \in 0..MaxTroubles
  BY DeploymentAssumption DEF Evicted, Trouble, IInv, TypeOK
<1>3. TypeOK'
  BY <1>1, <1>2, Blank DEF IInv, TypeOK
<1>4. Shape'
  <2>1. CallShape' /\ AttemptShape' /\ PromiseExact'
    BY <1>1, Blank, DeploymentAssumption DEF CallShape, AttemptShape, PromiseExact
  <2>2. OneLiveAttempt'
    BY <1>1, Blank DEF OneLiveAttempt
  <2>3. QED
    BY <2>1, <2>2 DEF Shape
<1>5. QED
  BY <1>3, <1>4 DEF IInv

-----------------------------------------------------------------------------
(* The invariant holds at first and every step keeps it.                   *)

LEMMA InitIInv == Init => IInv
<1> SUFFICES ASSUME Init
             PROVE  IInv
  OBVIOUS
<1>1. TypeOK
  BY Blank, DeploymentAssumption DEF Init, TypeOK, Version
<1>2. CallShape /\ AttemptShape /\ PromiseExact
  BY Blank, DeploymentAssumption DEF Init, CallShape, AttemptShape, PromiseExact
<1>3. OneLiveAttempt
  BY Blank DEF Init, OneLiveAttempt
<1>4. QED
  BY <1>1, <1>2, <1>3 DEF IInv, Shape

LEMMA StepIInv == IInv /\ [Next]_vars => IInv'
<1> SUFFICES ASSUME IInv, [Next]_vars
             PROVE  IInv'
  OBVIOUS
<1>1. CASE UNCHANGED vars
  BY <1>1 DEF vars, IInv, TypeOK, Shape, CallShape, AttemptShape, PromiseExact, OneLiveAttempt
<1>2. ASSUME NEW c \in Calls,
             \/ Deploy(c) \/ SetupDone(c) \/ BackoffOver(c) \/ SetupFails(c)
             \/ MasterTimeout(c) \/ JoinTimeout(c)
      PROVE  IInv'
  BY <1>2, DeployKeeps, SetupDoneKeeps, BackoffOverKeeps, SetupFailsKeeps,
     MasterTimeoutKeeps, JoinTimeoutKeeps
<1>3. ASSUME NEW a \in Attempts,
             \/ Analyse(a) \/ StatusHealthy(a) \/ StatusUnhealthy(a) \/ Created(a)
             \/ CreateFails(a) \/ WriteDone(a) \/ WriteFails(a) \/ AttemptTimesOut(a)
      PROVE  IInv'
  BY <1>3, AnalyseKeeps, StatusHealthyKeeps, StatusUnhealthyKeeps, CreatedKeeps,
     CreateFailsKeeps, WriteDoneKeeps, WriteFailsKeeps, AttemptTimesOutKeeps
<1>4. ASSUME NEW k \in Checks,
             HealthTick(k) \/ FoundHealthy(k) \/ FoundUnhealthy(k)
      PROVE  IInv'
  BY <1>4, HealthTickKeeps, FoundHealthyKeeps, FoundUnhealthyKeeps
<1>5. ASSUME NEW f \in Files, SaveFile(f)
      PROVE  IInv'
  BY <1>5, SaveFileKeeps
<1>6. ASSUME NEW i \in Instances, InstanceDies(i)
      PROVE  IInv'
  BY <1>6, InstanceDiesKeeps
<1>7. CASE Evicted
  BY <1>7, EvictedKeeps
<1>8. QED
  BY <1>1, <1>2, <1>3, <1>4, <1>5, <1>6, <1>7 DEF Next, CallStep, AttemptStep, CheckStep

-----------------------------------------------------------------------------
(* Every reachable state is well typed: an attempt asks for a status, or   *)
(* writes, only with an instance at hand.                                  *)
THEOREM TypeCorrect == Spec => []TypeOK
<1>1. IInv => TypeOK
  BY DEF IInv
<1>2. QED
  BY <1>1, InitIInv, StepIInv, PTL DEF Spec

(* currentDeploymentPromise always is the promise of the one call that     *)
(* still waits for its own deployment, whatever loops were abandoned.      *)
THEOREM DeploymentOwnedOnce == Spec => []PromiseExact
<1>1. IInv => PromiseExact
  BY DEF IInv, Shape
<1>2. QED
  BY <1>1, InitIInv, StepIInv, PTL DEF Spec

(* A loop of executeDeploymentWithRetry waits for one attempt at a time,   *)
(* and every attempt that is waited for has its loop waiting.              *)
THEOREM OneAttemptPerLoop == Spec => []OneLiveAttempt
<1>1. IInv => OneLiveAttempt
  BY DEF IInv, Shape
<1>2. QED
  BY <1>1, InitIInv, StepIInv, PTL DEF Spec

-----------------------------------------------------------------------------
(* Where no attempt goes astray and no write misses a file.                *)

(* The instance has what the call asks for.                                *)
Found(i, c) == \A f \in Asked(i, c) : instances[i].files[f] >= calls[c].asked[f]

(* No loop and no attempt goes on without someone who waits for it, so     *)
(* that one call at most deploys.                                          *)
Attended ==
  /\ \A c \in Calls : calls[c].pc \in {"attempt", "setup", "backoff"} => calls[c].awaited
  /\ \A a \in Attempts : attempts[a].pc # "off" => attempts[a].live

(* What the call that deploys asked for is no newer than the files are; a  *)
(* retry finds no instance on record; the files are there when the set-up  *)
(* commands start.                                                         *)
Served(c) ==
  calls[c].awaited =>
    /\ \A f \in Files : generatedFiles[f] >= calls[c].asked[f]
    /\ \A f \in DOMAIN calls[c].files : calls[c].files[f] >= calls[c].asked[f]
    /\ calls[c].pc = "backoff" => sandboxInstanceId = None
    /\ calls[c].pc = "setup" => calls[c].instance \in Instances /\ Found(calls[c].instance, c)

(* An attempt carries the files of its call, and writes what is asked for  *)
(* in the instance it writes to.                                           *)
Serves(a) ==
  attempts[a].live =>
    LET attempt == attempts[a]
        c == attempt.by
    IN /\ attempt.pc \in {"status", "create"} => attempt.files = calls[c].files
       /\ attempt.pc = "status" /\ DOMAIN calls[c].files # {} =>
            attempt.instance = calls[c].base
       /\ attempt.pc = "write" =>
            \A f \in Asked(attempt.instance, c) :
              f \in DOMAIN attempt.files /\ attempt.files[f] >= calls[c].asked[f]

OwnInv ==
  /\ Attended
  /\ \A c \in Calls : Served(c)
  /\ \A a \in Attempts : Serves(a)

(* One call deploys, in one attempt.                                       *)
LEMMA OneDeploys ==
  ASSUME IInv, Attended
  PROVE  /\ \A c, d \in Calls : calls[c].awaited /\ calls[d].awaited => c = d
         /\ \A a \in Attempts : attempts[a].pc # "off" \/ attempts[a].live =>
              /\ attempts[a].live /\ attempts[a].by \in Calls
              /\ calls[attempts[a].by].pc = "attempt" /\ calls[attempts[a].by].awaited
         /\ \A a, b \in Attempts : attempts[a].pc # "off" /\ attempts[b].pc # "off" => a = b
<1>1. \A c, d \in Calls : calls[c].awaited /\ calls[d].awaited => c = d
  BY DEF IInv, Shape, PromiseExact
<1>2. ASSUME NEW a \in Attempts, attempts[a].pc # "off" \/ attempts[a].live
      PROVE  /\ attempts[a].live /\ attempts[a].by \in Calls
             /\ calls[attempts[a].by].pc = "attempt" /\ calls[attempts[a].by].awaited
  BY <1>2 DEF IInv, Shape, AttemptShape, OneLiveAttempt, Attended
<1>3. ASSUME NEW a \in Attempts, NEW b \in Attempts, attempts[a].pc # "off", attempts[b].pc # "off"
      PROVE  a = b
  <2>1. attempts[a].by = attempts[b].by
    BY <1>1, <1>2, <1>3
  <2> QED BY <1>2, <1>3, <2>1 DEF IInv, Shape, OneLiveAttempt
<1> QED BY <1>1, <1>2, <1>3

LEMMA AskedIsFiles ==
  ASSUME TypeOK, NEW c \in Calls, NEW i
  PROVE  Asked(i, c) \subseteq Files /\ DOMAIN calls[c].files \subseteq Files
<1>1. calls[c].files \in FileSet
  BY DEF TypeOK, Call
<1> QED BY <1>1, FileSets DEF Asked

(* Files only get newer, instances only die.                               *)
LEMMA SteadyOwn ==
  ASSUME IInv, OwnInv, calls' = calls, attempts' = attempts, sandboxInstanceId' = sandboxInstanceId,
         \A f \in Files : generatedFiles'[f] \in Version /\ generatedFiles'[f] >= generatedFiles[f],
         \A i \in Instances : instances'[i].files = instances[i].files
  PROVE  OwnInv'
<1>1. Attended'
  BY DEF OwnInv, Attended
<1>2. ASSUME NEW c \in Calls PROVE Served(c)'
  <2>1. \A f \in Files : calls[c].asked[f] \in Version /\ generatedFiles[f] \in Version
    BY DEF IInv, TypeOK, Call
  <2>2. \A x \in Version : x \in Int
    BY DeploymentAssumption DEF Version
  <2>3. CASE calls[c].awaited
    <3>1. \A f \in Files : generatedFiles'[f] >= calls'[c].asked[f]
      BY <2>1, <2>2, <2>3 DEF OwnInv, Served
    <3> QED BY <2>3, <3>1 DEF OwnInv, Served, Found, Asked
  <2> QED BY <2>3 DEF Served
<1>3. ASSUME NEW a \in Attempts PROVE Serves(a)'
  BY DEF OwnInv, Serves, Asked
<1> QED BY <1>1, <1>2, <1>3 DEF OwnInv

(* An attempt is started for a call that nobody else is in the way of.     *)
LEMMA AttemptingOwn ==
  ASSUME IInv, OwnInv, NEW a \in Attempts, NEW c \in Calls, NEW redeploy \in BOOLEAN,
         \A d \in Calls : d # c => ~calls[d].awaited /\ calls'[d] = calls[d],
         \A b \in Attempts : b # a => attempts'[b] = attempts[b],
         attempts'[a] = Deploying(c, TRUE, calls'[c].files, redeploy),
         attempts'[a].pc = "status" /\ DOMAIN calls'[c].files # {} =>
           sandboxInstanceId = calls'[c].base,
         calls[c].pc # "attempt", calls'[c].pc = "attempt", calls'[c].awaited,
         generatedFiles' = generatedFiles,
         \A f \in Files : generatedFiles[f] >= calls'[c].asked[f],
         \A f \in DOMAIN calls'[c].files : calls'[c].files[f] >= calls'[c].asked[f]
  PROVE  OwnInv'
<1>1. \A b \in Attempts : attempts[b].pc = "off" /\ ~attempts[b].live
  <2> SUFFICES ASSUME NEW b \in Attempts, attempts[b].pc # "off" \/ attempts[b].live PROVE FALSE
    OBVIOUS
  <2>1. attempts[b].by \in Calls /\ calls[attempts[b].by].pc = "attempt" /\ calls[attempts[b].by].awaited
    BY OneDeploys DEF OwnInv
  <2> QED BY <2>1
<1>2. /\ attempts'[a].live /\ attempts'[a].by = c /\ attempts'[a].files = calls'[c].files
      /\ attempts'[a].pc \in {"status", "create"}
      /\ attempts'[a].pc = "status" => attempts'[a].instance = sandboxInstanceId
  BY DEF Deploying
<1>3. Attended'
  BY <1>1, <1>2 DEF OwnInv, Attended
<1>4. ASSUME NEW d \in Calls PROVE Served(d)'
  BY DEF Served
<1>5. ASSUME NEW b \in Attempts PROVE Serves(b)'
  BY <1>1, <1>2 DEF Serves
<1> QED BY <1>3, <1>4, <1>5 DEF OwnInv

LEMMA DeployToSandboxOwn ==
  ASSUME IInv, OwnInv, NEW c \in Calls, NEW files \in FileSet, NEW redeploy \in BOOLEAN,
         DeployToSandbox(c, files, redeploy),
         \A f \in DOMAIN files : files[f] = generatedFiles[f],
         UNCHANGED <<sandboxInstanceId, generatedFiles, instances>>
  PROVE  OwnInv'
<1>0. calls \in [Calls -> Call] /\ attempts \in [Attempts -> Attempt] /\ generatedFiles \in [Files -> Version]
  BY DEF IInv, TypeOK
<1>1. calls[c].pc = "off" /\ ~calls[c].awaited
  BY DEF DeployToSandbox, IInv, Shape, CallShape
<1>2. \A f \in Files : generatedFiles[f] >= generatedFiles[f]
  <2>1. \A x \in Version : x >= x
    BY DeploymentAssumption DEF Version
  <2> QED BY <1>0, <2>1
<1>3. CASE promise # None
  <2> DEFINE j == [NoCall EXCEPT !.pc = "joined", !.on = promise]
  <2>1. calls' = [calls EXCEPT ![c] = j] /\ attempts' = attempts
    BY <1>3 DEF DeployToSandbox
  <2>2. j.pc = "joined" /\ ~j.awaited
    BY Blank DEF NoCall
  <2> HIDE DEF j
  <2>3. calls'[c] = j /\ \A d \in Calls : d # c => calls'[d] = calls[d]
    BY <1>0, <2>1
  <2>4. Attended'
    BY <2>1, <2>2, <2>3 DEF OwnInv, Attended
  <2>5. ASSUME NEW d \in Calls PROVE Served(d)'
    BY <2>2, <2>3 DEF OwnInv, Served, Found, Asked
  <2>6. ASSUME NEW a \in Attempts PROVE Serves(a)'
    <3>1. attempts[a].live => attempts[a].by # c /\ attempts[a].by \in Calls
      BY <1>1, OneDeploys DEF OwnInv
    <3> QED BY <2>1, <2>3, <3>1 DEF OwnInv, Serves, Asked
  <2> QED BY <2>4, <2>5, <2>6 DEF OwnInv
<1>4. CASE promise = None
  <2> DEFINE n == [NoCall EXCEPT !.pc = "attempt", !.files = files,
                     !.asked = generatedFiles,
                     !.base = IF DOMAIN files = {} THEN None ELSE sandboxInstanceId,
                     !.redeploy = redeploy, !.awaited = TRUE]
  <2>1. PICK a \in Attempts : /\ attempts' = [attempts EXCEPT ![a] = Deploying(c, TRUE, files, redeploy)]
                              /\ calls' = [calls EXCEPT ![c] = n]
    BY <1>4 DEF DeployToSandbox
  <2>2. /\ n.pc = "attempt" /\ n.awaited /\ n.files = files /\ n.asked = generatedFiles
        /\ DOMAIN files # {} => n.base = sandboxInstanceId
    BY DEF NoCall
  <2> HIDE DEF n
  <2>3. calls'[c] = n /\ \A d \in Calls : d # c => calls'[d] = calls[d]
    BY <1>0, <2>1
  <2>4. /\ attempts'[a] = Deploying(c, TRUE, files, redeploy)
        /\ \A b \in Attempts : b # a => attempts'[b] = attempts[b]
    BY <1>0, <2>1
  <2>5. \A d \in Calls : ~calls[d].awaited
    BY <1>4, DeploymentAssumption DEF IInv, Shape, PromiseExact
  <2>6. \A f \in DOMAIN files : files[f] >= generatedFiles[f]
    BY <1>2, FileSets
  <2> QED BY <1>1, <1>2, <2>2, <2>3, <2>4, <2>5, <2>6, AttemptingOwn
<1> QED BY <1>3, <1>4

LEMMA DeployOwn ==
  ASSUME IInv, OwnInv, NEW c \in Calls, Deploy(c)
  PROVE  OwnInv'
<1>1. PICK S \in SUBSET Files, redeploy \in BOOLEAN :
        DeployToSandbox(c, [f \in S |-> generatedFiles[f]], redeploy)
  BY DeploymentAssumption DEF Deploy
<1>2. [f \in S |-> generatedFiles[f]] \in FileSet
  BY FileSets DEF IInv, TypeOK
<1>3. UNCHANGED <<sandboxInstanceId, generatedFiles, instances>>
  BY DEF Deploy
<1> QED BY <1>1, <1>2, <1>3, DeployToSandboxOwn

LEMMA FoundUnhealthyOwn ==
  ASSUME IInv, OwnInv, NEW k \in Checks, FoundUnhealthy(k)
  PROVE  OwnInv'
<1>1. PICK c \in Calls : DeployToSandbox(c, AllFiles, FALSE)
  BY DEF FoundUnhealthy
<1>2. AllFiles \in FileSet /\ DOMAIN AllFiles = {} /\ FALSE \in BOOLEAN
  BY FileSets DEF AllFiles
<1>3. UNCHANGED <<sandboxInstanceId, generatedFiles, instances>>
  BY DEF FoundUnhealthy
<1> QED BY <1>1, <1>2, <1>3, DeployToSandboxOwn

(* The attempt goes on, and the instances that are in use keep their files. *)
LEMMA MovingOwn ==
  ASSUME IInv, OwnInv, NEW a \in Attempts, attempts[a].pc # "off",
         calls' = calls, generatedFiles' = generatedFiles,
         \A b \in Attempts : b # a => attempts'[b] = attempts[b],
         attempts'[a].pc # "off", attempts'[a].live = attempts[a].live, attempts'[a].by = attempts[a].by,
         Serves(a)'
  PROVE  OwnInv'
<1>1. /\ attempts[a].live /\ attempts[a].by \in Calls
      /\ calls[attempts[a].by].pc = "attempt" /\ calls[attempts[a].by].awaited
  BY OneDeploys DEF OwnInv
<1>2. Attended'
  BY <1>1 DEF OwnInv, Attended
<1>3. ASSUME NEW c \in Calls PROVE Served(c)'
  <2>1. calls[c].awaited => calls[c].pc = "attempt"
    BY <1>1, OneDeploys DEF OwnInv
  <2> QED BY <2>1 DEF OwnInv, Served
<1>4. ASSUME NEW b \in Attempts, b # a PROVE Serves(b)'
  BY <1>4 DEF OwnInv, Serves, Asked
<1> QED BY <1>2, <1>3, <1>4 DEF OwnInv

LEMMA WritingServes ==
  ASSUME IInv, OwnInv, NEW a \in Attempts, NEW i \in Instances, NEW redeployed \in BOOLEAN,
         attempts[a].pc \in {"status", "create"},
         redeployed \/ (i = attempts[a].instance /\ attempts[a].pc = "status"),
         attempts' = [attempts EXCEPT ![a] = Writing(@, i, redeployed)],
         calls' = calls, generatedFiles' = generatedFiles
  PROVE  OwnInv'
<1> DEFINE c == attempts[a].by
           w == Writing(attempts[a], i, redeployed)
<1>1. attempts \in [Attempts -> Attempt] /\ attempts[a] \in Attempt
  BY DEF IInv, TypeOK
<1>2. attempts[a].live /\ c \in Calls /\ calls[c].awaited
  BY OneDeploys DEF OwnInv
<1>3. /\ attempts[a].files = calls[c].files
      /\ attempts[a].pc = "status" /\ DOMAIN calls[c].files # {} =>
           attempts[a].instance = calls[c].base
      /\ \A f \in Files : generatedFiles[f] >= calls[c].asked[f]
      /\ \A f \in DOMAIN calls[c].files : calls[c].files[f] >= calls[c].asked[f]
  BY <1>2 DEF OwnInv, Serves, Served
<1>4. /\ w.pc = "write" /\ w.live = attempts[a].live /\ w.by = c /\ w.instance = i
      /\ w.files = IF redeployed \/ DOMAIN attempts[a].files = {} THEN generatedFiles ELSE attempts[a].files
  BY <1>1 DEF Writing, Attempt
<1>5. attempts' = [attempts EXCEPT ![a] = w]
  OBVIOUS
<1> HIDE DEF w
<1>6. attempts'[a] = w /\ \A b \in Attempts : b # a => attempts'[b] = attempts[b]
  BY <1>1, <1>5
<1>7. \A f \in Asked(i, c) : f \in DOMAIN w.files /\ w.files[f] >= calls[c].asked[f]
  <2>1. Asked(i, c) \subseteq Files /\ DOMAIN generatedFiles = Files
    BY <1>2, AskedIsFiles DEF IInv, TypeOK
  <2>2. CASE redeployed \/ DOMAIN attempts[a].files = {}
    BY <1>3, <1>4, <2>1, <2>2
  <2>3. CASE ~redeployed /\ DOMAIN attempts[a].files # {}
    <3>1. Asked(i, c) = DOMAIN calls[c].files
      BY <1>3, <2>3 DEF Asked
    <3> HIDE DEF c
    <3> QED BY <1>3, <1>4, <2>3, <3>1
  <2> QED BY <2>2, <2>3
<1>8. Serves(a)'
  <2>1. Asked(i, c)' = Asked(i, c)
    BY <1>2, <1>4, <1>6 DEF Asked
  <2>2. attempts'[a].by = c /\ attempts'[a].instance = i /\ attempts'[a].pc = "write" /\ attempts'[a].files = w.files
    BY <1>4, <1>6
  <2>3. \A f \in Asked(i, c) : f \in DOMAIN attempts'[a].files /\ attempts'[a].files[f] >= calls'[c].asked[f]
    BY <1>7, <2>2
  <2> HIDE DEF c
  <2> QED BY <2>2, <2>3 DEF Serves, Asked
<1> QED BY <1>2, <1>4, <1>6, <1>8, MovingOwn

LEMMA StatusHealthyOwn ==
  ASSUME IInv, OwnInv, NEW a \in Attempts, StatusHealthy(a)
  PROVE  OwnInv'
<1>1. attempts[a].instance \in Instances
  BY DEF StatusHealthy, IInv, TypeOK, Attempt
<1> QED BY <1>1, WritingServes DEF StatusHealthy

LEMMA CreatedOwn ==
  ASSUME IInv, OwnInv, NEW a \in Attempts, Created(a)
  PROVE  OwnInv'
<1>1. PICK i \in Instances : attempts' = [attempts EXCEPT ![a] = Writing(@, i, TRUE)]
  BY DEF Created
<1> QED BY <1>1, WritingServes DEF Created

LEMMA StatusUnhealthyOwn ==
  ASSUME IInv, OwnInv, NEW a \in Attempts, StatusUnhealthy(a)
  PROVE  OwnInv'
<1> DEFINE w == [attempts[a] EXCEPT !.pc = "create", !.creator = sessionId, !.instance = None]
<1>1. attempts[a] \in Attempt /\ attempts \in [Attempts -> Attempt] /\ attempts[a].pc = "status"
  BY DEF IInv, TypeOK, StatusUnhealthy
<1>2. w.pc = "create" /\ w.live = attempts[a].live /\ w.by = attempts[a].by /\ w.files = attempts[a].files
  BY <1>1 DEF Attempt
<1>3. attempts' = [attempts EXCEPT ![a] = w]
  BY <1>1 DEF StatusUnhealthy
<1> HIDE DEF w
<1>4. attempts'[a] = w /\ \A b \in Attempts : b # a => attempts'[b] = attempts[b]
  BY <1>1, <1>3
<1>5. calls' = calls /\ generatedFiles' = generatedFiles
  BY DEF StatusUnhealthy
<1>6. Serves(a)'
  BY <1>1, <1>2, <1>4, <1>5 DEF OwnInv, Serves
<1> QED BY <1>1, <1>2, <1>4, <1>5, <1>6, MovingOwn

(* The call goes on without an attempt: those of others are not there.     *)
LEMMA LeavingOwn ==
  ASSUME IInv, OwnInv, NEW c \in Calls, calls[c].awaited, generatedFiles' = generatedFiles,
         \A a \in Attempts : \/ attempts'[a] = NoAttempt
                             \/ attempts'[a] = attempts[a] /\ ~(attempts[a].live /\ attempts[a].by = c),
         \A d \in Calls : d # c => calls'[d] = calls[d] \/ calls'[d] = NoCall,
         calls'[c].pc \in {"setup", "backoff"} => calls'[c].awaited,
         calls'[c].pc # "attempt",
         Served(c)'
  PROVE  OwnInv'
<1>1. \A a \in Attempts : attempts'[a].pc = "off" /\ ~attempts'[a].live
  <2> SUFFICES ASSUME NEW a \in Attempts, attempts'[a].pc # "off" \/ attempts'[a].live PROVE FALSE
    OBVIOUS
  <2>1. attempts'[a] = attempts[a] /\ ~(attempts[a].live /\ attempts[a].by = c)
    BY Blank
  <2>2. attempts[a].live /\ attempts[a].by = c
    BY <2>1, OneDeploys DEF OwnInv
  <2> QED BY <2>1, <2>2
<1>2. Attended'
  <2> SUFFICES ASSUME NEW d \in Calls, calls'[d].pc \in {"attempt", "setup", "backoff"}
               PROVE  calls'[d].awaited
    BY <1>1 DEF Attended
  <2>1. CASE d = c
    BY <2>1
  <2>2. CASE d # c
    BY <2>2, Blank DEF OwnInv, Attended
  <2> QED BY <2>1, <2>2
<1>3. ASSUME NEW d \in Calls, d # c PROVE Served(d)'
  <2>1. ~calls[d].awaited
    BY <1>3, OneDeploys DEF OwnInv
  <2>2. ~calls'[d].awaited
    BY <1>3, <2>1, Blank
  <2> QED BY <2>2 DEF Served
<1>4. \A a \in Attempts : Serves(a)'
  BY <1>1 DEF Serves
<1> QED BY <1>2, <1>3, <1>4 DEF OwnInv

(* The catch block of the loop.                                            *)
LEMMA RetryOwn ==
  ASSUME IInv, OwnInv, NEW c \in Calls, calls[c].pc \in {"attempt", "setup"},
         NEW sessionLevel \in BOOLEAN, Retry(c, sessionLevel), generatedFiles' = generatedFiles,
         \A a \in Attempts : \/ attempts'[a] = NoAttempt
                             \/ attempts'[a] = attempts[a] /\ ~(attempts[a].live /\ attempts[a].by = c)
  PROVE  OwnInv'
<1>1. calls[c].awaited
  BY DEF OwnInv, Attended
<1>2. calls \in [Calls -> Call] /\ calls[c] \in Call
  BY DEF IInv, TypeOK
<1> DEFINE n == [calls[c] EXCEPT !.pc = "backoff", !.instance = None]
<1>3. calls' = [calls EXCEPT ![c] = n] /\ sandboxInstanceId' = None
  BY <1>2 DEF Retry
<1>4. n.pc = "backoff" /\ n.awaited /\ n.asked = calls[c].asked /\ n.files = calls[c].files
  BY <1>1, <1>2 DEF Call
<1> HIDE DEF n
<1>5. calls'[c] = n /\ \A d \in Calls : d # c => calls'[d] = calls[d]
  BY <1>2, <1>3
<1>6. Served(c)'
  BY <1>1, <1>3, <1>4, <1>5 DEF OwnInv, Served
<1> QED BY <1>1, <1>4, <1>5, <1>6, LeavingOwn

LEMMA LiveAlone ==
  ASSUME IInv, OwnInv, NEW a \in Attempts, NEW b \in Attempts, attempts[a].pc # "off", b # a
  PROVE  ~attempts[b].live
<1>1. attempts[b].live => attempts[b].pc # "off"
  BY DEF IInv, Shape, AttemptShape
<1> QED BY <1>1, OneDeploys DEF OwnInv

LEMMA FailedOwn ==
  ASSUME IInv, OwnInv, NEW a \in Attempts, attempts[a].pc # "off", NEW sessionLevel \in BOOLEAN,
         Failed(a, sessionLevel)
  PROVE  OwnInv'
<1> DEFINE c == attempts[a].by
<1>1. attempts[a].live /\ c \in Calls /\ calls[c].pc = "attempt"
  BY OneDeploys DEF OwnInv
<1>2. Retry(c, sessionLevel) /\ generatedFiles' = generatedFiles /\ attempts' = [attempts EXCEPT ![a] = NoAttempt]
  BY <1>1 DEF Failed
<1>3. ASSUME NEW b \in Attempts
      PROVE  \/ attempts'[b] = NoAttempt
             \/ attempts'[b] = attempts[b] /\ ~(attempts[b].live /\ attempts[b].by = c)
  <2>1. attempts \in [Attempts -> Attempt]
    BY DEF IInv, TypeOK
  <2>2. b # a => ~attempts[b].live
    BY LiveAlone
  <2> QED BY <1>2, <2>1, <2>2
<1> HIDE DEF c
<1> QED BY <1>1, <1>2, <1>3, RetryOwn

LEMMA SetupFailsOwn ==
  ASSUME IInv, OwnInv, NEW c \in Calls, SetupFails(c)
  PROVE  OwnInv'
<1>1. calls[c].pc = "setup" /\ Retry(c, FALSE) /\ generatedFiles' = generatedFiles /\ attempts' = attempts
  BY DEF SetupFails
<1>2. \A a \in Attempts : ~(attempts[a].live /\ attempts[a].by = c)
  BY <1>1 DEF IInv, Shape, OneLiveAttempt
<1> QED BY <1>1, <1>2, RetryOwn

LEMMA CompletedOwn ==
  ASSUME IInv, OwnInv, NEW c \in Calls, calls[c].pc \in {"attempt", "setup"}, Completed(c),
         generatedFiles' = generatedFiles,
         \A a \in Attempts : \/ attempts'[a] = NoAttempt
                             \/ attempts'[a] = attempts[a] /\ ~(attempts[a].live /\ attempts[a].by = c)
  PROVE  OwnInv'
<1>1. calls[c].awaited
  BY DEF OwnInv, Attended
<1>2. calls'[c] = NoCall /\ \A d \in Calls : d # c => calls'[d] = calls[d] \/ calls'[d] = NoCall
  BY CompletedKeeps DEF IInv
<1>3. Served(c)'
  BY <1>2, Blank DEF Served
<1> QED BY <1>1, <1>2, <1>3, Blank, LeavingOwn

LEMMA SetupDoneOwn ==
  ASSUME IInv, OwnInv, NEW c \in Calls, SetupDone(c)
  PROVE  OwnInv'
<1>1. calls[c].pc = "setup" /\ Completed(c) /\ generatedFiles' = generatedFiles /\ attempts' = attempts
  BY DEF SetupDone
<1>2. \A a \in Attempts : ~(attempts[a].live /\ attempts[a].by = c)
  BY <1>1 DEF IInv, Shape, OneLiveAttempt
<1> QED BY <1>1, <1>2, CompletedOwn

(* What is written is there, and it is what was asked for.                 *)
LEMMA WrittenFound ==
  ASSUME ~PartialWrites, IInv, OwnInv, NEW a \in Attempts, WriteDone(a)
  PROVE  LET c == attempts[a].by
             i == attempts[a].instance
         IN /\ attempts[a].live /\ c \in Calls /\ calls[c].pc = "attempt" /\ i \in Instances
            /\ \A f \in Asked(i, c) : instances'[i].files[f] >= calls[c].asked[f]
<1> DEFINE c == attempts[a].by
           i == attempts[a].instance
<1>1. attempts[a].pc = "write" /\ AllWritten(a)
  BY DEF WriteDone
<1>2. attempts[a].live /\ c \in Calls /\ calls[c].pc = "attempt"
  BY <1>1, OneDeploys DEF OwnInv
<1>3. i \in Instances /\ instances \in [Instances -> [session : Sessions \cup {None}, up : BOOLEAN, files : [Files -> Version]]]
  BY <1>1 DEF IInv, TypeOK, Attempt
<1>4. \A f \in Asked(i, c) : f \in Files /\ f \in DOMAIN attempts[a].files /\ attempts[a].files[f] >= calls[c].asked[f]
  BY <1>1, <1>2, AskedIsFiles DEF OwnInv, Serves, IInv
<1>5. instances'[i].files = [f \in Files |-> IF f \in DOMAIN attempts[a].files THEN attempts[a].files[f] ELSE instances[i].files[f]]
  <2> DEFINE files == [f \in Files |-> IF f \in DOMAIN attempts[a].files THEN attempts[a].files[f] ELSE instances[i].files[f]]
  <2>1. instances' = [instances EXCEPT ![i] = [instances[i] EXCEPT !.files = files]]
    BY <1>1, <1>3 DEF AllWritten, Written
  <2> HIDE DEF files, i
  <2>2. instances'[i] = [instances[i] EXCEPT !.files = files]
    BY <1>3, <2>1
  <2>3. [instances[i] EXCEPT !.files = files].files = files
    BY <1>3
  <2> QED BY <2>2, <2>3 DEF files
<1> HIDE DEF c, i
<1>6. \A f \in Asked(i, c) : instances'[i].files[f] >= calls[c].asked[f]
  BY <1>4, <1>5
<1> QED BY <1>2, <1>3, <1>6 DEF c, i

(* The set-up commands start in an instance that has what was asked for.   *)
LEMMA SetupOwn ==
  ASSUME IInv, OwnInv, NEW c \in Calls, NEW i \in Instances, calls[c].pc = "attempt",
         calls' = [calls EXCEPT ![c].pc = "setup", ![c].instance = i],
         \A f \in Asked(i, c) : instances'[i].files[f] >= calls[c].asked[f],
         generatedFiles' = generatedFiles,
         \A a \in Attempts : \/ attempts'[a] = NoAttempt
                             \/ attempts'[a] = attempts[a] /\ ~(attempts[a].live /\ attempts[a].by = c)
  PROVE  OwnInv'
<1> DEFINE n == [calls[c] EXCEPT !.pc = "setup", !.instance = i]
<1>1. calls \in [Calls -> Call] /\ calls[c] \in Call /\ calls[c].awaited
  BY DEF IInv, TypeOK, OwnInv, Attended
<1>2. calls' = [calls EXCEPT ![c] = n]
  BY <1>1
<1>3. /\ n.pc = "setup" /\ n.instance = i /\ n.awaited /\ n.asked = calls[c].asked
      /\ n.files = calls[c].files /\ n.base = calls[c].base
  BY <1>1 DEF Call
<1> HIDE DEF n
<1>4. calls'[c] = n /\ \A d \in Calls : d # c => calls'[d] = calls[d]
  BY <1>1, <1>2
<1>5. Found(i, c)'
  BY <1>3, <1>4 DEF Found, Asked
<1>6. /\ \A f \in Files : generatedFiles'[f] >= calls'[c].asked[f]
      /\ \A f \in DOMAIN calls'[c].files : calls'[c].files[f] >= calls'[c].asked[f]
  BY <1>1, <1>3, <1>4 DEF OwnInv, Served
<1>7. Served(c)'
  BY <1>3, <1>4, <1>5, <1>6 DEF Served, Found, Asked
<1> QED BY <1>1, <1>3, <1>4, <1>7, LeavingOwn

LEMMA WriteDoneOwn ==
  ASSUME ~PartialWrites, IInv, OwnInv, NEW a \in Attempts, WriteDone(a)
  PROVE  OwnInv'
<1>1. PICK c \in Calls, i \in Instances :
        /\ attempts[a].live /\ attempts[a].by = c /\ calls[c].pc = "attempt" /\ attempts[a].instance = i
        /\ \A f \in Asked(i, c) : instances'[i].files[f] >= calls[c].asked[f]
  BY WrittenFound
<1>2. generatedFiles' = generatedFiles /\ attempts' = [attempts EXCEPT ![a] = NoAttempt] /\ attempts[a].pc # "off"
  BY DEF WriteDone
<1>3. ASSUME NEW b \in Attempts
      PROVE  \/ attempts'[b] = NoAttempt
             \/ attempts'[b] = attempts[b] /\ ~(attempts[b].live /\ attempts[b].by = c)
  <2>1. attempts \in [Attempts -> Attempt]
    BY DEF IInv, TypeOK
  <2>2. b # a => ~attempts[b].live
    BY <1>2, LiveAlone
  <2> QED BY <1>2, <2>1, <2>2
<1>4. \/ Completed(c)
      \/ calls' = [calls EXCEPT ![c].pc = "setup", ![c].instance = i]
  BY <1>1 DEF WriteDone
<1> QED BY <1>1, <1>2, <1>3, <1>4, CompletedOwn, SetupOwn

LEMMA BackoffOverOwn ==
  ASSUME IInv, OwnInv, NEW c \in Calls, BackoffOver(c)
  PROVE  OwnInv'
<1> DEFINE n == [calls[c] EXCEPT !.pc = "attempt", !.tries = (@ % 3) + 1]
<1>1. calls[c].pc = "backoff" /\ calls[c].awaited /\ sandboxInstanceId = None
  BY DEF BackoffOver, OwnInv, Attended, Served
<1>2. calls \in [Calls -> Call] /\ calls[c] \in Call /\ attempts \in [Attempts -> Attempt] /\ calls[c].redeploy \in BOOLEAN
  BY DEF IInv, TypeOK, Call
<1>3. PICK redeploy \in BOOLEAN : redeploy = calls[c].redeploy
  BY <1>2
<1>4. PICK a \in Attempts : attempts' = [attempts EXCEPT ![a] = Deploying(c, TRUE, calls[c].files, redeploy)]
  BY <1>3 DEF BackoffOver
<1>5. calls' = [calls EXCEPT ![c] = n] /\ generatedFiles' = generatedFiles
  BY <1>2 DEF BackoffOver
<1>6. n.pc = "attempt" /\ n.awaited /\ n.asked = calls[c].asked /\ n.files = calls[c].files
  BY <1>1, <1>2 DEF Call
<1> HIDE DEF n
<1>7. calls'[c] = n /\ \A d \in Calls : d # c => calls'[d] = calls[d]
  BY <1>2, <1>5
<1>8. /\ attempts'[a] = Deploying(c, TRUE, calls'[c].files, redeploy)
      /\ \A b \in Attempts : b # a => attempts'[b] = attempts[b]
  BY <1>2, <1>4, <1>6, <1>7
<1>9. attempts'[a].pc # "status"
  BY <1>1, <1>8 DEF Deploying
<1>10. \A d \in Calls : d # c => ~calls[d].awaited
  BY <1>1, OneDeploys DEF OwnInv
<1>11. /\ \A f \in Files : generatedFiles[f] >= calls'[c].asked[f]
       /\ \A f \in DOMAIN calls'[c].files : calls'[c].files[f] >= calls'[c].asked[f]
  BY <1>1, <1>6, <1>7 DEF OwnInv, Served
<1> QED BY <1>1, <1>2, <1>5, <1>6, <1>7, <1>8, <1>9, <1>10, <1>11, AttemptingOwn

LEMMA InitOwn == Init => OwnInv
BY Blank DEF Init, OwnInv, Attended, Served, Serves

LEMMA StepOwn ==
  ASSUME ~Strays, ~Analyses, ~PartialWrites
  PROVE  IInv /\ OwnInv /\ [Next]_vars => OwnInv'
<1> SUFFICES ASSUME IInv, OwnInv, [Next]_vars
             PROVE  OwnInv'
  OBVIOUS
<1>1. \A f \in Files : generatedFiles[f] \in Version /\ generatedFiles[f] >= generatedFiles[f]
  <2>1. \A x \in Version : x >= x
    BY DeploymentAssumption DEF Version
  <2> QED BY <2>1 DEF IInv, TypeOK
<1>2. CASE UNCHANGED vars
  BY <1>1, <1>2, SteadyOwn DEF vars
<1>3. ASSUME NEW c \in Calls, MasterTimeout(c) \/ JoinTimeout(c)
      PROVE  OwnInv'
  BY <1>3 DEF MasterTimeout, JoinTimeout
<1>4. ASSUME NEW a \in Attempts, Analyse(a) \/ AttemptTimesOut(a)
      PROVE  OwnInv'
  BY <1>4 DEF Analyse, AttemptTimesOut
<1>5. ASSUME NEW a \in Attempts, CreateFails(a) \/ WriteFails(a)
      PROVE  OwnInv'
  <2>1. attempts[a].pc # "off" /\ \E sessionLevel \in BOOLEAN : Failed(a, sessionLevel)
    BY <1>5 DEF CreateFails, WriteFails
  <2> QED BY <2>1, FailedOwn
<1>6. ASSUME NEW k \in Checks, HealthTick(k) \/ FoundHealthy(k)
      PROVE  OwnInv'
  BY <1>1, <1>6, SteadyOwn DEF HealthTick, FoundHealthy
<1>7. ASSUME NEW f \in Files, SaveFile(f)
      PROVE  OwnInv'
  <2>1. \A g \in Files : generatedFiles'[g] \in Version /\ generatedFiles'[g] >= generatedFiles[g]
    BY <1>1, <1>7, DeploymentAssumption DEF SaveFile, Version, IInv, TypeOK
  <2> QED BY <1>7, <2>1, SteadyOwn DEF SaveFile
<1>8. ASSUME NEW i \in Instances, InstanceDies(i)
      PROVE  OwnInv'
  <2>1. \A j \in Instances : instances'[j].files = instances[j].files
    BY <1>8 DEF InstanceDies, IInv, TypeOK
  <2> QED BY <1>1, <1>8, <2>1, SteadyOwn DEF InstanceDies
<1>9. CASE Evicted
  BY <1>9, Blank DEF Evicted, OwnInv, Attended, Served, Serves
<1>10. ASSUME NEW c \in Calls, Deploy(c) \/ SetupDone(c) \/ BackoffOver(c) \/ SetupFails(c)
       PROVE  OwnInv'
  BY <1>10, DeployOwn, SetupDoneOwn, BackoffOverOwn, SetupFailsOwn
<1>11. ASSUME NEW a \in Attempts, StatusHealthy(a) \/ StatusUnhealthy(a) \/ Created(a) \/ WriteDone(a)
       PROVE  OwnInv'
  BY <1>11, StatusHealthyOwn, StatusUnhealthyOwn, CreatedOwn, WriteDoneOwn
<1>12. ASSUME NEW k \in Checks, FoundUnhealthy(k)
       PROVE  OwnInv'
  BY <1>12, FoundUnhealthyOwn
<1> QED
  BY <1>2, <1>3, <1>4, <1>5, <1>6, <1>7, <1>8, <1>9, <1>10, <1>11, <1>12
  DEF Next, CallStep, AttemptStep, CheckStep

(* A call that returns a preview returns that of an instance with its      *)
(* files.                                                                  *)
LEMMA FinishesFound ==
  ASSUME ~PartialWrites, IInv, OwnInv, NEW c \in Calls, Finishes(c)
  PROVE  Has(Preview(c), c)
<1>1. CASE SetupDone(c)
  <2>1. calls[c].pc = "setup" /\ instances' = instances
    BY <1>1 DEF SetupDone
  <2>2. Found(calls[c].instance, c)
    BY <2>1 DEF OwnInv, Attended, Served
  <2> QED BY <2>1, <2>2 DEF Has, Found, Preview
<1>2. ASSUME NEW a \in Live(c), WriteDone(a)
      PROVE  Has(Preview(c), c)
  <2>1. a \in Attempts /\ attempts[a].live /\ attempts[a].by = c
    BY DEF Live
  <2>2. \A b \in Live(c) : b = a
    BY <2>1 DEF Live, IInv, Shape, OneLiveAttempt
  <2>3. (CHOOSE b \in Live(c) : TRUE) = a
    BY <2>2
  <2>4. calls[c].pc = "attempt"
    BY <2>1 DEF IInv, Shape, OneLiveAttempt
  <2>5. Preview(c) = attempts[a].instance
    BY <2>3, <2>4 DEF Preview
  <2> QED BY <1>2, <2>1, <2>5, WrittenFound DEF Has
<1> QED BY <1>1, <1>2 DEF Finishes

(* Where no attempt goes astray, static analysis creates no instance and   *)
(* no write misses a file, the call that owns a deployment returns the preview of an instance that has its       *)
(* files, for every number of calls, files, failures, deaths and           *)
(* evictions.                                                              *)
THEOREM FilesOfTheOwner ==
  ASSUME ~Strays, ~Analyses, ~PartialWrites
  PROVE  Spec => OwnFilesDeployed
<1> DEFINE Inv == IInv /\ OwnInv
<1>1. Init => Inv
  BY InitIInv, InitOwn
<1>2. Inv /\ [Next]_vars => Inv'
  BY StepIInv, StepOwn
<1>3. Inv /\ [Next]_vars => [\A c \in Calls : Finishes(c) => Has(Preview(c), c)]_vars
  BY FinishesFound
<1> HIDE DEF Inv
<1> QED BY <1>1, <1>2, <1>3, PTL DEF Spec, OwnFilesDeployed
=============================================================================
