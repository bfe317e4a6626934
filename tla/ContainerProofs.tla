----------------------------- MODULE ContainerProofs -----------------------------
(***************************************************************************)
(* Theorems about what runs in a container: the monitor, for every number  *)
(* of restarts, with and without signals that are refused; the log file,   *)
(* for every number of lines, readers, resets and kills; the error store,  *)
(* for every number of errors, clears and retries.                         *)
(***************************************************************************)
EXTENDS MCContainer, SequenceTheorems, Sums

-----------------------------------------------------------------------------
(* ProcessMonitor.                                                         *)

(* A restart is scheduled only while no child is left, living or exited    *)
(* with its exit event to come, and never while the monitor stops.  This   *)
(* is what makes SingleChild inductive.                                    *)
Shape ==
  /\ \A c \in DOMAIN children : c # Last => children[c].process = "gone"
  /\ restartTimer => /\ monitor # "stopping"
                     /\ Last > 0 /\ children[Last].process = "gone"
  /\ state # "stopped" => Last > 0
  /\ monitor = "off" => Last = 0
  /\ monitor \in {"starting", "up", "stopping"} => Last > 0
  /\ monitor = "stopping" => state # "running"

IInv == TypeOK /\ Shape

LEMMA InitHolds == Init => IInv
<1> SUFFICES ASSUME Init PROVE IInv
  OBVIOUS
<1>1. children \in Seq(Child) /\ Last = 0 /\ DOMAIN children = {}
  BY EmptySeq DEF Init, Last
<1>2. /\ monitor = "off" /\ state = "stopped"
      /\ restartTimer = FALSE /\ restartCount = 0
  BY DEF Init
<1>3. TypeOK
  <2>1. restartCount \in 0..MaxRestarts
    BY <1>2, MonitorAssumption
  <2>2. restartTimer \in BOOLEAN
    BY <1>2
  <2> QED
    BY <1>1, <1>2, <2>1, <2>2 DEF TypeOK
<1>4. Shape
  BY <1>1, <1>2 DEF Shape
<1> QED
  BY <1>3, <1>4 DEF IInv

LEMMA LastIsIndex ==
  ASSUME IInv
  PROVE  Last \in Nat /\ DOMAIN children = 1..Last
  BY LenProperties DEF IInv, TypeOK, Last

(* The last child changes and the others stay.                             *)
LEMMA LastChanges ==
  ASSUME IInv, Last > 0, NEW child \in Child,
         children' = [children EXCEPT ![Last] = child]
  PROVE  /\ children' \in Seq(Child) /\ Last' = Last /\ DOMAIN children' = 1..Last
         /\ \A c \in 1..Last : children'[c] = IF c = Last THEN child ELSE children[c]
<1>1. children \in Seq(Child) /\ Last \in 1..Len(children)
  BY LastIsIndex DEF IInv, TypeOK, Last
<1>2. children' \in Seq(Child) /\ Len(children') = Len(children)
  BY <1>1, ExceptSeq
<1> QED
  BY <1>1, <1>2, ExceptSeq, LenProperties DEF Last

(* A child is added.                                                       *)
LEMMA ChildAdded ==
  ASSUME IInv, Spawned
  PROVE  /\ children' \in Seq(Child) /\ Last' = Last + 1 /\ DOMAIN children' = 1..Last + 1
         /\ \A c \in 1..Last : children'[c] = children[c]
<1>1. NewChild \in Child /\ children \in Seq(Child)
  BY DEF NewChild, Child, Exit, IInv, TypeOK
<1> QED
  BY <1>1, AppendProperties, LenProperties DEF Spawned, Last

(* What a signal does to the children.                                     *)
LEMMA DeliveredKeeps ==
  ASSUME IInv, Last > 0, NEW signal, Delivered(signal)
  PROVE  /\ children' \in Seq(Child) /\ Last' = Last /\ DOMAIN children' = 1..Last
         /\ \A c \in 1..Last : c # Last => children'[c] = children[c]
         /\ children[Last].process = "gone" => children'[Last].process = "gone"
<1>1. children[Last] \in Child /\ Last \in DOMAIN children
  BY LastIsIndex, ElementOfSeq DEF IInv, TypeOK, Last
<1> DEFINE killed == [children[Last] EXCEPT
             !.killed = TRUE,
             !.process = IF signal = "SIGKILL" /\ @ = "alive" THEN "exited" ELSE @,
             !.exit = IF signal = "SIGKILL" /\ children[Last].process = "alive"
                        THEN "signal" ELSE @]
<1>2. killed \in Child /\ (children[Last].process = "gone" => killed.process = "gone")
  BY <1>1 DEF Child, Exit
<1>3. children' = [children EXCEPT ![Last] = killed]
  BY <1>1 DEF Delivered, Child
<1> HIDE DEF killed
<1>4. /\ children' \in Seq(Child) /\ Last' = Last /\ DOMAIN children' = 1..Last
      /\ \A c \in 1..Last : children'[c] = IF c = Last THEN killed ELSE children[c]
  BY <1>2, <1>3, LastChanges
<1>5. Last \in 1..Last
  BY LastIsIndex
<1> QED
  BY <1>2, <1>4, <1>5

LEMMA StartHolds == IInv /\ Start => IInv'
<1> SUFFICES ASSUME IInv, Start PROVE IInv'
  OBVIOUS
<1>1. CASE Spawned /\ monitor' = "starting"
  BY <1>1, ChildAdded, LastIsIndex DEF Start, Spawned, IInv, TypeOK, Shape
<1>2. CASE SpawnFails /\ monitor' = "over"
  BY <1>2 DEF Start, SpawnFails, IInv, TypeOK, Shape, Last
<1> QED
  BY <1>1, <1>2 DEF Start

LEMMA RestartTimerFiresHolds == IInv /\ RestartTimerFires => IInv'
<1> SUFFICES ASSUME IInv, RestartTimerFires PROVE IInv'
  OBVIOUS
<1>1. CASE Spawned /\ UNCHANGED monitor
  <2>1. TypeOK'
    BY <1>1, ChildAdded DEF RestartTimerFires, Spawned, IInv, TypeOK
  <2>2. \A c \in 1..Last : children[c].process = "gone"
    BY LastIsIndex DEF RestartTimerFires, IInv, Shape
  <2>3. Shape'
    BY <1>1, <2>2, ChildAdded, LastIsIndex DEF RestartTimerFires, Spawned, IInv, Shape
  <2> QED
    BY <2>1, <2>3 DEF IInv
<1>2. CASE SpawnFails
  BY <1>2 DEF RestartTimerFires, SpawnFails, IInv, TypeOK, Shape, Last
<1> QED
  BY <1>1, <1>2 DEF RestartTimerFires

LEMMA ChildExitsHolds == IInv /\ ChildExits => IInv'
<1> SUFFICES ASSUME IInv, ChildExits PROVE IInv'
  OBVIOUS
<1>1. PICK c \in DOMAIN children, exit \in Exit :
        /\ children[c].process = "alive"
        /\ children' = [children EXCEPT ![c].process = "exited", ![c].exit = exit]
  BY DEF ChildExits
<1>2. c = Last /\ Last > 0 /\ children[c] \in Child /\ ~restartTimer
  BY <1>1, LastIsIndex, ElementOfSeq DEF IInv, TypeOK, Shape, Last
<1> DEFINE exited == [children[c] EXCEPT !.process = "exited", !.exit = exit]
<1>3. exited \in Child /\ children' = [children EXCEPT ![Last] = exited]
  BY <1>1, <1>2 DEF Child
<1> HIDE DEF exited
<1> QED
  BY <1>2, <1>3, LastChanges, LastIsIndex DEF ChildExits, IInv, TypeOK, Shape

LEMMA HandleExitHolds == IInv /\ HandleExit => IInv'
<1> SUFFICES ASSUME IInv, NEW c \in DOMAIN children, ExitEvent(c) PROVE IInv'
  BY DEF HandleExit
<1>1. c = Last /\ Last > 0 /\ children[c] \in Child /\ ~restartTimer
  BY LastIsIndex, ElementOfSeq DEF ExitEvent, IInv, TypeOK, Shape, Last
<1> DEFINE gone == [children[c] EXCEPT !.process = "gone"]
<1>2. gone \in Child /\ gone.process = "gone" /\ children' = [children EXCEPT ![Last] = gone]
  BY <1>1 DEF Child, ExitEvent
<1> HIDE DEF gone
<1>3. TypeOK'
  BY <1>1, <1>2, LastChanges, MonitorAssumption DEF ExitEvent, ShouldRestart, IInv, TypeOK
<1>5. /\ Last' = Last /\ DOMAIN children' = 1..Last
      /\ \A i \in 1..Last : children'[i] = IF i = Last THEN gone ELSE children[i]
  BY <1>1, <1>2, LastChanges
<1>6. \A i \in DOMAIN children' : children'[i].process = "gone"
  BY <1>2, <1>5, LastIsIndex DEF IInv, Shape
<1>7. Last \in DOMAIN children'
  BY <1>1, <1>5, LastIsIndex
<1>4. Shape'
  BY <1>1, <1>5, <1>6, <1>7 DEF ExitEvent, ShouldRestart, IInv, TypeOK, Shape
<1> QED
  BY <1>3, <1>4 DEF IInv

LEMMA FatalOutputHolds == IInv /\ FatalOutput => IInv'
<1> SUFFICES ASSUME IInv, FatalOutput PROVE IInv'
  OBVIOUS
<1>1. CASE Delivered("SIGTERM") /\ UNCHANGED <<state, restartTimer, restartCount>>
  BY <1>1, DeliveredKeeps, LastIsIndex DEF FatalOutput, IInv, TypeOK, Shape
<1>2. CASE Refused /\ ErrorEvent
  BY <1>2 DEF FatalOutput, Refused, ErrorEvent, IInv, TypeOK, Shape, Last
<1> QED
  BY <1>1, <1>2 DEF FatalOutput

LEMMA ShutdownHolds == IInv /\ Shutdown => IInv'
<1> SUFFICES ASSUME IInv, Shutdown PROVE IInv'
  OBVIOUS
<1>1. Last > 0
  BY DEF Shutdown, IInv, Shape
<1>2. CASE UNCHANGED children
  BY <1>1, <1>2 DEF Shutdown, IInv, TypeOK, Shape, Last
<1>3. CASE Delivered("SIGTERM")
  BY <1>1, <1>3, DeliveredKeeps, LastIsIndex DEF Shutdown, Refused, IInv, TypeOK, Shape
<1> QED
  BY <1>2, <1>3 DEF Shutdown, Refused

LEMMA KillTimeoutHolds == IInv /\ KillTimeout => IInv'
<1> SUFFICES ASSUME IInv, KillTimeout PROVE IInv'
  OBVIOUS
<1>3. Last > 0
  BY DEF KillTimeout, IInv, Shape
<1>1. CASE UNCHANGED children
  BY <1>1 DEF KillTimeout, IInv, TypeOK, Shape, Last
<1>2. CASE Last > 0 /\ Delivered("SIGKILL")
  BY <1>2, DeliveredKeeps, LastIsIndex DEF KillTimeout, IInv, TypeOK, Shape
<1> QED
  BY <1>1, <1>2, <1>3 DEF KillTimeout, Refused

LEMMA SameLength == IInv /\ (ChildExits \/ HandleExit) => UNCHANGED Len(children)
<1>1. IInv /\ ChildExits => UNCHANGED Len(children)
  <2> SUFFICES ASSUME IInv, NEW c \in DOMAIN children, NEW exit \in Exit,
                      children' = [children EXCEPT ![c].process = "exited", ![c].exit = exit]
               PROVE  UNCHANGED Len(children)
    BY DEF ChildExits
  <2> QED
    BY DEF IInv, TypeOK
<1>2. IInv /\ HandleExit => UNCHANGED Len(children)
  BY DEF HandleExit, ExitEvent, IInv, TypeOK
<1> QED
  BY <1>1, <1>2

LEMMA StepHolds == IInv /\ [Next]_vars => IInv'
<1> SUFFICES ASSUME IInv, [Next]_vars PROVE IInv'
  OBVIOUS
<1>1. CASE Ready \/ SignalBeforeReady
  BY <1>1 DEF Ready, SignalBeforeReady, IInv, TypeOK, Shape, Last
<1>3. CASE ShutdownAtOnce
  BY <1>3 DEF ShutdownAtOnce, IInv, TypeOK, Shape, Last
<1>2. CASE UNCHANGED vars
  BY <1>2 DEF vars, IInv, TypeOK, Shape, Last
<1> QED
  BY <1>1, <1>2, <1>3, StartHolds, RestartTimerFiresHolds, ChildExitsHolds, HandleExitHolds,
     FatalOutputHolds, ShutdownHolds, KillTimeoutHolds DEF Next

LEMMA Inductive == Spec => []IInv
  BY InitHolds, StepHolds, PTL DEF Spec

(* Every variable keeps its type; in particular there are never more       *)
(* restarts than configured.                                               *)
THEOREM TypeCorrect == Spec => []TypeOK
<1>1. IInv => TypeOK
  BY DEF IInv
<1> QED
  BY <1>1, Inductive, PTL

(* The application never runs twice in an instance.                        *)
THEOREM OneChild == Spec => []SingleChild
<1>1. IInv => SingleChild
  BY DEF IInv, Shape, SingleChild
<1> QED
  BY <1>1, Inductive, PTL

(* No child is spawned once the monitor was told to stop.                  *)
THEOREM StopIsFinal == Spec => NoRestartAfterStop
<1>1. IInv /\ [Next]_vars => [Stopping => UNCHANGED Len(children)]_vars
  <2> SUFFICES ASSUME IInv, Stopping, Next PROVE UNCHANGED Len(children)
    OBVIOUS
  <2>1. ASSUME Last > 0, NEW signal, Delivered(signal) PROVE UNCHANGED Len(children)
    BY <2>1, DeliveredKeeps DEF Last
  <2>2. CASE UNCHANGED children
    BY <2>2
  <2>3. CASE ChildExits \/ HandleExit
    BY <2>3, SameLength
  <2>6. KillTimeout \/ FatalOutput => Last > 0
    BY DEF KillTimeout, FatalOutput, IInv, Shape
  <2>4. CASE KillTimeout \/ FatalOutput
    BY <2>1, <2>2, <2>4, <2>6 DEF KillTimeout, FatalOutput, Refused
  <2>5. ~Start /\ ~RestartTimerFires
    BY DEF Stopping, Start, RestartTimerFires, IInv, Shape
  <2> QED
    BY <2>2, <2>3, <2>4, <2>5
    DEF Next, Ready, SignalBeforeReady, Shutdown, ShutdownAtOnce, Stopping
<1> QED
  BY <1>1, Inductive, PTL DEF Spec, NoRestartAfterStop

-----------------------------------------------------------------------------
(* LogFile.                                                                *)

(* What the fields of trim and of a reader mean at each of their stages.   *)
TrimShape ==
  /\ trim.pc \in {"off", "check", "read"} => trim = [logFile!NoTrim EXCEPT !.pc = trim.pc]
  /\ trim.pc \in {"open", "write"} => trim.file \in logFile!Inodes

ReaderShape(reader) ==
  /\ reader.pc = "off" => reader = logFile!NoReader
  /\ reader.pc \in {"start", "locked", "create", "read"} => reader.text = << >>
  /\ reader.pc \in {"create", "read", "unlink"} => reader.reset /\ reader.file \in logFile!Inodes
  /\ reader.pc \in {"off", "start", "locked", "release", "print"} => reader.file = None

Reader ==
  [pc : {"off", "start", "print"} \cup logFile!Holding, file : logFile!Inodes \cup {None},
   text : Seq(Lines), reset : BOOLEAN]

(* One process at most holds the lock, and it keeps what it renamed apart  *)
(* from the log.                                                           *)
Locked ==
  \A r \in Readers :
    /\ readers[r].pc \in logFile!Holding => lock
    /\ readers[r].file # None => readers[r].file # log
    /\ \A q \in Readers : readers[r].pc \in logFile!Holding /\ readers[q].pc \in logFile!Holding => r = q

LogShape ==
  /\ log \in logFile!Inodes \cup {None} /\ contents \in [logFile!Inodes -> Seq(Lines)]
  /\ appends \in [Lines -> logFile!Inodes \cup {0, -1}]
  /\ trim \in [pc : {"off", "check", "read", "open", "write"}, text : Seq(Lines), file : logFile!Inodes \cup {None}]
  /\ readers \in [Readers -> Reader]
  /\ TrimShape /\ \A r \in Readers : ReaderShape(readers[r])
  /\ lock \in BOOLEAN /\ Locked

(* An inode for each reset that took the log away, and the log.            *)
Used ==
  {i \in logFile!Inodes : \/ i = log \/ contents[i] # << >> \/ trim.file = i
                          \/ \E r \in Readers : readers[r].file = i
                          \/ \E l \in Lines : appends[l] = i}
Waiting == {r \in Readers : readers[r].reset /\ readers[r].pc \in {"start", "locked"}}
Enough ==
  /\ resets \in 0..MaxResets
  /\ Cardinality(Used) + Cardinality(Waiting) <= IF log = None THEN resets ELSE resets + 1

-----------------------------------------------------------------------------
There == IF log = None THEN {} ELSE logFile!In(contents[log])
Trimmed == IF trim.pc = "write" THEN logFile!In(trim.text) ELSE {}
Held(r) ==
  IF readers[r].reset
    THEN logFile!In(readers[r].text) \cup (IF readers[r].file = None THEN {} ELSE logFile!In(contents[readers[r].file]))
    ELSE {}
Safe(l) == l \in delivered \cup exposed \/ \E r \in Readers : l \in Held(r)

(* Between a rename and the new file, what is in the log is safe besides;  *)
(* so is what a trim has read and will write to another file.  What a trim *)
(* writes over is exposed, and what it cuts off.                           *)
KeptInv ==
  /\ \A l \in Lines : appends[l] = -1 => l \in There \cup Trimmed \/ Safe(l)
  /\ (\E r \in Readers : readers[r].pc = "create") =>
       \A l \in There \cup (IF trim.file = log THEN Trimmed ELSE {}) : Safe(l)
  /\ trim.pc = "open" =>
       /\ \A l \in logFile!In(trim.text) : (trim.file = log /\ l \in There) \/ Safe(l)
       /\ trim.file = log => There \subseteq logFile!In(trim.text) \cup exposed
  /\ trim.pc = "write" => logFile!In(contents[trim.file]) \subseteq exposed
  /\ \A r \in Readers : readers[r].pc = "unlink" =>
       logFile!In(contents[readers[r].file]) \subseteq logFile!In(readers[r].text) \cup exposed

-----------------------------------------------------------------------------
(* Where a line is that will be printed once more: what a trim has read is *)
(* in the log only if it will be written back to it.                       *)
LogLines ==
  There \cup (IF trim.pc \in {"open", "write"} /\ trim.file = log THEN logFile!In(trim.text) ELSE {})
Taken(r) ==
  IF readers[r].reset
    THEN logFile!In(readers[r].text) \cup
           (IF readers[r].pc \in {"create", "read"} THEN logFile!In(contents[readers[r].file]) ELSE {})
    ELSE {}

Exclusive ==
  \A l \in Lines \ copied :
    /\ l \in LogLines => l \notin delivered /\ \A r \in Readers : l \notin Taken(r)
    /\ \A r \in Readers : l \in Taken(r) =>
         l \notin delivered /\ \A q \in Readers : l \in Taken(q) => q = r

Written ==
  \A l \in Lines : appends[l] # -1 =>
    /\ l \notin logFile!In(trim.text) /\ l \notin delivered
    /\ \A i \in logFile!Inodes : l \notin logFile!In(contents[i])
    /\ \A r \in Readers : l \notin logFile!In(readers[r].text)

OnceInv == Written /\ Exclusive /\ logFile!PrintedOnce

LogInv == LogShape /\ Enough /\ KeptInv /\ OnceInv

-----------------------------------------------------------------------------
LEMMA InLines ==
  ASSUME NEW s \in Seq(Lines) PROVE logFile!In(s) \subseteq Lines
BY DEF logFile!In

LEMMA InEmpty == << >> \in Seq(Lines) /\ logFile!In(<< >>) = {}
BY DEF logFile!In

LEMMA InAppend ==
  ASSUME NEW s \in Seq(Lines), NEW l \in Lines
  PROVE  Append(s, l) \in Seq(Lines) /\ logFile!In(Append(s, l)) = logFile!In(s) \cup {l} /\ Append(s, l) # << >>
<1>1. /\ Append(s, l) \in Seq(Lines) /\ Len(Append(s, l)) = Len(s) + 1 /\ Len(s) \in Nat
      /\ \A i \in 1..Len(s) : Append(s, l)[i] = s[i]
      /\ Append(s, l)[Len(s) + 1] = l
      /\ DOMAIN s = 1..Len(s) /\ DOMAIN Append(s, l) = 1..Len(s) + 1
  OBVIOUS
<1>2. Append(s, l) # << >>
  BY <1>1, EmptySeq
<1> DEFINE appended == Append(s, l)
<1> HIDE DEF appended
<1>3. logFile!In(appended) = logFile!In(s) \cup {l}
  BY <1>1 DEF logFile!In, appended
<1> QED BY <1>1, <1>2, <1>3 DEF appended

(* A sequence is what is before a place and what is from there on.         *)
LEMMA InCut ==
  ASSUME NEW s \in Seq(Lines), NEW from \in 1..Len(s) + 1
  PROVE  /\ SubSeq(s, from, Len(s)) \in Seq(Lines)
         /\ logFile!In(SubSeq(s, from, Len(s))) \subseteq logFile!In(s)
         /\ logFile!In(s) \subseteq logFile!In(SubSeq(s, from, Len(s))) \cup logFile!In(SubSeq(s, 1, from - 1))
<1> DEFINE n == Len(s)
           tail == SubSeq(s, from, n)
           head == SubSeq(s, 1, from - 1)
<1>1. n \in Nat /\ DOMAIN s = 1..n /\ from \in 1..n + 1
  OBVIOUS
<1>2. tail \in Seq(Lines) /\ DOMAIN tail = 1..(n - from + 1) /\ \A i \in 1..(n - from + 1) : tail[i] = s[from + i - 1]
  BY <1>1
<1>3. DOMAIN head = 1..(from - 1) /\ \A i \in 1..(from - 1) : head[i] = s[i]
  BY <1>1
<1> HIDE DEF n, tail, head
<1>4. logFile!In(tail) \subseteq logFile!In(s)
  <2>1. \A i \in 1..(n - from + 1) : from + i - 1 \in 1..n
    BY <1>1
  <2> QED BY <1>1, <1>2, <2>1 DEF logFile!In
<1>5. ASSUME NEW i \in 1..n PROVE s[i] \in logFile!In(tail) \cup logFile!In(head)
  <2>1. CASE i < from
    BY <1>1, <1>3, <2>1 DEF logFile!In, n
  <2>2. CASE i >= from
    <3>1. i - from + 1 \in 1..(n - from + 1) /\ from + (i - from + 1) - 1 = i
      BY <1>1, <2>2 DEF n
    <3> QED BY <1>2, <3>1 DEF logFile!In
  <2> QED BY <1>1, <2>1, <2>2 DEF n
<1>6. logFile!In(s) \subseteq logFile!In(tail) \cup logFile!In(head)
  BY <1>1, <1>5 DEF logFile!In
<1> QED BY <1>2, <1>4, <1>6 DEF n, tail, head

(* Writing over the start of a file.                                       *)
LEMMA InOver ==
  ASSUME NEW text \in Seq(Lines), NEW there \in Seq(Lines)
  PROVE  LET all == text \o SubSeq(there, Len(text) + 1, Len(there))
         IN /\ all \in Seq(Lines) /\ logFile!In(text) \subseteq logFile!In(all)
            /\ logFile!In(all) \subseteq logFile!In(text) \cup logFile!In(there)
<1> DEFINE n == Len(text)
           m == Len(there)
           rest == SubSeq(there, n + 1, m)
           k == Len(rest)
           all == text \o rest
<1>1. n \in Nat /\ m \in Nat /\ DOMAIN text = 1..n /\ DOMAIN there = 1..m
  OBVIOUS
<1>2. rest \in Seq(Lines) /\ DOMAIN rest = 1..k /\ k \in Nat
  <2>1. \A i \in n + 1..m : there[i] \in Lines
    BY <1>1
  <2>2. rest \in Seq(Lines)
    BY <1>1, <2>1, SubSeqProperties
  <2> HIDE DEF rest
  <2> QED BY <2>2
<1>3. logFile!In(rest) \subseteq logFile!In(there)
  <2>1. \A i \in 1..k : rest[i] = there[n + i] /\ n + i \in 1..m
    BY <1>1
  <2> HIDE DEF rest, k, n, m
  <2> QED BY <1>1, <1>2, <2>1 DEF logFile!In
<1> HIDE DEF rest
<1>4. /\ all \in Seq(Lines) /\ DOMAIN all = 1..n + k
      /\ \A i \in 1..n : all[i] = text[i]
      /\ \A i \in 1..k : all[n + i] = rest[i]
  BY <1>1, <1>2
<1> HIDE DEF all, n, k
<1>5. logFile!In(text) \subseteq logFile!In(all)
  <2>1. \A i \in 1..n : i \in DOMAIN all /\ all[i] = text[i]
    BY <1>1, <1>2, <1>4
  <2> QED BY <1>1, <2>1 DEF logFile!In
<1>6. ASSUME NEW i \in 1..n + k PROVE all[i] \in logFile!In(text) \cup logFile!In(rest)
  <2>1. CASE i <= n
    <3>1. i \in 1..n /\ all[i] = text[i]
      BY <1>1, <1>2, <1>4, <1>6, <2>1
    <3> QED BY <1>1, <3>1 DEF logFile!In
  <2>2. CASE i > n
    <3>1. i - n \in 1..k /\ n + (i - n) = i
      BY <1>1, <1>2, <2>2
    <3> QED BY <1>1, <1>2, <1>4, <3>1 DEF logFile!In
  <2> QED BY <1>1, <1>2, <2>1, <2>2
<1>7. logFile!In(all) \subseteq logFile!In(text) \cup logFile!In(there)
  BY <1>3, <1>4, <1>6 DEF logFile!In
<1> QED BY <1>4, <1>5, <1>7 DEF all, rest, n, m

-----------------------------------------------------------------------------
LEMMA NotInodes ==
  ASSUME logFile!LogFileAssumption PROVE None \notin logFile!Inodes /\ 0 \notin logFile!Inodes /\ -1 \notin logFile!Inodes
BY DEF logFile!LogFileAssumption, logFile!Inodes

LEMMA ReadersFinite == ASSUME logFile!LogFileAssumption PROVE IsFiniteSet(Readers)
<1>1. logFile!IsFiniteSet(Readers) <=> IsFiniteSet(Readers)
  BY Zenon DEF logFile!IsFiniteSet, IsFiniteSet
<1> QED BY <1>1 DEF logFile!LogFileAssumption

LEMMA UsedFinite ==
  ASSUME logFile!LogFileAssumption, LogShape
  PROVE  /\ IsFiniteSet(logFile!Inodes) /\ Cardinality(logFile!Inodes) = MaxResets + 1
         /\ IsFiniteSet(Used) /\ Cardinality(Used) \in Nat
         /\ IsFiniteSet(Waiting) /\ Cardinality(Waiting) \in Nat
<1>1. IsFiniteSet(logFile!Inodes) /\ Cardinality(logFile!Inodes) = MaxResets + 1
  <2>1. MaxResets + 1 \in Int /\ MaxResets + 1 >= 1
    BY DEF logFile!LogFileAssumption
  <2> QED BY <2>1, FS_Interval DEF logFile!Inodes
<1>2. Used \subseteq logFile!Inodes /\ Waiting \subseteq Readers
  BY DEF Used, Waiting
<1> QED BY <1>1, <1>2, FS_Subset, FS_CardinalityType, ReadersFinite

(* There is an inode for a new file whenever one is made.                  *)
LEMMA NewInode ==
  ASSUME logFile!LogFileAssumption, LogShape, Enough, log = None
  PROVE  /\ logFile!New \in logFile!Inodes /\ logFile!New \notin Used
         /\ logFile!New # log /\ contents[logFile!New] = << >> /\ trim.file # logFile!New
         /\ \A r \in Readers : readers[r].file # logFile!New
         /\ \A l \in Lines : appends[l] # logFile!New
<1>1. Cardinality(Used) < Cardinality(logFile!Inodes)
  BY UsedFinite DEF Enough, logFile!LogFileAssumption
<1>2. Used \subseteq logFile!Inodes
  BY DEF Used
<1>3. Used # logFile!Inodes
  BY <1>1, UsedFinite
<1>4. \E j \in logFile!Inodes :
        /\ j # log /\ contents[j] = << >>
        /\ \A r \in Readers : readers[r].file # j
        /\ \A l \in Lines : appends[l] # j
        /\ trim.file # j
  <2>1. PICK i \in logFile!Inodes : i \notin Used
    BY <1>2, <1>3
  <2>2. /\ i # log /\ contents[i] = << >>
        /\ \A r \in Readers : readers[r].file # i
        /\ \A l \in Lines : appends[l] # i
        /\ trim.file # i
    BY <2>1, SMT DEF Used
  <2> QED BY <2>1, <2>2
<1>5. /\ logFile!New \in logFile!Inodes /\ logFile!New # log /\ contents[logFile!New] = << >>
      /\ \A r \in Readers : readers[r].file # logFile!New
      /\ \A l \in Lines : appends[l] # logFile!New
      /\ trim.file # logFile!New
  BY <1>4, Zenon DEF logFile!New
<1> HIDE DEF logFile!New
<1> QED BY <1>5 DEF Used

LEMMA OpeningIs ==
  ASSUME logFile!LogFileAssumption, LogShape, Enough
  PROVE  /\ logFile!Opening \in logFile!Inodes /\ logFile!Opening # None
         /\ \A r \in Readers : readers[r].file # logFile!Opening
         /\ log # None => logFile!Opening = log
         /\ log = None => /\ logFile!Opening \notin Used /\ contents[logFile!Opening] = << >> /\ trim.file # logFile!Opening
                          /\ \A l \in Lines : appends[l] # logFile!Opening
<1>1. CASE log = None
  BY <1>1, NewInode, NotInodes, Zenon DEF logFile!Opening
<1>2. CASE log # None
  <2>1. logFile!Opening = log /\ log \in logFile!Inodes
    BY <1>2 DEF logFile!Opening, LogShape
  <2>2. \A r \in Readers : readers[r].file # log
    BY <1>2 DEF LogShape, Locked
  <2> QED BY <1>2, <2>1, <2>2
<1> QED BY <1>1, <1>2

-----------------------------------------------------------------------------
(* A reader moves on, and the log and its file with it.                    *)
LEMMA ReaderMoves ==
  ASSUME logFile!LogFileAssumption, LogShape, NEW r \in Readers, NEW reader \in Reader, ReaderShape(reader),
         readers' = [readers EXCEPT ![r] = reader],
         log' \in logFile!Inodes \cup {None},
         reader.file # None => reader.file # log',
         \A q \in Readers : readers[q].file # None => readers[q].file # log' \/ q = r,
         lock' \in BOOLEAN,
         reader.pc \in logFile!Holding => lock' /\ (readers[r].pc \in logFile!Holding \/ ~lock),
         lock' = lock \/ (lock' /\ ~lock) \/ readers[r].pc \in logFile!Holding
  PROVE  readers' \in [Readers -> Reader] /\ (\A q \in Readers : ReaderShape(readers'[q])) /\ Locked'
<1>1. /\ \A q \in Readers : readers'[q] = IF q = r THEN reader ELSE readers[q]
      /\ readers' \in [Readers -> Reader]
  BY DEF LogShape
<1>2. \A q \in Readers : ReaderShape(readers'[q])
  BY <1>1 DEF LogShape
<1>3. Locked'
  <2>1. ASSUME NEW p \in Readers
        PROVE  /\ readers'[p].pc \in logFile!Holding => lock'
               /\ readers'[p].file # None => readers'[p].file # log'
    BY <1>1, <2>1 DEF LogShape, Locked
  <2>2. ASSUME NEW p \in Readers, NEW q \in Readers, readers'[p].pc \in logFile!Holding, readers'[q].pc \in logFile!Holding
        PROVE  p = q
    BY <1>1, <2>2 DEF LogShape, Locked
  <2> QED BY <2>1, <2>2, Zenon DEF Locked
<1> QED BY <1>1, <1>2, <1>3

LEMMA LogInit == ASSUME logFile!LogFileAssumption, logFile!Init PROVE LogShape /\ Enough
<1>1. << >> \in Seq(Lines) /\ None \in logFile!Inodes \cup {None}
  OBVIOUS
<1>2. logFile!NoReader \in Reader /\ ReaderShape(logFile!NoReader) /\ logFile!NoReader.pc = "off" /\ logFile!NoReader.file = None /\ ~logFile!NoReader.reset
  BY DEF logFile!NoReader, Reader, ReaderShape, logFile!Holding
<1>3. trim \in [pc : {"off", "check", "read", "open", "write"}, text : Seq(Lines), file : logFile!Inodes \cup {None}] /\ TrimShape
  BY DEF logFile!Init, logFile!NoTrim, TrimShape
<1>4. LogShape
  BY <1>1, <1>2, <1>3 DEF logFile!Init, LogShape, Locked, logFile!Holding
<1>5. Used = {} /\ Waiting = {}
  BY <1>2, NotInodes DEF logFile!Init, Used, Waiting, logFile!NoTrim
<1>6. Cardinality(Used) = 0 /\ Cardinality(Waiting) = 0
  BY <1>5, FS_EmptySet
<1>7. Enough
  BY <1>6, NotInodes DEF Enough, logFile!Init, logFile!LogFileAssumption
<1> QED BY <1>4, <1>7

LEMMA ReaderType ==
  ASSUME LogShape, NEW r \in Readers
  PROVE  /\ readers[r] \in Reader /\ ReaderShape(readers[r])
         /\ readers[r].file \in logFile!Inodes \cup {None} /\ readers[r].text \in Seq(Lines)
         /\ readers[r].file # None => readers[r].file # log
         /\ readers[r].pc \in logFile!Holding => lock
BY DEF LogShape, Locked, Reader

LEMMA ReaderStep ==
  ASSUME logFile!LogFileAssumption, LogShape, Enough, NEW r \in Readers,
         \/ logFile!Start(r) \/ logFile!AcquireLock(r) \/ logFile!GiveUp(r) \/ logFile!ReadOnly(r) \/ logFile!Rename(r)
         \/ logFile!CreateEmpty(r) \/ logFile!ReadTemp(r) \/ logFile!Unlink(r) \/ logFile!ReleaseLock(r) \/ logFile!PrintLogs(r) \/ logFile!Kill(r)
  PROVE  LogShape'
<1> DEFINE old == readers[r]
<1>1. /\ old \in Reader /\ ReaderShape(old) /\ logFile!NoReader \in Reader /\ ReaderShape(logFile!NoReader)
      /\ logFile!NoReader.pc = "off" /\ logFile!NoReader.file = None /\ lock \in BOOLEAN
      /\ old.pc \in logFile!Holding => lock
      /\ \A q \in Readers : readers[q].file # None => readers[q].file # log
      /\ old.file \in logFile!Inodes \cup {None}
      /\ log \in logFile!Inodes \cup {None}
  <2>1. logFile!NoReader \in Reader /\ ReaderShape(logFile!NoReader) /\ logFile!NoReader.pc = "off" /\ logFile!NoReader.file = None
    BY InEmpty DEF logFile!NoReader, Reader, ReaderShape
  <2>2. lock \in BOOLEAN /\ log \in logFile!Inodes \cup {None}
    BY DEF LogShape
  <2> QED BY <2>1, <2>2, ReaderType DEF LogShape, Locked
<1> DEFINE Good(reader) ==
      /\ reader \in Reader /\ ReaderShape(reader) /\ readers' = [readers EXCEPT ![r] = reader]
      /\ reader.file # None => reader.file # log'
      /\ reader.pc \in logFile!Holding => lock' /\ (old.pc \in logFile!Holding \/ ~lock)
      /\ lock' \in BOOLEAN /\ (lock' = lock \/ (lock' /\ ~lock) \/ old.pc \in logFile!Holding)
<1>2. ASSUME NEW reader, Good(reader), UNCHANGED <<appends, trim>>,
             log' \in logFile!Inodes \cup {None}, contents' \in [logFile!Inodes -> Seq(Lines)],
             \A q \in Readers : readers[q].file # None => readers[q].file # log' \/ q = r
      PROVE  LogShape'
  <2>1. readers' \in [Readers -> Reader] /\ (\A q \in Readers : ReaderShape(readers'[q])) /\ Locked'
    BY <1>2, ReaderMoves
  <2> QED BY <1>2, <2>1 DEF LogShape, TrimShape
<1>3. contents \in [logFile!Inodes -> Seq(Lines)] /\ \A i \in logFile!Inodes : [contents EXCEPT ![i] = << >>] \in [logFile!Inodes -> Seq(Lines)]
  BY InEmpty DEF LogShape
<1>4. CASE logFile!Start(r)
  <2>1. PICK reset \in BOOLEAN : readers' = [readers EXCEPT ![r] = [logFile!NoReader EXCEPT !.pc = "start", !.reset = reset]]
    BY <1>4 DEF logFile!Start
  <2> DEFINE reader == [logFile!NoReader EXCEPT !.pc = "start", !.reset = reset]
  <2>2. Good(reader)
    BY <1>1, <1>4, <2>1 DEF logFile!Start, logFile!files, logFile!NoReader, Reader, ReaderShape, logFile!Holding
  <2> HIDE DEF reader, Good
  <2> QED BY <1>1, <1>2, <1>3, <1>4, <2>2 DEF logFile!Start, logFile!files
<1>5. CASE logFile!AcquireLock(r)
  <2> DEFINE reader == [old EXCEPT !.pc = "locked"]
  <2>1. Good(reader)
    BY <1>1, <1>5 DEF logFile!AcquireLock, logFile!files, Reader, ReaderShape, logFile!Holding
  <2> HIDE DEF reader, Good
  <2> QED BY <1>1, <1>2, <1>3, <1>5, <2>1 DEF logFile!AcquireLock, logFile!files
<1>6. CASE logFile!GiveUp(r)
  <2>1. Good(logFile!NoReader)
    BY <1>1, <1>6 DEF logFile!GiveUp, logFile!files, logFile!Holding
  <2> HIDE DEF Good
  <2> QED BY <1>1, <1>2, <1>3, <1>6, <2>1 DEF logFile!GiveUp, logFile!files
<1>7. CASE logFile!ReadOnly(r)
  <2> DEFINE reader == [old EXCEPT !.pc = "release", !.text = IF log = None THEN << >> ELSE contents[log]]
  <2>1. reader.text \in Seq(Lines)
    BY <1>1, <1>3, InEmpty DEF Reader
  <2>2. Good(reader)
    BY <1>1, <1>7, <2>1 DEF logFile!ReadOnly, logFile!files, Reader, ReaderShape, logFile!Holding
  <2> HIDE DEF reader, Good
  <2> QED BY <1>1, <1>2, <1>3, <1>7, <2>2 DEF logFile!ReadOnly, logFile!files
<1>8. CASE logFile!Rename(r)
  <2> DEFINE reader == [old EXCEPT !.pc = IF log = None THEN "release" ELSE "create", !.file = log]
  <2>1. Good(reader)
    BY <1>1, <1>8, NotInodes DEF logFile!Rename, Reader, ReaderShape, logFile!Holding
  <2> HIDE DEF reader, Good
  <2> QED BY <1>1, <1>2, <1>3, <1>8, <2>1 DEF logFile!Rename
<1>9. CASE logFile!CreateEmpty(r)
  <2> DEFINE reader == [old EXCEPT !.pc = "read"]
  <2>1. Good(reader)
    BY <1>1, <1>9, OpeningIs DEF logFile!CreateEmpty, Reader, ReaderShape, logFile!Holding
  <2> HIDE DEF reader, Good
  <2> QED BY <1>1, <1>2, <1>3, <1>9, <2>1, OpeningIs DEF logFile!CreateEmpty
<1>10. CASE logFile!ReadTemp(r)
  <2> DEFINE reader == [old EXCEPT !.pc = "unlink", !.text = contents[old.file]]
  <2>1. old.file \in logFile!Inodes /\ contents[old.file] \in Seq(Lines)
    BY <1>1, <1>3, <1>10 DEF logFile!ReadTemp, ReaderShape
  <2>2. Good(reader)
    BY <1>1, <1>10, <2>1 DEF logFile!ReadTemp, logFile!files, Reader, ReaderShape, logFile!Holding
  <2> HIDE DEF reader, Good
  <2> QED BY <1>1, <1>2, <1>3, <1>10, <2>2 DEF logFile!ReadTemp, logFile!files
<1>11. CASE logFile!Unlink(r)
  <2> DEFINE reader == [old EXCEPT !.pc = "release", !.file = None]
  <2>1. Good(reader)
    BY <1>1, <1>11 DEF logFile!Unlink, Reader, ReaderShape, logFile!Holding
  <2>2. contents' \in [logFile!Inodes -> Seq(Lines)]
    <3>1. contents' = contents \/ contents' = [contents EXCEPT ![old.file] = << >>]
      BY <1>3, <1>11 DEF logFile!Unlink
    <3>2. old.file \in logFile!Inodes
      BY <1>1, <1>11 DEF logFile!Unlink, ReaderShape
    <3> QED BY <1>3, <3>1, <3>2
  <2> HIDE DEF reader, Good
  <2> QED BY <1>1, <1>2, <1>11, <2>1, <2>2 DEF logFile!Unlink
<1>12. CASE logFile!ReleaseLock(r)
  <2> DEFINE reader == [old EXCEPT !.pc = "print"]
  <2>1. Good(reader)
    BY <1>1, <1>12 DEF logFile!ReleaseLock, logFile!files, Reader, ReaderShape, logFile!Holding
  <2> HIDE DEF reader, Good
  <2> QED BY <1>1, <1>2, <1>3, <1>12, <2>1 DEF logFile!ReleaseLock, logFile!files
<1>13. CASE logFile!PrintLogs(r)
  <2>1. Good(logFile!NoReader)
    BY <1>1, <1>13 DEF logFile!PrintLogs, logFile!files, logFile!Holding
  <2> HIDE DEF Good
  <2> QED BY <1>1, <1>2, <1>3, <1>13, <2>1 DEF logFile!PrintLogs, logFile!files
<1>14. CASE logFile!Kill(r)
  <2>1. Good(logFile!NoReader)
    BY <1>1, <1>14 DEF logFile!Kill, logFile!files, logFile!Holding
  <2> HIDE DEF Good
  <2> QED BY <1>1, <1>2, <1>3, <1>14, <2>1 DEF logFile!Kill, logFile!files
<1> QED
  BY <1>4, <1>5, <1>6, <1>7, <1>8, <1>9, <1>10, <1>11, <1>12, <1>13, <1>14

(* The monitor leaves the readers alone.                                   *)
LEMMA WriterStep ==
  ASSUME logFile!LogFileAssumption, LogShape, Enough, UNCHANGED <<readers, lock>>,
         \/ \E l \in Lines : logFile!AppendOpen(l) \/ logFile!AppendWrite(l)
         \/ logFile!TrimCheck \/ logFile!TrimRead \/ logFile!TrimOpen \/ logFile!TrimWrite
  PROVE  LogShape'
<1>1. /\ log \in logFile!Inodes \cup {None} /\ contents \in [logFile!Inodes -> Seq(Lines)]
      /\ appends \in [Lines -> logFile!Inodes \cup {0, -1}]
      /\ \A r \in Readers : ReaderShape(readers[r]) /\ (readers[r].file # None => readers[r].file # log)
      /\ trim.pc \in {"off", "check", "read", "open", "write"} /\ trim.text \in Seq(Lines)
      /\ trim.file \in logFile!Inodes \cup {None}
      /\ trim = [pc |-> trim.pc, text |-> trim.text, file |-> trim.file]
      /\ TrimShape
  BY DEF LogShape, Locked
<1>2. ASSUME log' \in logFile!Inodes \cup {None}, log' = log \/ log' = logFile!Opening,
             contents' \in [logFile!Inodes -> Seq(Lines)], appends' \in [Lines -> logFile!Inodes \cup {0, -1}],
             trim' \in [pc : {"off", "check", "read", "open", "write"}, text : Seq(Lines), file : logFile!Inodes \cup {None}],
             TrimShape'
      PROVE  LogShape'
  <2>1. Locked'
    <3>1. \A r \in Readers : readers[r].file # None => readers[r].file # log'
      BY <1>1, <1>2, OpeningIs
    <3> QED BY <3>1 DEF LogShape, Locked
  <2> QED BY <1>2, <2>1 DEF LogShape
<1>3. /\ logFile!NoTrim \in [pc : {"off", "check", "read", "open", "write"}, text : Seq(Lines), file : logFile!Inodes \cup {None}]
      /\ logFile!NoTrim.pc = "off" /\ logFile!NoTrim.text = << >> /\ logFile!NoTrim.file = None
  BY InEmpty DEF logFile!NoTrim
<1>4. ASSUME trim' = logFile!NoTrim \/ trim' = [logFile!NoTrim EXCEPT !.pc = "check"] \/ trim' = [logFile!NoTrim EXCEPT !.pc = "read"]
      PROVE  /\ trim' \in [pc : {"off", "check", "read", "open", "write"}, text : Seq(Lines), file : logFile!Inodes \cup {None}]
             /\ TrimShape'
  BY <1>3, <1>4 DEF logFile!NoTrim, TrimShape
<1>5. ASSUME NEW pc \in {"open", "write"}, NEW text \in Seq(Lines), NEW file \in logFile!Inodes,
             trim' = [pc |-> pc, text |-> text, file |-> file]
      PROVE  /\ trim' \in [pc : {"off", "check", "read", "open", "write"}, text : Seq(Lines), file : logFile!Inodes \cup {None}]
             /\ TrimShape'
  BY <1>5 DEF TrimShape
<1>6. ASSUME NEW l \in Lines, logFile!AppendOpen(l) PROVE LogShape'
  <2>1. appends' \in [Lines -> logFile!Inodes \cup {0, -1}] /\ log' \in logFile!Inodes /\ UNCHANGED <<trim, contents>>
    BY <1>1, <1>6, OpeningIs DEF logFile!AppendOpen
  <2>2. TrimShape'
    BY <1>1, <2>1 DEF TrimShape
  <2> QED BY <1>1, <1>2, <1>6, <2>1, <2>2 DEF logFile!AppendOpen, LogShape
<1>7. ASSUME NEW l \in Lines, logFile!AppendWrite(l) PROVE LogShape'
  <2>1. appends' \in [Lines -> logFile!Inodes \cup {0, -1}] /\ UNCHANGED log
    BY <1>1, <1>7 DEF logFile!AppendWrite
  <2>2. contents' \in [logFile!Inodes -> Seq(Lines)]
    <3>1. appends[l] \in logFile!Inodes /\ Append(contents[appends[l]], l) \in Seq(Lines)
      BY <1>1, <1>7, InAppend DEF logFile!AppendWrite
    <3> QED BY <1>1, <1>7, <3>1 DEF logFile!AppendWrite
  <2>3. CASE UNCHANGED trim
    BY <1>1, <1>2, <2>1, <2>2, <2>3 DEF TrimShape, LogShape
  <2>4. CASE trim.pc = "off" /\ trim' = [trim EXCEPT !.pc = "check"]
    <3>1. trim' = [logFile!NoTrim EXCEPT !.pc = "check"]
      BY <1>1, <2>4 DEF TrimShape, logFile!NoTrim
    <3> QED BY <1>1, <1>2, <1>4, <2>1, <2>2, <3>1
  <2> QED BY <1>7, <2>3, <2>4 DEF logFile!AppendWrite
<1>8. CASE logFile!TrimCheck
  <2>1. trim' = logFile!NoTrim \/ trim' = [logFile!NoTrim EXCEPT !.pc = "read"]
    BY <1>1, <1>8 DEF logFile!TrimCheck, TrimShape, logFile!NoTrim
  <2> QED BY <1>1, <1>2, <1>4, <1>8, <2>1 DEF logFile!TrimCheck, logFile!files
<1>9. CASE logFile!TrimRead
  <2>1. CASE log = None
    BY <1>1, <1>2, <1>4, <1>9, <2>1 DEF logFile!TrimRead, logFile!files
  <2>2. CASE log # None
    <3> DEFINE all == contents[log]
               from == IF Len(all) > Keep THEN Len(all) - Keep + 1 ELSE 1
    <3>1. log \in logFile!Inodes /\ all \in Seq(Lines) /\ Len(all) \in Nat /\ from \in 1..Len(all) + 1
      BY <1>1, <2>2 DEF logFile!LogFileAssumption
    <3>2. SubSeq(all, from, Len(all)) \in Seq(Lines)
      BY <3>1, InCut
    <3>3. trim' = [pc |-> "open", text |-> SubSeq(all, from, Len(all)), file |-> log]
      BY <1>9, <2>2 DEF logFile!TrimRead
    <3> HIDE DEF all, from
    <3> QED BY <1>1, <1>2, <1>5, <1>9, <3>1, <3>2, <3>3 DEF logFile!TrimRead, logFile!files
  <2> QED BY <2>1, <2>2
<1>10. CASE logFile!TrimOpen
  <2>1. trim' = [pc |-> "write", text |-> trim.text, file |-> logFile!Opening]
    BY <1>1, <1>10 DEF logFile!TrimOpen
  <2>2. logFile!Opening \in logFile!Inodes /\ log' = logFile!Opening /\ contents' \in [logFile!Inodes -> Seq(Lines)]
    BY <1>1, <1>10, OpeningIs, InEmpty DEF logFile!TrimOpen
  <2> QED BY <1>1, <1>2, <1>5, <1>10, <2>1, <2>2 DEF logFile!TrimOpen
<1>11. CASE logFile!TrimWrite
  <2>1. contents' \in [logFile!Inodes -> Seq(Lines)]
    <3>1. trim.file \in logFile!Inodes /\ contents[trim.file] \in Seq(Lines)
      BY <1>1, <1>11 DEF logFile!TrimWrite, TrimShape
    <3> DEFINE text == trim.text
               there == contents[trim.file]
               all == text \o SubSeq(there, Len(text) + 1, Len(there))
    <3>2. all \in Seq(Lines)
      BY <1>1, <3>1, InOver
    <3>3. contents' = [contents EXCEPT ![trim.file] = all]
      BY <1>11 DEF logFile!TrimWrite
    <3> HIDE DEF all
    <3> QED BY <1>1, <3>2, <3>3
  <2> QED BY <1>1, <1>2, <1>4, <1>11, <2>1 DEF logFile!TrimWrite
<1> QED BY <1>6, <1>7, <1>8, <1>9, <1>10, <1>11

LEMMA ShapeStep ==
  ASSUME logFile!LogFileAssumption, LogShape, Enough, [logFile!Next]_(logFile!vars)
  PROVE  LogShape'
<1>1. CASE UNCHANGED logFile!vars
  BY <1>1 DEF logFile!vars, LogShape, TrimShape, Locked
<1>2. CASE \/ \E l \in Lines : logFile!AppendOpen(l) \/ logFile!AppendWrite(l)
           \/ logFile!TrimCheck \/ logFile!TrimRead \/ logFile!TrimOpen \/ logFile!TrimWrite
  <2>1. UNCHANGED <<readers, lock>>
    BY <1>2 DEF logFile!AppendOpen, logFile!AppendWrite, logFile!TrimCheck, logFile!TrimRead, logFile!TrimOpen, logFile!TrimWrite
  <2> QED BY <1>2, <2>1, WriterStep
<1> QED BY <1>1, <1>2, ReaderStep, Zenon DEF logFile!Next

(* What a step leaves as it is, or lets go, is not counted again.          *)
LEMMA EnoughKept ==
  ASSUME logFile!LogFileAssumption, LogShape, Enough, Used' \subseteq Used, Waiting' \subseteq Waiting,
         UNCHANGED resets, log' = None <=> log = None
  PROVE  Enough'
<1>1. /\ IsFiniteSet(Used) /\ Cardinality(Used) \in Nat
      /\ IsFiniteSet(Waiting) /\ Cardinality(Waiting) \in Nat
  BY UsedFinite
<1> DEFINE used == Used'
           waiting == Waiting'
<1>2. used \subseteq Used /\ waiting \subseteq Waiting
  OBVIOUS
<1> HIDE DEF used, waiting
<1>3. /\ Cardinality(used) \in Nat /\ Cardinality(used) <= Cardinality(Used)
      /\ Cardinality(waiting) \in Nat /\ Cardinality(waiting) <= Cardinality(Waiting)
  BY <1>1, <1>2, FS_Subset, FS_CardinalityType
<1>4. resets \in 0..MaxResets /\ resets \in Nat
  BY DEF Enough, logFile!LogFileAssumption
<1>5. Cardinality(used) + Cardinality(waiting) <= IF log' = None THEN resets ELSE resets + 1
  BY <1>1, <1>3, <1>4 DEF Enough
<1> QED BY <1>4, <1>5 DEF Enough, used, waiting

(* A file is made.                                                         *)
LEMMA EnoughMade ==
  ASSUME logFile!LogFileAssumption, LogShape, Enough, Used' \subseteq Used \cup {logFile!Opening}, Waiting' \subseteq Waiting,
         UNCHANGED resets, log' = logFile!Opening
  PROVE  Enough'
<1>1. CASE log # None
  <2>1. logFile!Opening \in Used /\ log' # None
    BY <1>1, OpeningIs DEF Used
  <2> QED BY <1>1, <2>1, EnoughKept
<1>2. CASE log = None
  <2>1. /\ IsFiniteSet(Used) /\ Cardinality(Used) \in Nat
        /\ IsFiniteSet(Waiting) /\ Cardinality(Waiting) \in Nat
    BY UsedFinite
  <2> DEFINE used == Used'
             waiting == Waiting'
             more == Used \cup {logFile!Opening}
  <2>2. used \subseteq more /\ waiting \subseteq Waiting
    OBVIOUS
  <2>3. IsFiniteSet(more) /\ Cardinality(more) = Cardinality(Used) + 1
    BY <1>2, <2>1, OpeningIs, FS_AddElement
  <2> HIDE DEF used, waiting, more
  <2>4. /\ Cardinality(used) \in Nat /\ Cardinality(used) <= Cardinality(more)
        /\ Cardinality(waiting) \in Nat /\ Cardinality(waiting) <= Cardinality(Waiting)
    BY <2>1, <2>2, <2>3, FS_Subset, FS_CardinalityType
  <2>5. resets \in 0..MaxResets /\ resets \in Nat
    BY DEF Enough, logFile!LogFileAssumption
  <2>6. Cardinality(used) + Cardinality(waiting) <= resets + 1
    BY <1>2, <2>1, <2>3, <2>4, <2>5 DEF Enough
  <2>7. log' # None
    BY OpeningIs
  <2> QED BY <2>5, <2>6, <2>7 DEF Enough, used, waiting
<1> QED BY <1>1, <1>2

LEMMA WriterEnough ==
  ASSUME logFile!LogFileAssumption, LogShape, Enough, UNCHANGED <<readers, resets>>,
         \/ \E l \in Lines : logFile!AppendOpen(l) \/ logFile!AppendWrite(l)
         \/ logFile!TrimCheck \/ logFile!TrimRead \/ logFile!TrimOpen \/ logFile!TrimWrite
  PROVE  Enough'
<1>1. Waiting' = Waiting /\ None \notin logFile!Inodes /\ 0 \notin logFile!Inodes /\ -1 \notin logFile!Inodes
  BY NotInodes DEF Waiting
<1>2. /\ contents \in [logFile!Inodes -> Seq(Lines)] /\ appends \in [Lines -> logFile!Inodes \cup {0, -1}]
      /\ trim \in [pc : {"off", "check", "read", "open", "write"}, text : Seq(Lines), file : logFile!Inodes \cup {None}]
      /\ logFile!NoTrim.file = None
  BY DEF LogShape, logFile!NoTrim
<1>3. ASSUME NEW l \in Lines, logFile!AppendOpen(l) PROVE Enough'
  <2>1. \A m \in Lines : appends'[m] = appends[m] \/ appends'[m] = logFile!Opening
    BY <1>2, <1>3 DEF logFile!AppendOpen
  <2>2. Used' \subseteq Used \cup {logFile!Opening}
    BY <1>3, <2>1 DEF logFile!AppendOpen, Used
  <2> QED BY <1>1, <1>3, <2>2, EnoughMade DEF logFile!AppendOpen
<1>4. ASSUME NEW l \in Lines, logFile!AppendWrite(l) PROVE Enough'
  <2>1. /\ \A m \in Lines : appends'[m] = appends[m] \/ appends'[m] = -1
        /\ \A i \in logFile!Inodes : i # appends[l] => contents'[i] = contents[i]
        /\ trim'.file = trim.file
    BY <1>2, <1>4 DEF logFile!AppendWrite
  <2>2. UNCHANGED <<log, readers>> /\ appends[l] \in logFile!Inodes
    BY <1>2, <1>4 DEF logFile!AppendWrite
  <2>3. appends[l] \in Used
    <3>1. \E m \in Lines : appends[m] = appends[l]
      OBVIOUS
    <3> QED BY <2>2, <3>1, SMT DEF Used
  <2>4. ASSUME NEW i \in logFile!Inodes, i \in Used' PROVE i \in Used
    <3>1. CASE i = appends[l]
      BY <2>3, <3>1
    <3>2. CASE i # appends[l]
      <4>1. \A m \in Lines : appends'[m] = i => appends[m] = i
        BY <1>1, <2>1
      <4> QED BY <2>1, <2>2, <2>4, <3>2, <4>1 DEF Used
    <3> QED BY <3>1, <3>2
  <2>5. Used' \subseteq Used
    <3>1. Used' \subseteq logFile!Inodes
      BY DEF Used
    <3> QED BY <2>4, <3>1
  <2> QED BY <1>1, <1>4, <2>5, EnoughKept DEF logFile!AppendWrite
<1>5. CASE logFile!TrimCheck
  <2>1. trim'.file = trim.file \/ trim'.file = None
    BY <1>2, <1>5 DEF logFile!TrimCheck
  <2>2. Used' \subseteq Used
    BY <1>1, <1>5, <2>1 DEF logFile!TrimCheck, logFile!files, Used
  <2> QED BY <1>1, <1>5, <2>2, EnoughKept DEF logFile!TrimCheck, logFile!files
<1>6. CASE logFile!TrimRead
  <2>1. trim'.file = log \/ trim'.file = None
    BY <1>2, <1>6 DEF logFile!TrimRead
  <2>2. Used' \subseteq Used
    BY <1>1, <1>6, <2>1 DEF logFile!TrimRead, logFile!files, Used
  <2> QED BY <1>1, <1>6, <2>2, EnoughKept DEF logFile!TrimRead, logFile!files
<1>7. CASE logFile!TrimOpen
  <2>1. /\ trim'.file = logFile!Opening
        /\ \A i \in logFile!Inodes : i # logFile!Opening => contents'[i] = contents[i]
    BY <1>2, <1>7 DEF logFile!TrimOpen
  <2>2. Used' \subseteq Used \cup {logFile!Opening}
    BY <1>7, <2>1 DEF logFile!TrimOpen, Used
  <2> QED BY <1>1, <1>7, <2>2, EnoughMade DEF logFile!TrimOpen
<1>8. CASE logFile!TrimWrite
  <2>1. /\ trim'.file = None
        /\ \A i \in logFile!Inodes : i # trim.file => contents'[i] = contents[i]
    BY <1>2, <1>8 DEF logFile!TrimWrite
  <2>2. Used' \subseteq Used
    BY <1>1, <1>8, <2>1 DEF logFile!TrimWrite, Used
  <2> QED BY <1>1, <1>8, <2>2, EnoughKept DEF logFile!TrimWrite
<1> QED BY <1>3, <1>4, <1>5, <1>6, <1>7, <1>8

LEMMA ReaderEnough ==
  ASSUME logFile!LogFileAssumption, LogShape, Enough, NEW r \in Readers,
         \/ logFile!Start(r) \/ logFile!AcquireLock(r) \/ logFile!GiveUp(r) \/ logFile!ReadOnly(r) \/ logFile!Rename(r)
         \/ logFile!CreateEmpty(r) \/ logFile!ReadTemp(r) \/ logFile!Unlink(r) \/ logFile!ReleaseLock(r) \/ logFile!PrintLogs(r) \/ logFile!Kill(r)
  PROVE  Enough'
<1>1. /\ None \notin logFile!Inodes /\ log \in logFile!Inodes \cup {None} /\ contents \in [logFile!Inodes -> Seq(Lines)]
      /\ readers \in [Readers -> Reader] /\ readers[r] \in Reader /\ ReaderShape(readers[r])
      /\ logFile!NoReader.file = None /\ logFile!NoReader.pc = "off" /\ ~logFile!NoReader.reset
      /\ readers[r] = [pc |-> readers[r].pc, file |-> readers[r].file, text |-> readers[r].text, reset |-> readers[r].reset]
  BY NotInodes, ReaderType DEF LogShape, logFile!NoReader, Reader
<1>2. \A q \in Readers : q # r => readers'[q] = readers[q]
  BY <1>1 DEF logFile!Start, logFile!AcquireLock, logFile!GiveUp, logFile!ReadOnly, logFile!Rename, logFile!CreateEmpty, logFile!ReadTemp, logFile!Unlink, logFile!ReleaseLock, logFile!PrintLogs, logFile!Kill
<1> DEFINE waits == readers[r].reset /\ readers[r].pc \in {"start", "locked"}
           waits2 == readers'[r].reset /\ readers'[r].pc \in {"start", "locked"}
<1>3. ASSUME waits2 => waits PROVE Waiting' \subseteq Waiting
  BY <1>2, <1>3 DEF Waiting
<1>4. CASE logFile!Start(r)
  <2>1. PICK reset \in BOOLEAN :
          /\ reset => resets < MaxResets
          /\ resets' = IF reset THEN resets + 1 ELSE resets
          /\ readers' = [readers EXCEPT ![r] = [logFile!NoReader EXCEPT !.pc = "start", !.reset = reset]]
    BY <1>4 DEF logFile!Start
  <2>2. readers'[r].file = None /\ readers'[r].reset = reset /\ readers'[r].pc = "start"
    BY <1>1, <2>1 DEF logFile!NoReader
  <2>3. Used' \subseteq Used
    <3>1. UNCHANGED <<log, contents, appends, trim>>
      BY <1>4 DEF logFile!Start, logFile!files
    <3> QED BY <1>1, <1>2, <2>2, <3>1 DEF Used
  <2>4. CASE ~reset
    <3>1. Waiting' \subseteq Waiting
      BY <1>3, <2>2, <2>4
    <3> QED BY <1>4, <2>1, <2>3, <2>4, <3>1, EnoughKept DEF logFile!Start, logFile!files
  <2>5. CASE reset
    <3> DEFINE used == Used'
               waiting == Waiting'
               more == Waiting \cup {r}
    <3>1. /\ IsFiniteSet(Used) /\ Cardinality(Used) \in Nat
          /\ IsFiniteSet(Waiting) /\ Cardinality(Waiting) \in Nat
      BY UsedFinite
    <3>2. r \notin Waiting /\ waiting \subseteq more /\ used \subseteq Used
      BY <1>2, <1>4, <2>3 DEF logFile!Start, Waiting
    <3>3. IsFiniteSet(more) /\ Cardinality(more) = Cardinality(Waiting) + 1
      BY <3>1, <3>2, FS_AddElement
    <3> HIDE DEF used, waiting, more
    <3>4. /\ Cardinality(used) \in Nat /\ Cardinality(used) <= Cardinality(Used)
          /\ Cardinality(waiting) \in Nat /\ Cardinality(waiting) <= Cardinality(more)
      BY <3>1, <3>2, <3>3, FS_Subset, FS_CardinalityType
    <3>5. resets \in Nat /\ resets' = resets + 1 /\ resets' \in 0..MaxResets /\ log' = log
      <4>1. resets \in 0..MaxResets /\ MaxResets \in Nat
        BY DEF Enough, logFile!LogFileAssumption
      <4>2. resets < MaxResets /\ resets' = resets + 1
        BY <2>1, <2>5
      <4>3. log' = log
        BY <1>4 DEF logFile!Start, logFile!files
      <4> QED BY <4>1, <4>2, <4>3
    <3>6. Cardinality(Used) + Cardinality(Waiting) <= IF log = None THEN resets ELSE resets + 1
      BY DEF Enough
    <3>7. Cardinality(used) + Cardinality(waiting) <= IF log' = None THEN resets' ELSE resets' + 1
      BY <3>1, <3>3, <3>4, <3>5, <3>6
    <3> QED BY <3>5, <3>7 DEF Enough, used, waiting
  <2> QED BY <2>4, <2>5
<1>5. CASE logFile!AcquireLock(r)
  <2>1. readers'[r].file = readers[r].file /\ readers'[r].reset = readers[r].reset
    BY <1>1, <1>5 DEF logFile!AcquireLock
  <2>2. Used' \subseteq Used
    BY <1>1, <1>2, <1>5, <2>1 DEF logFile!AcquireLock, logFile!files, Used
  <2>3. Waiting' \subseteq Waiting
    BY <1>3, <1>5, <2>1 DEF logFile!AcquireLock
  <2> QED BY <1>5, <2>2, <2>3, EnoughKept DEF logFile!AcquireLock, logFile!files, logFile!counts
<1>6. CASE logFile!GiveUp(r) \/ logFile!PrintLogs(r) \/ logFile!Kill(r)
  <2>1. readers'[r] = logFile!NoReader /\ UNCHANGED <<log, contents, appends, trim, resets>>
    BY <1>1, <1>6 DEF logFile!GiveUp, logFile!PrintLogs, logFile!Kill, logFile!files, logFile!counts
  <2>2. Used' \subseteq Used
    BY <1>1, <1>2, <2>1 DEF Used
  <2>3. Waiting' \subseteq Waiting
    BY <1>1, <1>3, <2>1
  <2> QED BY <2>1, <2>2, <2>3, EnoughKept
<1>7. CASE logFile!ReadOnly(r) \/ logFile!ReadTemp(r) \/ logFile!ReleaseLock(r)
  <2>1. /\ readers'[r].file = readers[r].file /\ UNCHANGED <<log, contents, appends, trim, resets>>
        /\ readers'[r].pc \notin {"start", "locked"}
    BY <1>1, <1>7 DEF logFile!ReadOnly, logFile!ReadTemp, logFile!ReleaseLock, logFile!files, logFile!counts
  <2>2. Used' \subseteq Used
    BY <1>1, <1>2, <2>1 DEF Used
  <2>3. Waiting' \subseteq Waiting
    BY <1>3, <2>1
  <2> QED BY <2>1, <2>2, <2>3, EnoughKept
<1>8. CASE logFile!Unlink(r)
  <2>1. /\ readers'[r].file = None /\ readers'[r].pc = "release"
        /\ UNCHANGED <<log, appends, trim, resets>>
        /\ \A i \in logFile!Inodes : contents'[i] = contents[i] \/ contents'[i] = << >>
    BY <1>1, <1>8 DEF logFile!Unlink, logFile!counts
  <2>2. Used' \subseteq Used
    BY <1>1, <1>2, <2>1 DEF Used
  <2>3. Waiting' \subseteq Waiting
    BY <1>3, <2>1
  <2> QED BY <2>1, <2>2, <2>3, EnoughKept
<1>9. CASE logFile!CreateEmpty(r)
  <2>1. /\ readers'[r].file = readers[r].file /\ readers'[r].pc = "read" /\ log' = logFile!Opening
        /\ UNCHANGED <<appends, trim, resets>>
        /\ \A i \in logFile!Inodes : contents'[i] = contents[i] \/ contents'[i] = << >>
    BY <1>1, <1>9 DEF logFile!CreateEmpty, logFile!counts
  <2>2. Used' \subseteq Used \cup {logFile!Opening}
    BY <1>2, <2>1 DEF Used
  <2>3. Waiting' \subseteq Waiting
    BY <1>3, <2>1
  <2> QED BY <2>1, <2>2, <2>3, EnoughMade
<1>10. CASE logFile!Rename(r)
  <2>1. /\ readers'[r].file = log /\ readers'[r].pc \in {"release", "create"} /\ log' = None
        /\ UNCHANGED <<contents, appends, trim, resets>>
    BY <1>1, <1>10 DEF logFile!Rename, logFile!counts
  <2>2. Used' \subseteq Used
    BY <1>1, <1>2, <2>1 DEF Used
  <2>3. r \in Waiting /\ Waiting' \subseteq Waiting \ {r}
    BY <1>2, <1>10, <2>1 DEF logFile!Rename, Waiting
  <2>4. CASE log = None
    BY <2>1, <2>2, <2>3, <2>4, EnoughKept
  <2>5. CASE log # None
    <3> DEFINE used == Used'
               waiting == Waiting'
               less == Waiting \ {r}
    <3>1. /\ IsFiniteSet(Used) /\ Cardinality(Used) \in Nat
          /\ IsFiniteSet(Waiting) /\ Cardinality(Waiting) \in Nat
      BY UsedFinite
    <3>2. waiting \subseteq less /\ used \subseteq Used
      BY <2>2, <2>3
    <3>3. IsFiniteSet(less) /\ Cardinality(less) = Cardinality(Waiting) - 1
      BY <2>3, <3>1, FS_RemoveElement
    <3> HIDE DEF used, waiting, less
    <3>4. /\ Cardinality(used) \in Nat /\ Cardinality(used) <= Cardinality(Used)
          /\ Cardinality(waiting) \in Nat /\ Cardinality(waiting) <= Cardinality(less)
      BY <3>1, <3>2, <3>3, FS_Subset, FS_CardinalityType
    <3>5. resets \in Nat /\ resets' = resets /\ resets' \in 0..MaxResets
      BY <2>1 DEF Enough, logFile!LogFileAssumption
    <3>6. Cardinality(Used) + Cardinality(Waiting) <= resets + 1
      BY <2>5 DEF Enough
    <3>7. Cardinality(used) + Cardinality(waiting) <= resets'
      BY <3>1, <3>3, <3>4, <3>5, <3>6
    <3> QED BY <2>1, <3>5, <3>7 DEF Enough, used, waiting
  <2> QED BY <2>4, <2>5
<1> QED BY <1>4, <1>5, <1>6, <1>7, <1>8, <1>9, <1>10

LEMMA EnoughStep ==
  ASSUME logFile!LogFileAssumption, LogShape, Enough, [logFile!Next]_(logFile!vars)
  PROVE  Enough'
<1>1. CASE UNCHANGED logFile!vars
  <2>1. Used' = Used /\ Waiting' = Waiting
    BY <1>1 DEF logFile!vars, Used, Waiting
  <2> QED BY <1>1, <2>1, EnoughKept DEF logFile!vars
<1>2. CASE \/ \E l \in Lines : logFile!AppendOpen(l) \/ logFile!AppendWrite(l)
           \/ logFile!TrimCheck \/ logFile!TrimRead \/ logFile!TrimOpen \/ logFile!TrimWrite
  <2>1. UNCHANGED <<readers, resets>>
    BY <1>2 DEF logFile!AppendOpen, logFile!AppendWrite, logFile!TrimCheck, logFile!TrimRead, logFile!TrimOpen, logFile!TrimWrite, logFile!counts
  <2> QED BY <1>2, <2>1, WriterEnough
<1> QED BY <1>1, <1>2, ReaderEnough, Zenon DEF logFile!Next

LEMMA SafeStays ==
  ASSUME delivered \subseteq delivered', exposed \subseteq exposed',
         \A q \in Readers : Held(q) \subseteq Held(q)' \cup delivered' \cup exposed'
  PROVE  \A l : Safe(l) => Safe(l)'
BY DEF Safe

(* The log, its lines, and what is safe stay; a trim may begin or be       *)
(* over, but writes nothing.                                               *)
LEMMA KeptStill ==
  ASSUME KeptInv, UNCHANGED <<log, contents, appends>>,
         UNCHANGED trim \/ {trim.pc, trim'.pc} \subseteq {"off", "check", "read"},
         delivered \subseteq delivered', exposed \subseteq exposed',
         \A q \in Readers : Held(q) \subseteq Held(q)' \cup delivered' \cup exposed',
         \A q \in Readers : readers'[q].pc = "create" => readers[q].pc = "create",
         \A q \in Readers : readers'[q].pc = "unlink" =>
           logFile!In(contents[readers'[q].file]) \subseteq logFile!In(readers'[q].text) \cup exposed
  PROVE  KeptInv'
<1>1. \A l : Safe(l) => Safe(l)'
  BY SafeStays
<1>2. There' = There /\ Trimmed' = Trimmed
  BY DEF There, Trimmed
<1>3. trim'.pc \in {"open", "write"} => UNCHANGED trim
  OBVIOUS
<1>4. (\E q \in Readers : readers'[q].pc = "create") =>
        \A l \in There \cup (IF trim'.file = log THEN Trimmed ELSE {}) : Safe(l)'
  <2>1. Trimmed # {} => UNCHANGED trim
    BY DEF Trimmed
  <2> QED BY <1>1, <2>1 DEF KeptInv
<1>5. \A l \in Lines : appends'[l] = -1 => l \in There \cup Trimmed \/ Safe(l)'
  BY <1>1 DEF KeptInv
<1>6. trim'.pc = "open" =>
        /\ \A l \in logFile!In(trim'.text) : (trim'.file = log /\ l \in There) \/ Safe(l)'
        /\ trim'.file = log => There \subseteq logFile!In(trim'.text) \cup exposed'
  BY <1>1, <1>3 DEF KeptInv
<1>7. trim'.pc = "write" => logFile!In(contents[trim'.file]) \subseteq exposed'
  BY <1>3 DEF KeptInv
<1> QED BY <1>2, <1>4, <1>5, <1>6, <1>7 DEF KeptInv

LEMMA ReaderKept ==
  ASSUME logFile!LogFileAssumption, LogShape, Enough, KeptInv, NEW r \in Readers,
         \/ logFile!Start(r) \/ logFile!AcquireLock(r) \/ logFile!GiveUp(r) \/ logFile!ReadOnly(r) \/ logFile!Rename(r)
         \/ logFile!CreateEmpty(r) \/ logFile!ReadTemp(r) \/ logFile!Unlink(r) \/ logFile!ReleaseLock(r) \/ logFile!PrintLogs(r) \/ logFile!Kill(r)
  PROVE  KeptInv'
<1>1. /\ None \notin logFile!Inodes /\ log \in logFile!Inodes \cup {None} /\ contents \in [logFile!Inodes -> Seq(Lines)]
      /\ readers \in [Readers -> Reader] /\ readers[r] \in Reader /\ ReaderShape(readers[r])
      /\ logFile!NoReader.file = None /\ logFile!NoReader.pc = "off" /\ ~logFile!NoReader.reset
      /\ readers[r] = [pc |-> readers[r].pc, file |-> readers[r].file, text |-> readers[r].text, reset |-> readers[r].reset]
      /\ TrimShape
  BY NotInodes, ReaderType DEF LogShape, logFile!NoReader, Reader
<1>2. \A q \in Readers : q # r => readers'[q] = readers[q]
  BY <1>1 DEF logFile!Start, logFile!AcquireLock, logFile!GiveUp, logFile!ReadOnly, logFile!Rename, logFile!CreateEmpty, logFile!ReadTemp, logFile!Unlink, logFile!ReleaseLock, logFile!PrintLogs, logFile!Kill
<1>3. /\ \A q \in Readers : readers[q].file # None => readers[q].pc \in logFile!Holding /\ readers[q].file # log
      /\ \A q \in Readers : readers[q].pc \in logFile!Holding /\ readers[r].pc \in logFile!Holding => q = r
      /\ \A q \in Readers : readers[q].file \in logFile!Inodes \cup {None}
  <2>1. ASSUME NEW q \in Readers, readers[q].file # None PROVE readers[q].pc \in logFile!Holding
    BY <2>1, ReaderType DEF Reader, ReaderShape, logFile!Holding
  <2> QED BY <2>1, ReaderType DEF LogShape, Locked
<1>4. logFile!In(<< >>) = {}
  BY InEmpty
<1>5. CASE logFile!Start(r) \/ logFile!GiveUp(r)
  <2>1. /\ UNCHANGED <<log, contents, appends, trim, delivered, exposed>>
        /\ Held(r) = {} /\ readers'[r].pc \in {"off", "start"}
    BY <1>1, <1>4, <1>5 DEF logFile!Start, logFile!GiveUp, logFile!files, logFile!history, ReaderShape, logFile!NoReader, Held
  <2>2. \A q \in Readers : Held(q) \subseteq Held(q)'
    BY <1>2, <2>1 DEF Held
  <2>3. \A q \in Readers : readers'[q].pc \in {"create", "unlink"} => q # r /\ readers'[q] = readers[q]
    BY <1>2, <2>1
  <2>4. \A q \in Readers : readers'[q].pc = "unlink" =>
          logFile!In(contents[readers'[q].file]) \subseteq logFile!In(readers'[q].text) \cup exposed
    BY <2>3 DEF KeptInv
  <2> QED BY <2>1, <2>2, <2>3, <2>4, KeptStill
<1>6. CASE logFile!AcquireLock(r) \/ logFile!ReadOnly(r) \/ logFile!ReleaseLock(r)
  <2>1. /\ UNCHANGED <<log, contents, appends, trim, delivered, exposed>>
        /\ readers'[r].reset = readers[r].reset /\ readers'[r].file = readers[r].file
        /\ readers'[r].text = readers[r].text \/ ~readers[r].reset
        /\ readers'[r].pc \notin {"create", "unlink"}
    BY <1>1, <1>6 DEF logFile!AcquireLock, logFile!ReadOnly, logFile!ReleaseLock, logFile!files, logFile!history
  <2>2. \A q \in Readers : Held(q) \subseteq Held(q)'
    BY <1>2, <2>1 DEF Held
  <2>3. \A q \in Readers : readers'[q].pc \in {"create", "unlink"} => q # r /\ readers'[q] = readers[q]
    BY <1>2, <2>1
  <2>4. \A q \in Readers : readers'[q].pc = "unlink" =>
          logFile!In(contents[readers'[q].file]) \subseteq logFile!In(readers'[q].text) \cup exposed
    BY <2>3 DEF KeptInv
  <2> QED BY <2>1, <2>2, <2>3, <2>4, KeptStill
<1>7. CASE logFile!ReadTemp(r)
  <2>1. /\ UNCHANGED <<log, contents, appends, trim, delivered, exposed>>
        /\ readers'[r].reset = readers[r].reset /\ readers'[r].file = readers[r].file
        /\ readers[r].text = << >> /\ readers'[r].text = contents[readers'[r].file]
        /\ readers'[r].pc = "unlink"
    BY <1>1, <1>7 DEF logFile!ReadTemp, logFile!files, logFile!history, ReaderShape
  <2>2. \A q \in Readers : Held(q) \subseteq Held(q)'
    BY <1>2, <1>4, <2>1 DEF Held
  <2>3. \A q \in Readers : readers'[q].pc = "create" => readers[q].pc = "create"
    BY <1>2, <2>1
  <2>4. \A q \in Readers : readers'[q].pc = "unlink" =>
          logFile!In(contents[readers'[q].file]) \subseteq logFile!In(readers'[q].text) \cup exposed
    BY <1>2, <2>1 DEF KeptInv
  <2> QED BY <2>1, <2>2, <2>3, <2>4, KeptStill
<1>8. CASE logFile!PrintLogs(r)
  <2>1. /\ UNCHANGED <<log, contents, appends, trim, exposed>>
        /\ Held(r) \subseteq delivered' /\ delivered \subseteq delivered' /\ readers'[r].pc = "off"
    BY <1>1, <1>8 DEF logFile!PrintLogs, logFile!files, ReaderShape, Held
  <2>2. \A q \in Readers : Held(q) \subseteq Held(q)' \cup delivered'
    BY <1>2, <2>1 DEF Held
  <2>3. \A q \in Readers : readers'[q].pc \in {"create", "unlink"} => q # r /\ readers'[q] = readers[q]
    BY <1>2, <2>1
  <2>4. \A q \in Readers : readers'[q].pc = "unlink" =>
          logFile!In(contents[readers'[q].file]) \subseteq logFile!In(readers'[q].text) \cup exposed
    BY <2>3 DEF KeptInv
  <2> QED BY <2>1, <2>2, <2>3, <2>4, KeptStill
<1>9. CASE logFile!Kill(r)
  <2>1. /\ UNCHANGED <<log, contents, appends, trim, delivered>>
        /\ Held(r) \subseteq exposed' /\ exposed \subseteq exposed' /\ readers'[r].pc = "off"
    BY <1>1, <1>9 DEF logFile!Kill, logFile!files, Held
  <2>2. \A q \in Readers : Held(q) \subseteq Held(q)' \cup exposed'
    BY <1>2, <2>1 DEF Held
  <2>3. \A q \in Readers : readers'[q].pc \in {"create", "unlink"} => q # r /\ readers'[q] = readers[q]
    BY <1>2, <2>1
  <2>4. \A q \in Readers : readers'[q].pc = "unlink" =>
          logFile!In(contents[readers'[q].file]) \subseteq logFile!In(readers'[q].text) \cup exposed
    BY <2>3 DEF KeptInv
  <2> QED BY <2>1, <2>2, <2>3, <2>4, KeptStill
<1>10. CASE logFile!Rename(r)
  <2>1. /\ UNCHANGED <<contents, appends, trim, delivered, exposed>> /\ log' = None
        /\ readers[r].reset /\ readers'[r].reset /\ readers'[r].file = log /\ readers[r].file = None
        /\ readers'[r].text = readers[r].text /\ readers[r].text = << >>
        /\ readers'[r].pc \in {"create", "release"}
    BY <1>1, <1>10 DEF logFile!Rename, logFile!history, ReaderShape
  <2>2. Held(r) = {} /\ There \subseteq Held(r)'
    BY <1>4, <2>1 DEF Held, There
  <2>3. \A l : Safe(l) => Safe(l)'
    <3>1. \A q \in Readers : Held(q) \subseteq Held(q)'
      BY <1>2, <2>1, <2>2 DEF Held
    <3> QED BY <2>1, <3>1, SafeStays
  <2>4. \A l \in There : Safe(l)'
    BY <2>2 DEF Safe
  <2>5. There' = {} /\ Trimmed' = Trimmed /\ (trim.file = log' => Trimmed' = {} /\ trim.pc # "open")
    BY <1>1, <2>1 DEF There, Trimmed, TrimShape
  <2>6. \A q \in Readers : readers'[q].pc = "unlink" => q # r /\ readers'[q] = readers[q]
    BY <1>2, <2>1
  <2> QED BY <2>1, <2>3, <2>4, <2>5, <2>6 DEF KeptInv
<1>11. CASE logFile!CreateEmpty(r)
  <2>1. /\ UNCHANGED <<appends, trim, delivered>> /\ log' = logFile!Opening /\ exposed \subseteq exposed'
        /\ contents' = [contents EXCEPT ![logFile!Opening] = << >>]
        /\ readers[r].pc = "create" /\ readers'[r].pc = "read"
        /\ readers'[r].reset = readers[r].reset /\ readers'[r].file = readers[r].file
        /\ readers'[r].text = readers[r].text
    BY <1>1, <1>11 DEF logFile!CreateEmpty
  <2>2. /\ logFile!Opening \in logFile!Inodes /\ logFile!Opening # None /\ \A q \in Readers : readers[q].file # logFile!Opening
        /\ contents'[logFile!Opening] = << >> /\ \A i \in logFile!Inodes : i # logFile!Opening => contents'[i] = contents[i]
    BY <1>1, <2>1, OpeningIs
  <2>3. \A l : Safe(l) => Safe(l)'
    <3>1. \A q \in Readers : Held(q) \subseteq Held(q)'
      BY <1>2, <1>3, <2>1, <2>2 DEF Held
    <3> QED BY <2>1, <3>1, SafeStays
  <2>4. There' = {} /\ Trimmed' = Trimmed
    BY <1>4, <2>1, <2>2 DEF There, Trimmed
  <2>5. \A q \in Readers : readers'[q].pc # "create"
    BY <1>2, <1>3, <2>1 DEF logFile!Holding
  <2>6. \A l \in There : Safe(l)
    BY <2>1 DEF KeptInv
  <2>7. \A q \in Readers : readers'[q].pc # "unlink"
    BY <1>2, <1>3, <2>1 DEF logFile!Holding
  <2>8. trim.pc = "write" => logFile!In(contents'[trim.file]) \subseteq exposed'
    BY <1>1, <1>4, <2>1, <2>2 DEF KeptInv, TrimShape
  <2> QED BY <2>1, <2>3, <2>4, <2>5, <2>6, <2>7, <2>8 DEF KeptInv
<1>12. CASE logFile!Unlink(r)
  <2>1. /\ UNCHANGED <<log, appends, trim, delivered, exposed>>
        /\ readers[r].pc = "unlink" /\ readers'[r].pc = "release"
        /\ readers[r].reset /\ readers'[r].reset /\ readers'[r].text = readers[r].text
        /\ readers[r].file \in logFile!Inodes /\ readers[r].file # log
        /\ contents' = contents \/ contents' = [contents EXCEPT ![readers[r].file] = << >>]
    BY <1>1, <1>3, <1>12 DEF logFile!Unlink, logFile!history, ReaderShape
  <2>2. \A i \in logFile!Inodes : contents'[i] = contents[i] \/ (contents'[i] = << >> /\ i = readers[r].file)
    BY <1>1, <2>1
  <2>3. Held(r) \subseteq Held(r)' \cup exposed
    BY <1>1, <2>1 DEF KeptInv, Held
  <2>4. \A q \in Readers : q # r => readers[q].pc \notin logFile!Holding /\ readers[q].file = None
    BY <1>3, <2>1 DEF logFile!Holding
  <2>5. \A l : Safe(l) => Safe(l)'
    <3>1. \A q \in Readers : Held(q) \subseteq Held(q)' \cup exposed
      BY <1>2, <2>3, <2>4 DEF Held
    <3> QED BY <2>1, <3>1, SafeStays
  <2>6. There' = There /\ Trimmed' = Trimmed
    BY <1>1, <2>1, <2>2 DEF There, Trimmed
  <2>7. \A q \in Readers : readers'[q].pc \notin {"create", "unlink"}
    BY <1>2, <2>1, <2>4 DEF logFile!Holding
  <2>8. trim.pc = "write" => logFile!In(contents'[trim.file]) \subseteq exposed'
    BY <1>1, <1>4, <2>1, <2>2 DEF KeptInv, TrimShape
  <2> QED BY <2>1, <2>5, <2>6, <2>7, <2>8 DEF KeptInv
<1> QED BY <1>5, <1>6, <1>7, <1>8, <1>9, <1>10, <1>11, <1>12

LEMMA WriterKept ==
  ASSUME logFile!LogFileAssumption, LogShape, Enough, KeptInv, UNCHANGED <<readers, delivered>>,
         \/ \E l \in Lines : logFile!AppendOpen(l) \/ logFile!AppendWrite(l)
         \/ logFile!TrimCheck \/ logFile!TrimRead \/ logFile!TrimOpen \/ logFile!TrimWrite
  PROVE  KeptInv'
<1>1. /\ None \notin logFile!Inodes /\ log \in logFile!Inodes \cup {None} /\ contents \in [logFile!Inodes -> Seq(Lines)]
      /\ trim \in [pc : {"off", "check", "read", "open", "write"}, text : Seq(Lines), file : logFile!Inodes \cup {None}]
      /\ trim = [pc |-> trim.pc, text |-> trim.text, file |-> trim.file] /\ TrimShape
      /\ appends \in [Lines -> logFile!Inodes \cup {0, -1}]
      /\ -1 \notin logFile!Inodes
  BY NotInodes DEF LogShape
<1>2. /\ \A q \in Readers : readers[q].file # None => readers[q].file # log
      /\ \A q \in Readers : readers[q].file \in logFile!Inodes \cup {None}
      /\ \A q \in Readers : readers[q].pc = "unlink" => readers[q].file \in logFile!Inodes
  BY ReaderType DEF LogShape, Locked, ReaderShape
<1>3. logFile!In(<< >>) = {}
  BY InEmpty
<1>4. ASSUME NEW l \in Lines, logFile!AppendOpen(l) PROVE KeptInv'
  <2>1. /\ log' = logFile!Opening /\ UNCHANGED <<contents, trim, exposed, delivered>>
        /\ \A m \in Lines : appends'[m] = -1 => appends[m] = -1
    BY <1>1, <1>4, OpeningIs DEF logFile!AppendOpen, logFile!history
  <2>2. \A q \in Readers : Held(q)' = Held(q)
    BY <2>1 DEF Held
  <2>3. \A m : Safe(m) => Safe(m)'
    BY <2>1, <2>2, SafeStays
  <2>4. There' = There /\ Trimmed' = Trimmed
    BY <1>3, <2>1, OpeningIs DEF There, Trimmed
  <2>5. trim.pc \in {"open", "write"} => (trim'.file = log' <=> trim.file = log)
    BY <1>1, <2>1, OpeningIs DEF TrimShape
  <2>6. Trimmed # {} => trim.pc = "write"
    BY DEF Trimmed
  <2> QED BY <2>1, <2>3, <2>4, <2>5, <2>6 DEF KeptInv
<1>5. ASSUME NEW l \in Lines, logFile!AppendWrite(l) PROVE KeptInv'
  <2> DEFINE i == appends[l]
  <2>1. /\ UNCHANGED <<log, delivered>> /\ exposed \subseteq exposed' /\ i \in logFile!Inodes
        /\ contents' = [contents EXCEPT ![i] = Append(@, l)]
        /\ \A m \in Lines : appends'[m] = -1 => appends[m] = -1 \/ m = l
        /\ UNCHANGED trim \/ (trim.pc = "off" /\ trim' = [trim EXCEPT !.pc = "check"])
    BY <1>1, <1>5 DEF logFile!AppendWrite
  <2>2. \/ l \in exposed'
        \/ i = log /\ trim.pc \notin {"open", "write"} /\ \A r \in Readers : readers[r].pc # "create"
    BY <1>5 DEF logFile!AppendWrite
  <2>3. /\ logFile!In(contents'[i]) = logFile!In(contents[i]) \cup {l}
        /\ \A j \in logFile!Inodes : j # i => contents'[j] = contents[j]
    <3>1. contents'[i] = Append(contents[i], l) /\ contents[i] \in Seq(Lines)
      BY <1>1, <2>1
    <3> QED BY <1>1, <2>1, <3>1, InAppend
  <2> HIDE DEF i
  <2>4. \A j \in logFile!Inodes : logFile!In(contents[j]) \subseteq logFile!In(contents'[j]) /\ logFile!In(contents'[j]) \subseteq logFile!In(contents[j]) \cup {l}
    BY <2>3
  <2>5. \A m : Safe(m) => Safe(m)'
    <3>1. \A q \in Readers : Held(q) \subseteq Held(q)'
      BY <1>2, <2>4 DEF Held
    <3> QED BY <2>1, <3>1, SafeStays
  <2>6. There \subseteq There' /\ There' \subseteq There \cup {l} /\ (i = log => l \in There')
    BY <1>1, <2>1, <2>3, <2>4 DEF There
  <2>7. Trimmed' = Trimmed
    BY <1>1, <2>1 DEF Trimmed
  <2>8. trim'.file = trim.file /\ trim'.text = trim.text
        /\ (trim'.pc \in {"open", "write"} => trim'.pc = trim.pc)
    BY <1>1, <2>1
  <2>9. l \in exposed' => Safe(l)'
    BY DEF Safe
  <2>10. \A m \in Lines : appends'[m] = -1 => m \in There' \cup Trimmed' \/ Safe(m)'
    BY <2>1, <2>2, <2>5, <2>6, <2>7, <2>9 DEF KeptInv
  <2>11. (\E r \in Readers : readers'[r].pc = "create") =>
           \A m \in There' \cup (IF trim'.file = log' THEN Trimmed' ELSE {}) : Safe(m)'
    BY <2>1, <2>2, <2>5, <2>6, <2>7, <2>8, <2>9 DEF KeptInv
  <2>12. trim'.pc = "open" =>
           /\ \A m \in logFile!In(trim'.text) : (trim'.file = log' /\ m \in There') \/ Safe(m)'
           /\ trim'.file = log' => There' \subseteq logFile!In(trim'.text) \cup exposed'
    BY <2>1, <2>2, <2>5, <2>6, <2>8 DEF KeptInv
  <2>13. trim'.pc = "write" => logFile!In(contents'[trim'.file]) \subseteq exposed'
    BY <1>1, <2>1, <2>2, <2>4, <2>8 DEF KeptInv, TrimShape
  <2>14. \A r \in Readers : readers'[r].pc = "unlink" =>
           logFile!In(contents'[readers'[r].file]) \subseteq logFile!In(readers'[r].text) \cup exposed'
    <3>1. ASSUME NEW r \in Readers, readers[r].pc = "unlink"
          PROVE  logFile!In(contents'[readers[r].file]) \subseteq logFile!In(readers[r].text) \cup exposed'
      <4>1. readers[r].file \in logFile!Inodes /\ readers[r].file # log /\ readers[r].file # None
        BY <1>1, <1>2, <3>1
      <4>2. logFile!In(contents[readers[r].file]) \subseteq logFile!In(readers[r].text) \cup exposed
        BY <3>1 DEF KeptInv
      <4>3. CASE readers[r].file = i
        BY <2>1, <2>2, <2>4, <4>1, <4>2, <4>3
      <4>4. CASE readers[r].file # i
        BY <2>1, <2>3, <4>1, <4>2, <4>4
      <4> QED BY <4>3, <4>4
    <3> QED BY <3>1
  <2> QED BY <2>10, <2>11, <2>12, <2>13, <2>14 DEF KeptInv
<1>6. CASE logFile!TrimCheck
  <2>1. /\ UNCHANGED <<log, contents, appends, delivered, exposed>>
        /\ {trim.pc, trim'.pc} \subseteq {"off", "check", "read"}
    BY <1>1, <1>6 DEF logFile!TrimCheck, logFile!files, logFile!history, logFile!NoTrim
  <2>2. \A q \in Readers : Held(q)' = Held(q)
    BY <2>1 DEF Held
  <2>3. \A q \in Readers : readers'[q].pc = "unlink" =>
          logFile!In(contents[readers'[q].file]) \subseteq logFile!In(readers'[q].text) \cup exposed
    BY DEF KeptInv
  <2> QED BY <2>1, <2>2, <2>3, KeptStill
<1>7. CASE logFile!TrimRead
  <2>1. UNCHANGED <<log, contents, appends, delivered>> /\ trim.pc = "read"
    BY <1>7 DEF logFile!TrimRead, logFile!files
  <2>2. \A q \in Readers : Held(q)' = Held(q)
    BY <2>1 DEF Held
  <2>3. CASE log = None
    <3>1. UNCHANGED exposed /\ {trim.pc, trim'.pc} \subseteq {"off", "check", "read"}
      BY <1>7, <2>3 DEF logFile!TrimRead, logFile!NoTrim
    <3>2. \A q \in Readers : readers'[q].pc = "unlink" =>
            logFile!In(contents[readers'[q].file]) \subseteq logFile!In(readers'[q].text) \cup exposed
      BY DEF KeptInv
    <3> QED BY <2>1, <2>2, <3>1, <3>2, KeptStill
  <2>4. CASE log # None
    <3> DEFINE all == contents[log]
               from == IF Len(all) > Keep THEN Len(all) - Keep + 1 ELSE 1
               tail == SubSeq(all, from, Len(all))
               head == SubSeq(all, 1, from - 1)
    <3>1. log \in logFile!Inodes /\ all \in Seq(Lines) /\ Len(all) \in Nat /\ from \in 1..Len(all) + 1
      BY <1>1, <2>4 DEF logFile!LogFileAssumption
    <3>2. logFile!In(tail) \subseteq logFile!In(all) /\ logFile!In(all) \subseteq logFile!In(tail) \cup logFile!In(head)
      BY <3>1, InCut
    <3>3. trim' = [pc |-> "open", text |-> tail, file |-> log] /\ exposed' = exposed \cup logFile!In(head)
      BY <1>7, <2>4 DEF logFile!TrimRead
    <3>4. There' = There /\ There = logFile!In(all) /\ Trimmed' = {} /\ Trimmed = {}
      BY <2>1, <2>4, <3>3 DEF There, Trimmed
    <3> HIDE DEF all, tail, head
    <3>5. \A l : Safe(l) => Safe(l)'
      BY <2>1, <2>2, <3>3, SafeStays
    <3>6. trim'.pc = "open" /\ trim'.text = tail /\ trim'.file = log
      BY <3>3
    <3> QED BY <2>1, <3>2, <3>3, <3>4, <3>5, <3>6 DEF KeptInv
  <2> QED BY <2>3, <2>4
<1>8. CASE logFile!TrimOpen
  <2>1. /\ trim.pc = "open" /\ log' = logFile!Opening /\ contents' = [contents EXCEPT ![logFile!Opening] = << >>]
        /\ trim'.pc = "write" /\ trim'.text = trim.text /\ trim'.file = logFile!Opening
        /\ UNCHANGED <<appends, delivered>> /\ exposed \subseteq exposed'
        /\ log # None /\ log # trim.file => logFile!In(contents[log]) \subseteq exposed'
    BY <1>1, <1>8 DEF logFile!TrimOpen
  <2>2. /\ logFile!Opening \in logFile!Inodes /\ logFile!Opening # None /\ \A q \in Readers : readers[q].file # logFile!Opening
        /\ contents'[logFile!Opening] = << >> /\ \A i \in logFile!Inodes : i # logFile!Opening => contents'[i] = contents[i]
    BY <1>1, <2>1, OpeningIs
  <2>3. \A l : Safe(l) => Safe(l)'
    <3>1. \A q \in Readers : Held(q) \subseteq Held(q)'
      BY <1>2, <2>1, <2>2 DEF Held
    <3> QED BY <2>1, <3>1, SafeStays
  <2>4. There' = {} /\ Trimmed = {} /\ Trimmed' = logFile!In(trim.text)
    BY <1>3, <2>1, <2>2 DEF There, Trimmed
  <2>5. \A l \in There : l \in logFile!In(trim.text) \/ l \in exposed'
    BY <2>1 DEF KeptInv, There
  <2>6. \A l \in exposed' : Safe(l)'
    BY DEF Safe
  <2>7. (\E q \in Readers : readers[q].pc = "create") => \A l \in logFile!In(trim.text) : Safe(l)
    BY <2>1 DEF KeptInv
  <2>8. \A r \in Readers : readers'[r].pc = "unlink" =>
           logFile!In(contents'[readers'[r].file]) \subseteq logFile!In(readers'[r].text) \cup exposed'
    BY <1>2, <2>1, <2>2 DEF KeptInv
  <2>9. \A l \in Lines : appends'[l] = -1 => l \in There' \cup Trimmed' \/ Safe(l)'
    BY <2>1, <2>3, <2>4, <2>5, <2>6 DEF KeptInv
  <2> QED BY <1>3, <2>1, <2>2, <2>3, <2>4, <2>7, <2>8, <2>9 DEF KeptInv
<1>9. CASE logFile!TrimWrite
  <2> DEFINE i == trim.file
             text == trim.text
             there == contents[i]
             all == text \o SubSeq(there, Len(text) + 1, Len(there))
  <2>1. /\ i \in logFile!Inodes /\ contents' = [contents EXCEPT ![i] = all] /\ trim.pc = "write"
        /\ UNCHANGED <<log, appends, delivered>> /\ exposed \subseteq exposed'
        /\ i # log => logFile!In(text) \subseteq exposed'
        /\ trim'.pc = "off"
    BY <1>1, <1>9 DEF logFile!TrimWrite, TrimShape, logFile!NoTrim
  <2>2. logFile!In(text) \subseteq logFile!In(all) /\ logFile!In(all) \subseteq logFile!In(text) \cup logFile!In(there)
    BY <1>1, <2>1, InOver
  <2>3. contents'[i] = all /\ \A j \in logFile!Inodes : j # i => contents'[j] = contents[j]
    BY <1>1, <2>1
  <2>4. Trimmed = logFile!In(text) /\ Trimmed' = {} /\ logFile!In(there) \subseteq exposed
    BY <2>1 DEF Trimmed, KeptInv
  <2> HIDE DEF i, text, there, all
  <2>5. \A j \in logFile!Inodes : logFile!In(contents[j]) \subseteq logFile!In(contents'[j]) \cup exposed
    BY <2>3, <2>4 DEF there
  <2>6. \A l : Safe(l) => Safe(l)'
    <3>1. \A q \in Readers : Held(q) \subseteq Held(q)' \cup exposed'
      BY <1>2, <2>1, <2>5 DEF Held
    <3> QED BY <2>1, <3>1, SafeStays
  <2>7. CASE i = log
    <3>1. There' = logFile!In(all) /\ There = logFile!In(there)
      BY <1>1, <2>1, <2>3, <2>7 DEF There, there
    <3>2. \A l \in exposed' : Safe(l)'
      BY DEF Safe
    <3>3. (\E q \in Readers : readers'[q].pc = "create") => \A l \in There' : Safe(l)'
      BY <2>1, <2>2, <2>4, <2>6, <2>7, <3>1, <3>2 DEF KeptInv, i
    <3>4. \A r \in Readers : readers'[r].pc = "unlink" =>
           logFile!In(contents'[readers'[r].file]) \subseteq logFile!In(readers'[r].text) \cup exposed'
      BY <1>1, <1>2, <2>1, <2>3, <2>7 DEF KeptInv
    <3>5. \A l \in Lines : appends'[l] = -1 => l \in There' \cup Trimmed' \/ Safe(l)'
      BY <2>1, <2>2, <2>4, <2>6, <3>1, <3>2 DEF KeptInv
    <3> QED BY <2>1, <2>4, <3>3, <3>4, <3>5 DEF KeptInv
  <2>8. CASE i # log
    <3>1. There' = There
      BY <1>1, <2>1, <2>3, <2>8 DEF There
    <3>2. \A l \in exposed' : Safe(l)'
      BY DEF Safe
    <3>3. (\E q \in Readers : readers'[q].pc = "create") => \A l \in There' : Safe(l)'
      BY <2>6, <3>1 DEF KeptInv
    <3>4. \A r \in Readers : readers'[r].pc = "unlink" =>
           logFile!In(contents'[readers'[r].file]) \subseteq logFile!In(readers'[r].text) \cup exposed'
      <4>1. \A j \in logFile!Inodes : logFile!In(contents'[j]) \subseteq logFile!In(contents[j]) \cup exposed'
        BY <2>1, <2>2, <2>3, <2>4, <2>8 DEF there
      <4> QED BY <1>2, <2>1, <4>1 DEF KeptInv
    <3>5. \A l \in Lines : appends'[l] = -1 => l \in There' \cup Trimmed' \/ Safe(l)'
      BY <2>1, <2>4, <2>6, <2>8, <3>1, <3>2 DEF KeptInv
    <3> QED BY <2>1, <2>4, <3>3, <3>4, <3>5 DEF KeptInv
  <2> QED BY <2>7, <2>8
<1> QED BY <1>4, <1>5, <1>6, <1>7, <1>8, <1>9

LEMMA KeptStep ==
  ASSUME logFile!LogFileAssumption, LogShape, Enough, KeptInv, [logFile!Next]_(logFile!vars)
  PROVE  KeptInv'
<1>1. CASE UNCHANGED logFile!vars
  BY <1>1 DEF logFile!vars, KeptInv, There, Trimmed, Safe, Held
<1>2. CASE \/ \E l \in Lines : logFile!AppendOpen(l) \/ logFile!AppendWrite(l)
           \/ logFile!TrimCheck \/ logFile!TrimRead \/ logFile!TrimOpen \/ logFile!TrimWrite
  <2>1. UNCHANGED <<readers, delivered>>
    BY <1>2 DEF logFile!AppendOpen, logFile!AppendWrite, logFile!TrimCheck, logFile!TrimRead, logFile!TrimOpen, logFile!TrimWrite, logFile!history
  <2> QED BY <1>2, <2>1, WriterKept
<1> QED BY <1>1, <1>2, ReaderKept, Zenon DEF logFile!Next

Somewhere(l) ==
  \/ l \in logFile!In(trim.text) \/ l \in delivered
  \/ \E i \in logFile!Inodes : l \in logFile!In(contents[i])
  \/ \E r \in Readers : l \in logFile!In(readers[r].text)

(* No line comes to be where it was not, but for those copied.             *)
LEMMA ExclusiveKept ==
  ASSUME Exclusive, logFile!PrintedOnce, copied \subseteq copied', UNCHANGED <<delivered, repeated>>,
         \A l \in Lines \ copied' : /\ l \in LogLines' => l \in LogLines
                                    /\ \A r \in Readers : l \in Taken(r)' => l \in Taken(r)
  PROVE  Exclusive' /\ logFile!PrintedOnce'
<1>1. logFile!PrintedOnce'
  BY DEF logFile!PrintedOnce
<1>2. \A l \in Lines \ copied' : l \in Lines \ copied
  OBVIOUS
<1>3. Exclusive'
  BY <1>2 DEF Exclusive
<1> QED BY <1>1, <1>3

LEMMA ReaderOnce ==
  ASSUME logFile!LogFileAssumption, LogShape, Enough, OnceInv, NEW r \in Readers,
         \/ logFile!Start(r) \/ logFile!AcquireLock(r) \/ logFile!GiveUp(r) \/ logFile!ReadOnly(r) \/ logFile!Rename(r)
         \/ logFile!CreateEmpty(r) \/ logFile!ReadTemp(r) \/ logFile!Unlink(r) \/ logFile!ReleaseLock(r) \/ logFile!PrintLogs(r) \/ logFile!Kill(r)
  PROVE  OnceInv'
<1>1. /\ None \notin logFile!Inodes /\ log \in logFile!Inodes \cup {None} /\ contents \in [logFile!Inodes -> Seq(Lines)]
      /\ readers \in [Readers -> Reader] /\ readers[r] \in Reader /\ ReaderShape(readers[r])
      /\ logFile!NoReader.file = None /\ logFile!NoReader.pc = "off" /\ ~logFile!NoReader.reset /\ logFile!NoReader.text = << >>
      /\ readers[r] = [pc |-> readers[r].pc, file |-> readers[r].file, text |-> readers[r].text, reset |-> readers[r].reset]
      /\ TrimShape
  BY NotInodes, ReaderType DEF LogShape, logFile!NoReader, Reader
<1>2. \A q \in Readers : q # r => readers'[q] = readers[q]
  BY <1>1 DEF logFile!Start, logFile!AcquireLock, logFile!GiveUp, logFile!ReadOnly, logFile!Rename, logFile!CreateEmpty, logFile!ReadTemp, logFile!Unlink, logFile!ReleaseLock, logFile!PrintLogs, logFile!Kill
<1>3. /\ \A q \in Readers : readers[q].pc \in {"create", "read", "unlink"} =>
           readers[q].file \in logFile!Inodes /\ readers[q].file # log
      /\ \A q \in Readers : readers[q].pc \in logFile!Holding /\ readers[r].pc \in logFile!Holding => q = r
      /\ \A q \in Readers : readers[q].file # logFile!Opening
  <2>1. \A q \in Readers : readers[q].file # None => readers[q].file # log
    BY ReaderType
  <2>2. \A q \in Readers : readers[q].pc \in {"create", "read", "unlink"} => readers[q].file \in logFile!Inodes
    BY ReaderType DEF ReaderShape
  <2>3. \A q \in Readers : readers[q].pc \in logFile!Holding /\ readers[r].pc \in logFile!Holding => q = r
    BY DEF LogShape, Locked
  <2> QED BY <1>1, <2>1, <2>2, <2>3, OpeningIs
<1>4. logFile!In(<< >>) = {}
  BY InEmpty
<1>5. UNCHANGED <<trim, appends>>
  BY DEF logFile!Start, logFile!AcquireLock, logFile!GiveUp, logFile!ReadOnly, logFile!Rename, logFile!CreateEmpty, logFile!ReadTemp, logFile!Unlink, logFile!ReleaseLock, logFile!PrintLogs, logFile!Kill
<1>6. ASSUME \A l \in Lines : Somewhere(l)' => Somewhere(l) PROVE Written'
  <2>1. Written <=> \A l \in Lines : appends[l] # -1 => ~Somewhere(l)
    BY DEF Written, Somewhere
  <2>2. Written' <=> \A l \in Lines : appends'[l] # -1 => ~Somewhere(l)'
    BY DEF Written, Somewhere
  <2> QED BY <1>5, <1>6, <2>1, <2>2 DEF OnceInv
<1>7. ASSUME UNCHANGED delivered, \A q \in Readers : logFile!In(readers'[q].text) \subseteq logFile!In(readers[q].text),
             \A i \in logFile!Inodes : logFile!In(contents'[i]) \subseteq logFile!In(contents[i])
      PROVE  Written'
  BY <1>5, <1>6, <1>7 DEF Somewhere
<1>8. CASE logFile!Start(r) \/ logFile!GiveUp(r) \/ logFile!Kill(r)
  <2>1. /\ UNCHANGED <<log, contents, delivered, repeated, copied>>
        /\ readers'[r].pc \in {"off", "start"} /\ readers'[r].text = << >>
    BY <1>1, <1>8 DEF logFile!Start, logFile!GiveUp, logFile!Kill, logFile!files, logFile!history, logFile!NoReader
  <2>2. \A q \in Readers : logFile!In(readers'[q].text) \subseteq logFile!In(readers[q].text)
    BY <1>2, <1>4, <2>1
  <2>3. LogLines' = LogLines
    BY <1>5, <2>1 DEF LogLines, There
  <2>4. \A q \in Readers : Taken(q)' \subseteq Taken(q)
    BY <1>2, <1>4, <2>1 DEF Taken
  <2> QED BY <1>7, <2>1, <2>2, <2>3, <2>4, ExclusiveKept DEF OnceInv
<1>9. CASE logFile!AcquireLock(r) \/ logFile!ReleaseLock(r)
  <2>1. /\ UNCHANGED <<log, contents, delivered, repeated, copied>>
        /\ readers'[r].pc \in {"locked", "print"} /\ readers'[r].text = readers[r].text
        /\ readers'[r].reset = readers[r].reset
    BY <1>1, <1>9 DEF logFile!AcquireLock, logFile!ReleaseLock, logFile!files, logFile!history
  <2>2. \A q \in Readers : logFile!In(readers'[q].text) \subseteq logFile!In(readers[q].text)
    BY <1>2, <2>1
  <2>3. LogLines' = LogLines
    BY <1>5, <2>1 DEF LogLines, There
  <2>4. \A q \in Readers : Taken(q)' \subseteq Taken(q)
    BY <1>2, <2>1 DEF Taken
  <2> QED BY <1>7, <2>1, <2>2, <2>3, <2>4, ExclusiveKept DEF OnceInv
<1>10. CASE logFile!ReadOnly(r)
  <2>1. /\ UNCHANGED <<log, contents, delivered, repeated, copied>>
        /\ readers'[r].text = IF log = None THEN << >> ELSE contents[log]
        /\ ~readers'[r].reset
    BY <1>1, <1>10 DEF logFile!ReadOnly, logFile!files, logFile!history
  <2>2. \A l \in Lines : Somewhere(l)' => Somewhere(l)
    <3>1. logFile!In(readers'[r].text) = {} \/ (log \in logFile!Inodes /\ readers'[r].text = contents[log])
      BY <1>1, <1>4, <2>1
    <3> QED BY <1>2, <1>5, <2>1, <3>1 DEF Somewhere
  <2>3. LogLines' = LogLines
    BY <1>5, <2>1 DEF LogLines, There
  <2>4. \A q \in Readers : Taken(q)' \subseteq Taken(q)
    BY <1>2, <2>1 DEF Taken
  <2> QED BY <1>6, <2>1, <2>2, <2>3, <2>4, ExclusiveKept DEF OnceInv
<1>11. CASE logFile!ReadTemp(r)
  <2>1. /\ UNCHANGED <<log, contents, delivered, repeated, copied>>
        /\ readers[r].pc = "read" /\ readers'[r].pc = "unlink"
        /\ readers'[r].text = contents[readers[r].file] /\ readers'[r].file = readers[r].file
        /\ readers'[r].reset = readers[r].reset
    BY <1>1, <1>11 DEF logFile!ReadTemp, logFile!files, logFile!history
  <2>2. \A l \in Lines : Somewhere(l)' => Somewhere(l)
    BY <1>2, <1>3, <1>5, <2>1 DEF Somewhere
  <2>3. LogLines' = LogLines
    BY <1>5, <2>1 DEF LogLines, There
  <2>4. \A q \in Readers : Taken(q)' \subseteq Taken(q)
    BY <1>2, <2>1 DEF Taken
  <2> QED BY <1>6, <2>1, <2>2, <2>3, <2>4, ExclusiveKept DEF OnceInv
<1>12. CASE logFile!Unlink(r)
  <2>1. /\ UNCHANGED <<log, delivered, repeated, copied>>
        /\ readers[r].pc = "unlink" /\ readers'[r].pc = "release"
        /\ readers'[r].text = readers[r].text /\ readers'[r].reset = readers[r].reset
        /\ contents' = contents \/ contents' = [contents EXCEPT ![readers[r].file] = << >>]
    BY <1>1, <1>12 DEF logFile!Unlink, logFile!history
  <2>2. /\ \A q \in Readers : logFile!In(readers'[q].text) \subseteq logFile!In(readers[q].text)
        /\ \A i \in logFile!Inodes : logFile!In(contents'[i]) \subseteq logFile!In(contents[i])
    BY <1>1, <1>2, <1>4, <2>1
  <2>3. LogLines' \subseteq LogLines
    BY <1>1, <1>5, <2>1, <2>2 DEF LogLines, There
  <2>4. \A q \in Readers : Taken(q)' \subseteq Taken(q)
    BY <1>2, <1>3, <2>1, <2>2 DEF Taken
  <2> QED BY <1>7, <2>1, <2>2, <2>3, <2>4, ExclusiveKept DEF OnceInv
<1>13. CASE logFile!CreateEmpty(r)
  <2>1. /\ UNCHANGED <<delivered, repeated, copied>> /\ log' = logFile!Opening
        /\ contents' = [contents EXCEPT ![logFile!Opening] = << >>]
        /\ readers[r].pc = "create" /\ readers'[r].pc = "read" /\ readers'[r].file = readers[r].file
        /\ readers'[r].text = readers[r].text /\ readers'[r].reset = readers[r].reset
    BY <1>1, <1>13 DEF logFile!CreateEmpty
  <2>2. /\ \A q \in Readers : logFile!In(readers'[q].text) \subseteq logFile!In(readers[q].text)
        /\ \A i \in logFile!Inodes : logFile!In(contents'[i]) \subseteq logFile!In(contents[i])
        /\ logFile!In(contents'[logFile!Opening]) = {}
    BY <1>1, <1>2, <1>4, <2>1, OpeningIs
  <2>3. LogLines' \subseteq LogLines
    BY <1>1, <1>5, <2>1, <2>2, OpeningIs DEF LogLines, There
  <2>4. \A q \in Readers : Taken(q)' \subseteq Taken(q)
    BY <1>2, <1>3, <2>1, <2>2 DEF Taken
  <2> QED BY <1>7, <2>1, <2>2, <2>3, <2>4, ExclusiveKept DEF OnceInv
<1>14. CASE logFile!Rename(r)
  <2>1. /\ UNCHANGED <<contents, delivered, repeated, copied>> /\ log' = None
        /\ readers[r].pc = "locked" /\ readers[r].text = << >>
        /\ readers'[r].text = readers[r].text /\ readers'[r].file = log
        /\ readers'[r].pc = IF log = None THEN "release" ELSE "create"
    BY <1>1, <1>14 DEF logFile!Rename, logFile!history, ReaderShape
  <2>2. \A q \in Readers : logFile!In(readers'[q].text) \subseteq logFile!In(readers[q].text)
    BY <1>2, <2>1
  <2>3. LogLines' = {}
    BY <1>1, <1>5, <2>1 DEF LogLines, There, TrimShape
  <2>4. /\ \A q \in Readers : q # r => Taken(q)' = Taken(q)
        /\ Taken(r)' \subseteq LogLines
    BY <1>2, <1>4, <2>1 DEF Taken, LogLines, There
  <2>5. Exclusive'
    BY <2>1, <2>3, <2>4 DEF Exclusive, OnceInv
  <2> QED BY <1>7, <2>1, <2>2, <2>5 DEF OnceInv, logFile!PrintedOnce
<1>15. CASE logFile!PrintLogs(r)
  <2> DEFINE printed == IF readers[r].reset THEN logFile!In(readers[r].text) ELSE {}
  <2>1. /\ UNCHANGED <<log, contents, copied>> /\ readers[r].pc = "print"
        /\ readers'[r].pc = "off" /\ readers'[r].text = << >> /\ ~readers'[r].reset
        /\ repeated' = repeated \cup (delivered \cap printed)
        /\ delivered' = delivered \cup printed
    BY <1>1, <1>15 DEF logFile!PrintLogs, logFile!files
  <2>2. printed = Taken(r)
    BY <2>1 DEF Taken
  <2>3. printed \subseteq logFile!In(readers[r].text)
    OBVIOUS
  <2>4. printed \subseteq Lines
    BY <1>1, <2>3, InLines DEF Reader
  <2> HIDE DEF printed
  <2>5. \A l \in Lines : Somewhere(l)' => Somewhere(l)
    BY <1>2, <1>4, <1>5, <2>1, <2>3 DEF Somewhere
  <2>6. LogLines' = LogLines
    BY <1>5, <2>1 DEF LogLines, There
  <2>7. Taken(r)' = {} /\ \A q \in Readers : q # r => Taken(q)' = Taken(q)
    BY <1>2, <2>1 DEF Taken
  <2>8. \A l \in printed : l \in copied \/
          (l \notin delivered /\ l \notin LogLines /\ \A q \in Readers : l \in Taken(q) => q = r)
    BY <2>2, <2>4 DEF Exclusive, OnceInv
  <2>9. logFile!PrintedOnce'
    BY <2>1, <2>8 DEF logFile!PrintedOnce, OnceInv
  <2>10. Exclusive'
    BY <2>1, <2>6, <2>7, <2>8 DEF Exclusive, OnceInv
  <2> QED BY <1>6, <2>5, <2>9, <2>10 DEF OnceInv
<1> QED BY <1>8, <1>9, <1>10, <1>11, <1>12, <1>13, <1>14, <1>15

LEMMA WriterOnce ==
  ASSUME logFile!LogFileAssumption, LogShape, Enough, OnceInv, UNCHANGED <<readers, delivered, repeated>>,
         \/ \E l \in Lines : logFile!AppendOpen(l) \/ logFile!AppendWrite(l)
         \/ logFile!TrimCheck \/ logFile!TrimRead \/ logFile!TrimOpen \/ logFile!TrimWrite
  PROVE  OnceInv'
<1>1. /\ None \notin logFile!Inodes /\ log \in logFile!Inodes \cup {None} /\ contents \in [logFile!Inodes -> Seq(Lines)]
      /\ trim \in [pc : {"off", "check", "read", "open", "write"}, text : Seq(Lines), file : logFile!Inodes \cup {None}]
      /\ trim = [pc |-> trim.pc, text |-> trim.text, file |-> trim.file] /\ TrimShape
      /\ appends \in [Lines -> logFile!Inodes \cup {0, -1}]
      /\ -1 \notin logFile!Inodes /\ 0 \notin logFile!Inodes /\ 0 # -1
  BY NotInodes DEF LogShape
<1>2. /\ \A q \in Readers : readers[q].pc \in {"create", "read"} => readers[q].file \in logFile!Inodes /\ readers[q].file # log
      /\ \A q, p \in Readers : readers[q].pc \in {"create", "read"} /\ readers[p].pc \in {"create", "read"} => q = p
      /\ \A q \in Readers : readers[q].file # logFile!Opening
  <2>1. \A q \in Readers : readers[q].file # None => readers[q].file # log
    BY ReaderType
  <2>2. \A q \in Readers : readers[q].pc \in {"create", "read"} => readers[q].file \in logFile!Inodes
    BY ReaderType DEF ReaderShape
  <2>3. \A q, p \in Readers : readers[q].pc \in logFile!Holding /\ readers[p].pc \in logFile!Holding => q = p
    BY DEF LogShape, Locked
  <2> QED BY <1>1, <2>1, <2>2, <2>3, OpeningIs DEF logFile!Holding
<1>3. logFile!In(<< >>) = {}
  BY InEmpty
<1>4. ASSUME \A l \in Lines : appends[l] = -1 => appends'[l] = -1,
             \A l \in Lines : appends'[l] # -1 /\ Somewhere(l)' => Somewhere(l)
      PROVE  Written'
  <2>1. Written <=> \A l \in Lines : appends[l] # -1 => ~Somewhere(l)
    BY DEF Written, Somewhere
  <2>2. Written' <=> \A l \in Lines : appends'[l] # -1 => ~Somewhere(l)'
    BY DEF Written, Somewhere
  <2> QED BY <1>4, <2>1, <2>2 DEF OnceInv
<1>5. ASSUME NEW l \in Lines, logFile!AppendOpen(l) PROVE OnceInv'
  <2>1. /\ log' = logFile!Opening /\ UNCHANGED <<contents, trim, copied>>
        /\ \A m \in Lines : appends[m] = -1 => appends'[m] = -1
    BY <1>1, <1>5 DEF logFile!AppendOpen, logFile!history
  <2>2. \A m \in Lines : Somewhere(m)' => Somewhere(m)
    BY <2>1 DEF Somewhere
  <2>3. LogLines' = LogLines
    BY <1>1, <1>3, <2>1, OpeningIs DEF LogLines, There, TrimShape
  <2>4. \A q \in Readers : Taken(q)' = Taken(q)
    BY <2>1 DEF Taken
  <2> QED BY <1>4, <2>1, <2>2, <2>3, <2>4, ExclusiveKept DEF OnceInv
<1>6. ASSUME NEW l \in Lines, logFile!AppendWrite(l) PROVE OnceInv'
  <2> DEFINE i == appends[l]
  <2>1. /\ UNCHANGED <<log, copied>> /\ i \in logFile!Inodes
        /\ contents' = [contents EXCEPT ![i] = Append(@, l)]
        /\ appends' = [appends EXCEPT ![l] = -1]
        /\ UNCHANGED trim \/ (trim.pc = "off" /\ trim' = [trim EXCEPT !.pc = "check"])
    BY <1>1, <1>6 DEF logFile!AppendWrite
  <2>2. /\ logFile!In(contents'[i]) = logFile!In(contents[i]) \cup {l}
        /\ \A j \in logFile!Inodes : j # i => contents'[j] = contents[j]
    <3>1. contents'[i] = Append(contents[i], l) /\ contents[i] \in Seq(Lines)
      BY <1>1, <2>1
    <3> QED BY <1>1, <2>1, <3>1, InAppend
  <2>3. ~Somewhere(l)
    BY <1>1, <2>1 DEF OnceInv, Written, Somewhere
  <2>4. appends'[l] = -1 /\ \A m \in Lines : m # l => appends'[m] = appends[m]
    BY <1>1, <2>1
  <2> HIDE DEF i
  <2>5. trim'.file = trim.file /\ trim'.text = trim.text
        /\ (trim'.pc \in {"open", "write"} <=> trim.pc \in {"open", "write"})
    BY <1>1, <2>1
  <2>6. Written'
    <3>1. \A m \in Lines : m # l /\ Somewhere(m)' => Somewhere(m)
      BY <2>2, <2>5 DEF Somewhere
    <3> QED BY <1>4, <2>4, <3>1
  <2>7. \A j \in logFile!Inodes : logFile!In(contents'[j]) \subseteq logFile!In(contents[j]) \cup (IF j = i THEN {l} ELSE {})
    BY <2>2
  <2>8. LogLines' \subseteq LogLines \cup (IF i = log THEN {l} ELSE {})
    BY <1>1, <2>1, <2>5, <2>7 DEF LogLines, There
  <2>9. \A q \in Readers :
          Taken(q)' \subseteq Taken(q) \cup (IF readers[q].pc \in {"create", "read"} /\ i = readers[q].file THEN {l} ELSE {})
    BY <1>2, <2>7 DEF Taken
  <2>10. l \notin delivered /\ l \notin LogLines /\ \A q \in Readers : l \notin Taken(q)
    BY <1>1, <1>2, <2>3 DEF Somewhere, LogLines, There, Taken
  <2>11. Exclusive'
    <3>1. ASSUME NEW m \in Lines \ copied', m # l
          PROVE  /\ m \in LogLines' => m \notin delivered' /\ \A r \in Readers : m \notin Taken(r)'
                 /\ \A r \in Readers : m \in Taken(r)' =>
                      m \notin delivered' /\ \A q \in Readers : m \in Taken(q)' => q = r
      <4>1. (m \in LogLines' => m \in LogLines) /\ \A q \in Readers : m \in Taken(q)' => m \in Taken(q)
        BY <2>8, <2>9, <3>1
      <4> QED BY <2>1, <3>1, <4>1 DEF Exclusive, OnceInv
    <3>2. /\ l \in LogLines' => l \notin delivered' /\ \A r \in Readers : l \notin Taken(r)'
          /\ \A r \in Readers : l \in Taken(r)' =>
                l \notin delivered' /\ \A q \in Readers : l \in Taken(q)' => q = r
      BY <1>2, <2>8, <2>9, <2>10
    <3> QED BY <3>1, <3>2 DEF Exclusive
  <2> QED BY <2>1, <2>6, <2>11 DEF OnceInv, logFile!PrintedOnce
<1>7. CASE logFile!TrimCheck
  <2>1. /\ UNCHANGED <<log, contents, appends, copied>> /\ trim'.text = << >> /\ trim'.pc \in {"off", "read"}
    BY <1>1, <1>7 DEF logFile!TrimCheck, logFile!files, logFile!history, logFile!NoTrim, TrimShape
  <2>2. \A m \in Lines : Somewhere(m)' => Somewhere(m)
    BY <1>3, <2>1 DEF Somewhere
  <2>3. LogLines' \subseteq LogLines
    BY <2>1 DEF LogLines, There
  <2>4. \A q \in Readers : Taken(q)' = Taken(q)
    BY <2>1 DEF Taken
  <2> QED BY <1>4, <2>1, <2>2, <2>3, <2>4, ExclusiveKept DEF OnceInv
<1>8. CASE logFile!TrimRead
  <2>1. UNCHANGED <<log, contents, appends, copied>>
    BY <1>8 DEF logFile!TrimRead, logFile!files
  <2>2. logFile!In(trim'.text) \subseteq There /\ (trim'.pc = "off" \/ trim'.file = log)
    <3>1. CASE log = None
      BY <1>3, <1>8, <3>1 DEF logFile!TrimRead, logFile!NoTrim
    <3>2. CASE log # None
      <4> DEFINE all == contents[log]
                 from == IF Len(all) > Keep THEN Len(all) - Keep + 1 ELSE 1
      <4>1. log \in logFile!Inodes /\ all \in Seq(Lines) /\ Len(all) \in Nat /\ from \in 1..Len(all) + 1
        BY <1>1, <3>2 DEF logFile!LogFileAssumption
      <4>2. logFile!In(SubSeq(all, from, Len(all))) \subseteq logFile!In(all)
        BY <4>1, InCut
      <4>3. trim' = [pc |-> "open", text |-> SubSeq(all, from, Len(all)), file |-> log]
        BY <1>8, <3>2 DEF logFile!TrimRead
      <4>4. There = logFile!In(all)
        BY <3>2 DEF There
      <4> HIDE DEF all, from
      <4> QED BY <4>2, <4>3, <4>4
    <3> QED BY <3>1, <3>2
  <2>3. \A m \in There : Somewhere(m)
    BY <1>1 DEF There, Somewhere
  <2>4. \A m \in Lines : Somewhere(m)' => Somewhere(m)
    <3>1. ASSUME NEW m, m \in logFile!In(trim'.text) PROVE Somewhere(m)
      BY <2>2, <2>3, <3>1
    <3> QED BY <2>1, <3>1 DEF Somewhere
  <2>5. LogLines' \subseteq LogLines
    BY <2>1, <2>2 DEF LogLines, There
  <2>6. \A q \in Readers : Taken(q)' = Taken(q)
    BY <2>1 DEF Taken
  <2> QED BY <1>4, <2>1, <2>4, <2>5, <2>6, ExclusiveKept DEF OnceInv
<1>9. CASE logFile!TrimOpen
  <2>1. /\ trim.pc = "open" /\ log' = logFile!Opening /\ contents' = [contents EXCEPT ![logFile!Opening] = << >>]
        /\ trim'.pc = "write" /\ trim'.text = trim.text /\ trim'.file = logFile!Opening
        /\ UNCHANGED appends /\ copied' = IF logFile!Opening # trim.file THEN copied \cup logFile!In(trim.text) ELSE copied
    BY <1>1, <1>9 DEF logFile!TrimOpen
  <2>2. /\ logFile!Opening \in logFile!Inodes /\ logFile!Opening # None
        /\ logFile!In(contents'[logFile!Opening]) = {} /\ \A j \in logFile!Inodes : j # logFile!Opening => contents'[j] = contents[j]
    BY <1>1, <1>3, <2>1, OpeningIs
  <2>3. \A m \in Lines : Somewhere(m)' => Somewhere(m)
    BY <2>1, <2>2 DEF Somewhere
  <2>4. LogLines' = logFile!In(trim.text)
    BY <2>1, <2>2 DEF LogLines, There
  <2>5. logFile!Opening = trim.file => log = trim.file
    BY OpeningIs
  <2>6. \A m \in Lines \ copied' : m \in LogLines' => m \in LogLines
    BY <2>1, <2>4, <2>5 DEF LogLines
  <2>7. \A q \in Readers : Taken(q)' = Taken(q)
    BY <1>2, <2>2 DEF Taken
  <2> QED BY <1>4, <2>1, <2>3, <2>6, <2>7, ExclusiveKept DEF OnceInv
<1>10. CASE logFile!TrimWrite
  <2> DEFINE i == trim.file
             text == trim.text
             there == contents[i]
             all == text \o SubSeq(there, Len(text) + 1, Len(there))
  <2>1. /\ i \in logFile!Inodes /\ contents' = [contents EXCEPT ![i] = all] /\ trim.pc = "write"
        /\ UNCHANGED <<log, appends>>
        /\ copied' = IF i # log THEN copied \cup logFile!In(text) ELSE copied
        /\ trim'.pc = "off" /\ trim'.text = << >>
    BY <1>1, <1>10 DEF logFile!TrimWrite, TrimShape, logFile!NoTrim
  <2>2. logFile!In(all) \subseteq logFile!In(text) \cup logFile!In(there)
    BY <1>1, <2>1, InOver
  <2>3. contents'[i] = all /\ \A j \in logFile!Inodes : j # i => contents'[j] = contents[j]
    BY <1>1, <2>1
  <2>4. i = log => logFile!In(text) \subseteq LogLines
    BY <2>1 DEF LogLines
  <2> HIDE DEF all
  <2>5. \A j \in logFile!Inodes : logFile!In(contents'[j]) \subseteq logFile!In(contents[j]) \cup (IF j = i THEN logFile!In(text) ELSE {})
    BY <2>2, <2>3
  <2>6. \A m \in Lines : Somewhere(m)' => Somewhere(m)
    BY <1>3, <2>1, <2>5 DEF Somewhere
  <2> HIDE DEF i, text, there
  <2>7. \A m \in Lines \ copied' : m \in LogLines' => m \in LogLines
    BY <1>1, <2>1, <2>4, <2>5 DEF LogLines, There
  <2>8. \A m \in Lines \ copied' : \A q \in Readers : m \in Taken(q)' => m \in Taken(q)
    BY <1>2, <2>1, <2>5 DEF Taken
  <2> QED BY <1>4, <2>1, <2>6, <2>7, <2>8, ExclusiveKept DEF OnceInv
<1> QED BY <1>5, <1>6, <1>7, <1>8, <1>9, <1>10

LEMMA OnceStep ==
  ASSUME logFile!LogFileAssumption, LogShape, Enough, OnceInv, [logFile!Next]_(logFile!vars)
  PROVE  OnceInv'
<1>1. CASE UNCHANGED logFile!vars
  BY <1>1 DEF logFile!vars, OnceInv, Written, Exclusive, logFile!PrintedOnce, LogLines, There, Taken
<1>2. CASE \/ \E l \in Lines : logFile!AppendOpen(l) \/ logFile!AppendWrite(l)
           \/ logFile!TrimCheck \/ logFile!TrimRead \/ logFile!TrimOpen \/ logFile!TrimWrite
  <2>1. UNCHANGED <<readers, delivered, repeated>>
    BY <1>2 DEF logFile!AppendOpen, logFile!AppendWrite, logFile!TrimCheck, logFile!TrimRead, logFile!TrimOpen, logFile!TrimWrite, logFile!history
  <2> QED BY <1>2, <2>1, WriterOnce
<1> QED BY <1>1, <1>2, ReaderOnce, Zenon DEF logFile!Next

LEMMA LogInitOnce == ASSUME logFile!LogFileAssumption, logFile!Init PROVE KeptInv /\ OnceInv
<1>1. logFile!In(<< >>) = {} /\ logFile!NoReader.text = << >> /\ logFile!NoReader.pc = "off" /\ ~logFile!NoReader.reset
      /\ logFile!NoTrim.pc = "off" /\ logFile!NoTrim.text = << >>
  BY InEmpty DEF logFile!NoReader, logFile!NoTrim
<1>2. KeptInv
  BY <1>1 DEF logFile!Init, KeptInv
<1>3. OnceInv
  BY <1>1 DEF logFile!Init, OnceInv, Written, Exclusive, logFile!PrintedOnce, LogLines, There, Taken
<1> QED BY <1>2, <1>3

(* However the monitor, its trimming and the readers interleave, a line is *)
(* neither lost nor printed by two resets.                                 *)
THEOREM LinesKeptOnce ==
  ASSUME logFile!LogFileAssumption PROVE logFile!Spec => []LinesOnce
<1>1. logFile!Init => LogInv
  BY LogInit, LogInitOnce DEF LogInv
<1>2. LogInv /\ [logFile!Next]_(logFile!vars) => LogInv'
  BY ShapeStep, EnoughStep, KeptStep, OnceStep DEF LogInv
<1>3. LogInv => logFile!LinesOnce
  <2>1. ASSUME KeptInv PROVE logFile!LinesKept
    <3>1. ASSUME NEW l, Safe(l)
          PROVE  l \in delivered \cup exposed \/ l \in UNION {Held(r) : r \in {q \in Readers : readers[q].reset}}
      BY <3>1 DEF Safe, Held
    <3>2. \A r \in {q \in Readers : readers[q].reset} :
            Held(r) = logFile!In(readers[r].text) \cup (IF readers[r].file = None THEN {} ELSE logFile!In(contents[readers[r].file]))
      BY DEF Held
    <3> QED BY <2>1, <3>1, <3>2 DEF KeptInv, logFile!LinesKept, There, Trimmed
  <2> QED BY <2>1 DEF LogInv, OnceInv, logFile!LinesOnce
<1> QED BY <1>1, <1>2, <1>3, PTL DEF logFile!Spec, LinesOnce

-----------------------------------------------------------------------------
(* ErrorStore.                                                             *)

(* The monitor is about to update a row that was deleted.                  *)
Stale == store.pc = "update" /\ rows[store.hash] = 0

(* Only such an update is missed, and each deletion makes one at most.     *)
Tallied ==
  /\ rows \in [Hashes -> Nat] /\ {stored, removed, clears} \subseteq Nat
  /\ store = [pc |-> store.pc, hash |-> store.hash, tries |-> store.tries]
  /\ store.pc # "off" => store.hash \in Hashes
  /\ removed + errorStore!Total(rows) <= stored
  /\ stored + (IF Stale THEN 1 ELSE 0) <= removed + errorStore!Total(rows) + clears

LEMMA HashesFinite == ASSUME errorStore!ErrorStoreAssumption PROVE IsFiniteSet(Hashes)
<1>1. errorStore!IsFiniteSet(Hashes) <=> IsFiniteSet(Hashes)
  BY Zenon DEF errorStore!IsFiniteSet, IsFiniteSet
<1> QED BY <1>1 DEF errorStore!ErrorStoreAssumption

LEMMA TotalSum == ASSUME NEW counts PROVE errorStore!Total(counts) = Sum(counts, Hashes)
BY Zenon DEF errorStore!Total, errorStore!SumFunctionOnSet, SumFunctionOnSet, errorStore!FoldFunctionOnSet,
  FoldFunctionOnSet, errorStore!MapThenFoldSet, MapThenFoldSet, Sum

LEMMA NothingStored == ASSUME errorStore!ErrorStoreAssumption PROVE errorStore!Total(errorStore!Nothing) = 0 /\ errorStore!Nothing \in [Hashes -> Nat]
<1>1. \A h \in Hashes : errorStore!Nothing[h] = 0
  BY DEF errorStore!Nothing
<1>2. errorStore!Nothing \in [Hashes -> Nat]
  BY DEF errorStore!Nothing
<1> HIDE DEF errorStore!Nothing
<1>3. IsFiniteSet(Hashes)
  BY HashesFinite DEF errorStore!ErrorStoreAssumption
<1>4. Sum(errorStore!Nothing, Hashes) = 0
  BY <1>1, <1>3, SumZero
<1> QED BY <1>2, <1>4, TotalSum

LEMMA TotalNat ==
  ASSUME errorStore!ErrorStoreAssumption, NEW counts \in [Hashes -> Nat] PROVE errorStore!Total(counts) \in Nat
<1>1. IsFiniteSet(Hashes) /\ \A h \in Hashes : counts[h] \in Nat
  BY HashesFinite DEF errorStore!ErrorStoreAssumption
<1> QED BY <1>1, SumNat, TotalSum

LEMMA OneMore ==
  ASSUME errorStore!ErrorStoreAssumption, NEW counts \in [Hashes -> Nat], NEW h \in Hashes, NEW more,
         more = [counts EXCEPT ![h] = @ + 1]
  PROVE  more \in [Hashes -> Nat] /\ errorStore!Total(more) = errorStore!Total(counts) + 1
<1>1. /\ IsFiniteSet(Hashes) /\ IntegerOn(counts, Hashes)
      /\ counts[h] \in Nat /\ counts[h] + 1 \in Nat
  BY HashesFinite DEF errorStore!ErrorStoreAssumption, IntegerOn
<1>2. more[h] = counts[h] + 1 /\ (\A k \in Hashes \ {h} : more[k] = counts[k]) /\ more \in [Hashes -> Nat]
  BY <1>1
<1>3. more[h] \in Int
  BY <1>1, <1>2
<1>4. Sum(more, Hashes) = Sum(counts, Hashes) - counts[h] + more[h] /\ Sum(counts, Hashes) \in Int
  <2>1. Sum(counts, Hashes) \in Int
    BY <1>1, SumInt
  <2>2. \A k \in Hashes \ {h} : more[k] = counts[k]
    BY <1>2
  <2> DEFINE f == counts
             g == more
  <2>3. IntegerOn(f, Hashes) /\ g[h] \in Int /\ \A k \in Hashes \ {h} : g[k] = f[k]
    BY <1>1, <1>3, <2>2
  <2> HIDE DEF f, g
  <2>4. Sum(g, Hashes) = Sum(f, Hashes) - f[h] + g[h]
    BY <1>1, <2>3, SumChange
  <2> QED BY <2>1, <2>4 DEF f, g
<1> QED BY <1>1, <1>2, <1>4, TotalSum

LEMMA StoreInit == ASSUME errorStore!ErrorStoreAssumption, errorStore!Init PROVE Tallied
<1>1. rows = errorStore!Nothing /\ store = errorStore!Idle /\ stored = 0 /\ removed = 0 /\ clears = 0 /\ errorStore!Idle.pc = "off"
  BY DEF errorStore!Init, errorStore!Idle
<1>2. errorStore!Total(rows) = 0 /\ rows \in [Hashes -> Nat]
  BY <1>1, NothingStored
<1>3. errorStore!Idle = [pc |-> errorStore!Idle.pc, hash |-> errorStore!Idle.hash, tries |-> errorStore!Idle.tries]
  BY DEF errorStore!Idle
<1> QED BY <1>1, <1>2, <1>3 DEF Tallied, Stale

LEMMA StoreStep ==
  ASSUME errorStore!ErrorStoreAssumption, Tallied, [errorStore!Next]_(errorStore!vars)
  PROVE  Tallied'
<1>1. /\ rows \in [Hashes -> Nat] /\ errorStore!Total(rows) \in Nat /\ stored \in Nat /\ removed \in Nat /\ clears \in Nat
      /\ removed + errorStore!Total(rows) <= stored /\ stored <= removed + errorStore!Total(rows) + clears
      /\ Stale => stored + 1 <= removed + errorStore!Total(rows) + clears
      /\ store.pc # "off" => store.hash \in Hashes /\ rows[store.hash] \in Nat
      /\ errorStore!Idle = [pc |-> "off", hash |-> errorStore!Idle.hash, tries |-> 0]
      /\ store = [pc |-> store.pc, hash |-> store.hash, tries |-> store.tries]
  BY TotalNat DEF Tallied, errorStore!Idle
<1>2. ASSUME UNCHANGED <<rows, stored, removed, clears>>, Stale' => Stale,
             store'.pc # "off" => store'.hash \in Hashes,
             store' = [pc |-> store'.pc, hash |-> store'.hash, tries |-> store'.tries]
      PROVE  Tallied'
  <2>1. errorStore!Total(rows)' = errorStore!Total(rows)
    BY <1>2, Zenon DEF errorStore!Total
  <2> QED BY <1>1, <1>2, <2>1 DEF Tallied
<1>3. ASSUME NEW h \in Hashes, errorStore!StoreError(h) PROVE Tallied'
  <2>1. /\ store' = [pc |-> "select", hash |-> h, tries |-> 0] /\ UNCHANGED <<rows, stored, removed, clears>>
        /\ store' = [pc |-> store'.pc, hash |-> store'.hash, tries |-> store'.tries]
    BY <1>3 DEF errorStore!StoreError
  <2> QED BY <1>2, <2>1 DEF Stale
<1>4. CASE errorStore!Select
  <2> DEFINE pc == IF rows[store.hash] > 0 THEN "update" ELSE "insert"
  <2>1. store.hash \in Hashes /\ store' = [store EXCEPT !.pc = pc] /\ UNCHANGED <<rows, stored, removed, clears>>
    BY <1>1, <1>4 DEF errorStore!Select
  <2>2. /\ store'.hash = store.hash /\ store'.pc = pc
        /\ store' = [pc |-> store'.pc, hash |-> store'.hash, tries |-> store'.tries]
    <3> HIDE DEF pc
    <3> QED BY <1>1, <2>1
  <2>3. ~Stale'
    BY <1>1, <1>4, <2>1, <2>2 DEF Stale, errorStore!Select
  <2> QED BY <1>2, <2>1, <2>2, <2>3
<1>5. CASE errorStore!Write
  <2>1. /\ store.hash \in Hashes /\ stored' = stored + 1 /\ store' = errorStore!Idle /\ UNCHANGED <<removed, clears>>
        /\ store.pc \in {"update", "insert"}
    BY <1>1, <1>5 DEF errorStore!Write
  <2>2. CASE store.pc = "insert" \/ rows[store.hash] > 0
    <3>1. rows' = [rows EXCEPT ![store.hash] = @ + 1]
      BY <1>1, <1>5, <2>1, <2>2 DEF errorStore!Write
    <3>2. rows' \in [Hashes -> Nat] /\ errorStore!Total(rows)' = errorStore!Total(rows) + 1
      <4>1. PICK more : more = rows'
        OBVIOUS
      <4>2. more \in [Hashes -> Nat] /\ errorStore!Total(more) = errorStore!Total(rows) + 1
        BY <1>1, <2>1, <3>1, <4>1, OneMore
      <4>3. errorStore!Total(rows)' = errorStore!Total(more)
        BY <4>1, Zenon DEF errorStore!Total
      <4> QED BY <4>1, <4>2, <4>3
    <3> QED BY <1>1, <2>1, <3>2 DEF Tallied, Stale
  <2>3. CASE store.pc = "update" /\ rows[store.hash] = 0
    <3>1. rows' = rows
      <4>1. rows' = [rows EXCEPT ![store.hash] = rows[store.hash]]
        BY <1>1, <1>5, <2>1, <2>3 DEF errorStore!Write
      <4> QED BY <1>1, <2>1, <4>1
    <3>2. errorStore!Total(rows)' = errorStore!Total(rows) /\ Stale
      BY <2>3, <3>1, Zenon DEF errorStore!Total, Stale
    <3> QED BY <1>1, <2>1, <3>1, <3>2 DEF Tallied, Stale
  <2> QED BY <1>1, <2>1, <2>2, <2>3
<1>6. CASE errorStore!StatementFails
  <2>1. /\ UNCHANGED <<rows, stored, removed, clears>> /\ store.pc # "off"
        /\ store' = errorStore!Idle \/ store' = [store EXCEPT !.pc = "select", !.tries = @ + 1]
    BY <1>6 DEF errorStore!StatementFails
  <2>2. /\ store'.pc \in {"off", "select"} /\ (store'.pc # "off" => store'.hash = store.hash)
        /\ store' = [pc |-> store'.pc, hash |-> store'.hash, tries |-> store'.tries]
    <3> DEFINE tried == store.tries + 1
    <3>1. store' = errorStore!Idle \/ store' = [store EXCEPT !.pc = "select", !.tries = tried]
      BY <1>1, <2>1
    <3> HIDE DEF tried
    <3>2. CASE store' = errorStore!Idle
      BY <1>1, <3>2
    <3>3. CASE store' = [store EXCEPT !.pc = "select", !.tries = tried]
      <4>1. store' = [pc |-> "select", hash |-> store.hash, tries |-> tried]
        BY <1>1, <3>3
      <4> QED BY <4>1
    <3> QED BY <3>1, <3>2, <3>3
  <2> QED BY <1>1, <1>2, <2>1, <2>2 DEF Stale
<1>7. ASSUME NEW t \in Tools, errorStore!DeleteErrors(t) PROVE Tallied'
  <2>1. /\ rows' = errorStore!Nothing /\ removed' = removed + errorStore!Total(rows) /\ clears' = clears + 1
        /\ UNCHANGED <<store, stored>>
    BY <1>7 DEF errorStore!DeleteErrors
  <2>2. errorStore!Total(rows)' = 0 /\ rows' \in [Hashes -> Nat]
    <3>1. errorStore!Total(rows)' = errorStore!Total(errorStore!Nothing)
      BY <2>1, Zenon DEF errorStore!Total
    <3> QED BY <2>1, <3>1, NothingStored
  <2> QED BY <1>1, <2>1, <2>2 DEF Tallied
<1>8. ASSUME NEW t \in Tools, errorStore!Clear(t) \/ errorStore!CountErrors(t) \/ errorStore!ToolEnds(t) PROVE Tallied'
  <2>1. UNCHANGED <<rows, store, stored, removed, clears>>
    BY <1>8 DEF errorStore!Clear, errorStore!CountErrors, errorStore!ToolEnds
  <2> QED BY <1>1, <1>2, <2>1 DEF Stale
<1>9. CASE UNCHANGED errorStore!vars
  BY <1>1, <1>2, <1>9 DEF errorStore!vars, Stale
<1> QED BY <1>3, <1>4, <1>5, <1>6, <1>7, <1>8, <1>9 DEF errorStore!Next

(* Every error that was reported stored is in a row or was deleted with    *)
(* one, but for at most one for each deletion.                             *)
THEOREM ErrorsCounted ==
  ASSUME errorStore!ErrorStoreAssumption PROVE errorStore!Spec => []OccurrencesCounted
<1>1. errorStore!Init => Tallied
  BY StoreInit
<1>2. Tallied /\ [errorStore!Next]_(errorStore!vars) => Tallied'
  BY StoreStep
<1>3. Tallied => errorStore!OccurrencesCounted
  <2> SUFFICES ASSUME Tallied PROVE errorStore!OccurrencesCounted
    OBVIOUS
  <2>1. errorStore!Total(rows) \in Nat /\ stored \in Nat /\ removed \in Nat /\ clears \in Nat
    BY TotalNat DEF Tallied
  <2> QED BY <2>1 DEF Tallied, errorStore!OccurrencesCounted
<1> QED BY <1>1, <1>2, <1>3, PTL DEF errorStore!Spec, OccurrencesCounted

-----------------------------------------------------------------------------
(* What runs beside each other are these parts, so what is proved of one   *)
(* holds of the whole.                                                     *)
LEMMA RunsEachPart == ContainerSpec => Spec /\ logFile!Spec /\ errorStore!Spec
<1> DEFINE all == <<part, vars, logVars, storeVars>>
<1>1. ContainerInit => Init /\ logFile!Init /\ errorStore!Init
  BY DEF ContainerInit
<1>2. [ContainerNext]_all =>
        [Next]_vars /\ [logFile!Next]_(logFile!vars) /\ [errorStore!Next]_(errorStore!vars)
  <2>1. /\ UNCHANGED logVars => UNCHANGED (logFile!vars)
        /\ UNCHANGED storeVars => UNCHANGED (errorStore!vars)
    BY DEF logFile!vars, logVars, errorStore!vars, storeVars
  <2>2. CASE UNCHANGED all
    BY <2>1, <2>2
  <2>3. CASE ContainerNext
    BY <2>1, <2>3 DEF ContainerNext
  <2> QED BY <2>2, <2>3
<1> HIDE DEF all
<1> QED BY <1>1, <1>2, PTL DEF ContainerSpec, Spec, logFile!Spec, errorStore!Spec, all

(* All of it, of the parts as they run together.                           *)
THEOREM ContainerSound ==
  ASSUME logFile!LogFileAssumption, errorStore!ErrorStoreAssumption
  PROVE  ContainerSpec => [](SingleChild /\ LinesOnce /\ OccurrencesCounted) /\ NoRestartAfterStop
<1>1. Spec => []SingleChild /\ NoRestartAfterStop
  BY OneChild, StopIsFinal
<1>2. logFile!Spec => []LinesOnce
  BY LinesKeptOnce
<1>3. errorStore!Spec => []OccurrencesCounted
  BY ErrorsCounted
<1> QED BY <1>1, <1>2, <1>3, RunsEachPart, PTL
==================================================================================
