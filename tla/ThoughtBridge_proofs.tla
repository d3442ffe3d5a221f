------------------------ MODULE ThoughtBridge_proofs ------------------------
(***************************************************************************)
(* Proofs about the bridge for any set of sessions, any PruneAfter and any *)
(* number of emissions and faults: there is one daemon, only an answer     *)
(* ends a cycle well, and what may replace a stored thought.               *)
(***************************************************************************)
EXTENDS ThoughtBridge, SequenceTheorems, FiniteSetTheorems, TLAPS

Phases == {"sleep", "ensure", "stop", "spawn", "hello", "write", "read"}
Sent == {u \in [s : Sessions, d : {0, daemons}, n : 0 .. MaxSeq] : u.n = 0 => u.d = 0}
Line == [kind : {"result", "error", "junk"}, match : BOOLEAN, up : {NoUpdate} \cup Sent]

\* The client has every process that runs, and the pipes of a daemon that has
\* not said hello are empty.
Client ==
    /\ phase \in Phases /\ goal \in {"ensure", "retry", "repair"} /\ retried \in BOOLEAN
    /\ daemons \in Nat /\ daemon \in 0 .. daemons /\ spawned \in {0, daemons}
    /\ running \subseteq 1 .. daemons /\ running \subseteq {daemon, spawned}
    /\ spawned # 0 <=> phase = "hello"
    /\ phase \in {"spawn", "hello"} => daemon = 0

\* What is in the pipes was sent by the newest daemon.
Pipes ==
    /\ hung \in BOOLEAN /\ emitted \in [Sessions -> 0 .. MaxSeq] /\ faults \in 0 .. MaxFaults
    /\ requests \in Seq(BOOLEAN) /\ lines \in Seq(Line)
    /\ phase \in {"spawn", "hello"} => requests = << >> /\ lines = << >>
    /\ lines # << >> => daemons # 0

\* A stored thought that names its stream is the one of the watermark, which is
\* pruned no earlier than the history forgets the thought.
Marked ==
    /\ known \subseteq Sessions
    /\ watermark \in [Sessions -> Marks] /\ text \in [Sessions -> Marks]
    /\ absences \in [Sessions -> 0 .. PruneAfter] /\ gone \in [Sessions -> 0 .. PruneAfter]
    /\ \A s \in Sessions :
          /\ absences[s] <= gone[s]
          /\ s \notin known => watermark[s] = NoMark
          /\ text[s].d = 0 \/ text[s] = watermark[s]

Health ==
    /\ failures \in 0 .. 3 /\ stale \in BOOLEAN /\ fenced \in BOOLEAN
    /\ status \in {"starting", "ready", "degraded", "unhealthy"}

Inv == Client /\ Pipes /\ Marked /\ Health

-----------------------------------------------------------------------------
(* Health and failures. *)

LEMMA RecordTypes ==
    ASSUME Health, RecordFailure \/ RecordSuccess
    PROVE  Health' /\ (RecordFailure => status' # "ready")
<1>1. CASE RecordSuccess
  <2>1. failures' = 0 /\ status' = "ready" BY <1>1 DEF RecordSuccess
  <2>2. stale' \in BOOLEAN /\ fenced' \in BOOLEAN BY <1>1, Zenon DEF RecordSuccess
  <2>3. ~ RecordFailure
    <3>1. RecordFailure => status' # "ready" BY DEF RecordFailure
    <3> QED BY <2>1, <3>1
  <2> QED BY <2>1, <2>2, <2>3 DEF Health
<1>2. CASE RecordFailure
  <2>1. failures' \in 0 .. 3 BY <1>2 DEF RecordFailure, Health
  <2>2. stale' \in BOOLEAN /\ fenced' \in BOOLEAN
    <3>1. stale \in BOOLEAN /\ fenced \in BOOLEAN BY DEF Health
    <3>2. stale' \in {stale, TRUE} BY <1>2 DEF RecordFailure
    <3>3. UNCHANGED fenced \/ fenced' = TRUE BY <1>2, Zenon DEF RecordFailure
    <3> QED BY <3>1, <3>2, <3>3, Zenon
  <2>3. status' \in {"unhealthy", "degraded"} BY <1>2 DEF RecordFailure
  <2> QED BY <2>1, <2>2, <2>3 DEF Health
<1> QED BY <1>1, <1>2

\* An error ends the cycle or restarts the daemon, and never makes the bridge ready.
LEMMA FailTypes ==
    ASSUME Health, NEW a \in BOOLEAN, NEW b \in BOOLEAN, Fail(a, b), retried \in BOOLEAN,
           goal \in {"ensure", "retry", "repair"}
    PROVE  /\ Health' /\ phase' \in {"stop", "sleep"} /\ goal' \in {"ensure", "retry", "repair"}
           /\ retried' \in BOOLEAN
           /\ phase' = "sleep" => status' # "ready"
<1>1. CASE goal # "repair" /\ ~retried /\ a
  <2>1. retried' = TRUE /\ goal' = "retry" /\ phase' = "stop" /\ UNCHANGED healthVars
    BY <1>1, Zenon DEF Fail
  <2>2. retried' \in BOOLEAN BY <2>1, Zenon
  <2> QED BY <2>1, <2>2 DEF Health, healthVars
<1>2. CASE ~ (goal # "repair" /\ ~retried /\ a) /\ goal # "repair" /\ b
  <2>1. goal' = "repair" /\ phase' = "stop" /\ UNCHANGED <<retried, healthVars>>
    BY <1>2 DEF Fail
  <2> QED BY <2>1 DEF Health, healthVars
<1>3. CASE ~ (goal # "repair" /\ ~retried /\ a) /\ ~ (goal # "repair" /\ b)
  <2>1. RecordFailure /\ phase' = "sleep" /\ goal' = "ensure" /\ UNCHANGED retried
    BY <1>3 DEF Fail
  <2> QED BY <2>1, RecordTypes
<1> QED BY <1>1, <1>2, <1>3

-----------------------------------------------------------------------------
(* The client. *)

LEMMA ClientInit == ASSUME Init PROVE Client /\ Health
<1>1. retried \in BOOLEAN /\ stale \in BOOLEAN /\ fenced \in BOOLEAN BY Zenon DEF Init
<1>2. running = {} /\ daemons = 0 /\ daemon = 0 /\ spawned = 0 BY DEF Init
<1> QED BY <1>1, <1>2 DEF Init, Client, Phases, Health

LEMMA ClientStep == ASSUME Client, Health, [Next]_vars PROVE Client' /\ Health'
<1> USE DEF Phases, clientVars, daemonVars, healthVars
<1>1. CASE StartCycle BY <1>1 DEF StartCycle, Client, Health
<1>2. CASE Ensure BY <1>2 DEF Ensure, Client, Health
<1>3. CASE Stop BY <1>3 DEF Stop, Client, Health
<1>4. CASE Spawn
  <2>1. running = {} /\ daemon = 0 BY <1>4 DEF Spawn, Client
  <2>2. daemons' \in Nat \ {0} /\ running' = {daemons'} /\ spawned' = daemons'
    BY <1>4, <2>1 DEF Spawn, Client
  <2> QED BY <1>4, <2>1, <2>2 DEF Spawn, Client, Health
<1>5. CASE SpawnFails
  <2>1. Fail(FALSE, FALSE) BY <1>5 DEF SpawnFails
  <2>2. /\ Health' /\ phase' \in {"stop", "sleep"} /\ goal' \in {"ensure", "retry", "repair"}
        /\ retried' \in BOOLEAN
    BY <2>1, FailTypes DEF Client
  <2> QED BY <1>5, <2>2 DEF SpawnFails, Client
<1>6. CASE Hello
  <2>1. spawned # 0 /\ daemon = 0 /\ running \subseteq {spawned} BY <1>6 DEF Hello, Client
  <2>2. phase' \in {"sleep", "ensure", "write"} /\ goal' \in {"ensure", "retry", "repair"}
    BY <1>6 DEF Hello, Client
  <2>3. Health' BY <1>6, RecordTypes DEF Hello, Health
  <2> QED BY <1>6, <2>1, <2>2, <2>3 DEF Hello, Client
<1>7. CASE HelloFails
  <2>1. \E a, b \in BOOLEAN : Fail(a, b) BY <1>7, Zenon DEF HelloFails
  <2>2. /\ Health' /\ phase' \in {"stop", "sleep"} /\ goal' \in {"ensure", "retry", "repair"}
        /\ retried' \in BOOLEAN
    BY <2>1, FailTypes DEF Client
  <2>3. daemon = 0 BY <1>7 DEF HelloFails, Client
  <2> QED BY <1>7, <2>2, <2>3 DEF HelloFails, DropSpawned, Client
<1>8. CASE Write BY <1>8 DEF Write, Client, Health
<1>9. CASE WriteFails \/ Eof \/ ResponseTimeout
  <2>1. Fail(TRUE, FALSE) BY <1>9 DEF WriteFails, Eof, ResponseTimeout
  <2>2. /\ Health' /\ phase' \in {"stop", "sleep"} /\ goal' \in {"ensure", "retry", "repair"}
        /\ retried' \in BOOLEAN
    BY <2>1, FailTypes DEF Client
  <2>3. UNCHANGED <<daemon, spawned, running, daemons>> /\ phase \in {"write", "read"}
    BY <1>9 DEF WriteFails, Eof, ResponseTimeout
  <2> QED BY <2>2, <2>3 DEF Client
<1>10. CASE Read
  <2>1. UNCHANGED <<daemon, spawned, running, daemons>> /\ phase = "read"
    BY <1>10 DEF Read
  <2>2. CASE IsAnswer(Head(lines))
    <3>1. RecordSuccess /\ phase' = "sleep" /\ UNCHANGED <<goal, retried>>
      BY <1>10, <2>2 DEF Read
    <3>2. Health' BY <3>1, RecordTypes
    <3> QED BY <2>1, <3>1, <3>2 DEF Client
  <2>3. CASE ~ IsAnswer(Head(lines))
    <3>1. Fail(FALSE, FALSE) \/ Fail(TRUE, TRUE) BY <1>10, <2>3 DEF Read
    <3>2. /\ Health' /\ phase' \in {"stop", "sleep"} /\ goal' \in {"ensure", "retry", "repair"}
          /\ retried' \in BOOLEAN
      BY <3>1, FailTypes DEF Client
    <3> QED BY <2>1, <3>2 DEF Client
  <2> QED BY <2>2, <2>3
<1>11. CASE SyncTimeout
  BY <1>11 DEF SyncTimeout, DropSpawned, Client, Health
<1>12. CASE Answer \/ AnswerError \/ Chatter \/ Hangs
  <2>1. UNCHANGED <<clientVars, running, daemons, healthVars>>
    BY <1>12 DEF Answer, AnswerError, Chatter, Hangs
  <2> QED BY <2>1 DEF Client, Health
<1>13. CASE Dies
  <2>1. UNCHANGED <<clientVars, daemons, healthVars>> /\ running' \subseteq running
    BY <1>13 DEF Dies
  <2> QED BY <2>1 DEF Client, Health
<1>14. CASE UNCHANGED vars BY <1>14 DEF vars, Client, Health
<1> QED BY <1>1, <1>2, <1>3, <1>4, <1>5, <1>6, <1>7, <1>8, <1>9, <1>10, <1>11, <1>12, <1>13, <1>14
      DEF Next, BridgeStep

(***************************************************************************)
(* There is never a second daemon: stop_current_daemon and kill_on_drop of *)
(* EmitterClient under every order of failures, retries and time-outs.     *)
(***************************************************************************)
THEOREM DaemonIsAlone == Spec => []OneDaemon
<1>1. Init => Client /\ Health BY ClientInit
<1>2. Client /\ Health /\ [Next]_vars => Client' /\ Health' BY ClientStep
<1>3. ASSUME Client PROVE OneDaemon
  <2>1. running \subseteq {daemon} \/ running \subseteq {spawned} BY <1>3 DEF Client
  <2>2. running = {} \/ \E x \in running : running = {x} BY <2>1
  <2>3. Cardinality(running) <= 1 BY <2>2, FS_EmptySet, FS_Singleton
  <2> QED BY <1>3, <2>3 DEF Client, OneDaemon
<1> QED BY <1>1, <1>2, <1>3, PTL DEF Spec

(***************************************************************************)
(* A cycle succeeds by nothing but the answer to the request it wrote last:*)
(* the check of the request id in next_sync_response_once.                 *)
(***************************************************************************)
THEOREM SuccessIsAnswered == Spec => OnlyAnswersSucceed
<1>1. Init => Client /\ Health BY ClientInit
<1>2. Client /\ Health /\ [Next]_vars => Client' /\ Health' BY ClientStep
<1>3. ASSUME Client, Health, [Next]_vars, status' = "ready", phase = "read", phase' = "sleep"
      PROVE  Head(lines).match
  <2>1. ASSUME NEW a \in BOOLEAN, NEW b \in BOOLEAN, Fail(a, b) PROVE FALSE
    BY <1>3, <2>1, FailTypes DEF Client
  <2>2. CASE Read
    <3>1. CASE IsAnswer(Head(lines)) BY <3>1 DEF IsAnswer
    <3>2. CASE ~ IsAnswer(Head(lines))
      <4>1. Fail(FALSE, FALSE) \/ Fail(TRUE, TRUE) BY <2>2, <3>2 DEF Read
      <4> QED BY <2>1, <4>1
    <3> QED BY <3>1, <3>2
  <2>3. CASE Eof \/ ResponseTimeout
    <3>1. Fail(TRUE, FALSE) BY <2>3 DEF Eof, ResponseTimeout
    <3> QED BY <2>1, <3>1
  <2>4. CASE SyncTimeout BY <1>3, <2>4 DEF SyncTimeout
  <2>5. CASE \/ StartCycle \/ Ensure \/ Stop \/ Spawn \/ SpawnFails \/ Hello \/ HelloFails
             \/ Write \/ WriteFails
    BY <1>3, <2>5 DEF StartCycle, Ensure, Stop, Spawn, SpawnFails, Hello, HelloFails, Write,
                      WriteFails
  <2>6. CASE Answer \/ AnswerError \/ Chatter \/ Hangs \/ Dies \/ UNCHANGED vars
    BY <1>3, <2>6 DEF Answer, AnswerError, Chatter, Hangs, Dies, vars, clientVars
  <2> QED BY <1>3, <2>2, <2>3, <2>4, <2>5, <2>6 DEF Next, BridgeStep
<1>4. Client /\ Health /\ [Next]_vars =>
        [status' = "ready" /\ phase = "read" /\ phase' = "sleep" => Head(lines).match]_vars
  BY <1>3
<1> QED BY <1>1, <1>2, <1>4, PTL DEF Spec, OnlyAnswersSucceed

-----------------------------------------------------------------------------
(* The pipes. *)

LEMMA PipesInit == ASSUME Init PROVE Pipes
<1>1. hung \in BOOLEAN BY Zenon DEF Init
<1>2. requests = << >> /\ lines = << >> /\ faults = 0 BY DEF Init
<1>3. emitted \in [Sessions -> 0 .. MaxSeq] BY BridgeAssumption DEF Init, BridgeAssumption
<1> QED BY <1>1, <1>2, <1>3, EmptySeq, BridgeAssumption DEF Pipes, BridgeAssumption

LEMMA UpdatesAreSent ==
    ASSUME Client, Pipes, Speaks, NEW more \in Nat, NEW up \in Updates(more)
    PROVE  up \in {NoUpdate} \cup Sent
<1>1. CASE up = NoUpdate BY <1>1
<1>2. CASE up # NoUpdate
  <2>1. PICK s \in Sessions :
          up \in {u \in [s : {s}, d : {0, daemons}, n : 0 .. emitted[s] + more] :
                    u.n <= MaxSeq /\ (u.n = 0 => u.d = 0)}
    BY <1>2 DEF Updates
  <2>2. up \in [s : {s}, d : {0, daemons}, n : 0 .. emitted[s] + more] /\ up.n <= MaxSeq
    BY <2>1
  <2>3. up.n \in 0 .. MaxSeq
    <3>1. emitted[s] \in Nat /\ MaxSeq \in Nat
      BY BridgeAssumption DEF Pipes, BridgeAssumption
    <3> QED BY <2>2, <3>1
  <2>4. up = [s |-> up.s, d |-> up.d, n |-> up.n] /\ up.s \in Sessions /\ up.d \in {0, daemons}
    BY <2>2
  <2>5. up.n = 0 => up.d = 0 BY <2>1
  <2> QED BY <2>3, <2>4, <2>5 DEF Sent
<1> QED BY <1>1, <1>2

\* A daemon that speaks has a client that has taken its hello, or no request.
LEMMA SpeaksWhen ==
    ASSUME Client, Pipes, Speaks
    PROVE  daemons # 0 /\ phase # "spawn" /\ (phase = "hello" => requests = << >>)
BY DEF Client, Pipes, Speaks

\* A line that the newest daemon adds.
LEMMA SaidIsALine ==
    ASSUME Client, Pipes, Speaks, NEW line \in Line, lines' = Append(lines, line),
           UNCHANGED daemons
    PROVE  lines' \in Seq(Line') /\ (lines' # << >> => daemons' # 0)
<1>1. Line' = Line BY DEF Line, Sent
<1>2. lines' \in Seq(Line) BY DEF Pipes
<1> QED BY <1>1, <1>2, SpeaksWhen

LEMMA PipesStep == ASSUME Client, Pipes, Health, [Next]_vars PROVE Pipes'
<1> USE DEF clientVars, daemonVars
<1>0. Client' BY ClientStep
<1>1. ASSUME UNCHANGED <<hung, emitted, requests, lines, daemons>>,
             faults' \in 0 .. MaxFaults, phase' \notin {"spawn", "hello"}
      PROVE  Pipes'
  <2>1. Line' = Line BY <1>1 DEF Line, Sent
  <2> QED BY <1>1, <2>1 DEF Pipes
<1>2. faults' = faults => faults' \in 0 .. MaxFaults BY DEF Pipes
<1>3. Fault => faults' \in 0 .. MaxFaults BY BridgeAssumption DEF Pipes, Fault, BridgeAssumption
<1>4. \A a, b \in BOOLEAN : Fail(a, b) => phase' \in {"stop", "sleep"}
  BY FailTypes DEF Client
<1>5. CASE StartCycle \/ Ensure
  BY <1>1, <1>2, <1>5 DEF StartCycle, Ensure
<1>6. CASE Stop
  <2>1. lines' = << >> /\ requests' = << >> /\ UNCHANGED <<hung, emitted, faults>>
    BY <1>6 DEF Stop
  <2> QED BY <2>1, EmptySeq DEF Pipes
<1>7. CASE Spawn
  <2>1. lines' = << >> /\ requests' = << >> /\ UNCHANGED faults
    BY <1>7 DEF Spawn, Pipes
  <2>2. hung' \in BOOLEAN BY <1>7, Zenon DEF Spawn
  <2>3. emitted' \in [Sessions -> 0 .. MaxSeq]
    BY <1>7, BridgeAssumption DEF Spawn, BridgeAssumption
  <2> QED BY <2>1, <2>2, <2>3, EmptySeq DEF Pipes
<1>8. CASE SpawnFails
  <2>1. Fault /\ Fail(FALSE, FALSE) /\ UNCHANGED daemonVars BY <1>8 DEF SpawnFails
  <2> QED BY <1>1, <1>3, <1>4, <2>1
<1>9. CASE Hello
  <2>1. UNCHANGED <<hung, emitted, requests, lines, daemons, faults>> BY <1>9 DEF Hello
  <2>2. phase' \in {"sleep", "ensure", "write"} BY <1>9 DEF Hello
  <2> QED BY <1>1, <1>2, <2>1, <2>2
<1>10. CASE HelloFails
  <2>1. UNCHANGED <<hung, emitted, requests, lines, daemons>> BY <1>10 DEF HelloFails
  <2>2. Fail(TRUE, FALSE) \/ Fail(FALSE, FALSE) BY <1>10 DEF HelloFails
  <2>3. faults' = faults \/ Fault BY <1>10 DEF HelloFails
  <2> QED BY <1>1, <1>2, <1>3, <1>4, <2>1, <2>2, <2>3
<1>11. CASE Write
  <2>1. /\ requests' = Append([i \in DOMAIN requests |-> FALSE], TRUE)
        /\ lines' = [i \in DOMAIN lines |-> [lines[i] EXCEPT !.match = FALSE]]
        /\ phase' = "read" /\ UNCHANGED <<hung, emitted, daemons, faults>>
    BY <1>11 DEF Write
  <2>2. Line' = Line BY <2>1 DEF Line, Sent
  <2>3. requests' \in Seq(BOOLEAN)
    <3>1. requests \in Seq(BOOLEAN) BY DEF Pipes
    <3>2. Len(requests) \in Nat /\ DOMAIN requests = 1 .. Len(requests)
      BY <3>1, LenProperties
    <3>3. [i \in 1 .. Len(requests) |-> FALSE] \in [1 .. Len(requests) -> BOOLEAN] BY Zenon
    <3>4. [i \in 1 .. Len(requests) |-> FALSE] \in Seq(BOOLEAN) BY <3>2, <3>3, SeqDef
    <3>5. PICK old \in Seq(BOOLEAN) : old = [i \in DOMAIN requests |-> FALSE]
      BY <3>2, <3>4
    <3> QED BY <2>1, <3>5, AppendProperties
  <2>4. lines \in Seq(Line) BY DEF Pipes
  <2>5. Len(lines) \in Nat /\ DOMAIN lines = 1 .. Len(lines)
        /\ lines \in [1 .. Len(lines) -> Line]
    BY <2>4, LenProperties
  <2>6. \A i \in 1 .. Len(lines) : [lines[i] EXCEPT !.match = FALSE] \in Line
    <3> TAKE i \in 1 .. Len(lines)
    <3>1. PICK line \in Line : line = lines[i] BY <2>5
    <3>2. [line EXCEPT !.match = FALSE] \in Line BY DEF Line
    <3> QED BY <3>1, <3>2
  <2>7. [i \in 1 .. Len(lines) |-> [lines[i] EXCEPT !.match = FALSE]] \in [1 .. Len(lines) -> Line]
    BY <2>6
  <2>8. lines' \in Seq(Line) BY <2>1, <2>5, <2>7, SeqDef
  <2>9. lines' # << >> => lines # << >>
    <3>1. lines = << >> => DOMAIN lines = {} OBVIOUS
    <3>2. DOMAIN lines = {} => lines' = [i \in {} |-> 0] BY <2>1
    <3> QED BY <3>1, <3>2
  <2> QED BY <2>1, <2>2, <2>3, <2>8, <2>9 DEF Pipes
<1>12. CASE WriteFails \/ Eof \/ ResponseTimeout
  <2>1. UNCHANGED daemonVars /\ Fail(TRUE, FALSE)
    BY <1>12 DEF WriteFails, Eof, ResponseTimeout
  <2>2. faults' = faults \/ Fault BY <1>12 DEF WriteFails, Eof, ResponseTimeout, Late
  <2> QED BY <1>1, <1>2, <1>3, <1>4, <2>1, <2>2
<1>13. CASE Read
  <2>1. /\ lines # << >> /\ lines' = Tail(lines)
        /\ UNCHANGED <<hung, emitted, requests, daemons, faults>>
    BY <1>13 DEF Read
  <2>2. phase' \in {"stop", "sleep"}
    <3>1. phase' = "sleep" \/ Fail(FALSE, FALSE) \/ Fail(TRUE, TRUE) BY <1>13 DEF Read
    <3> QED BY <1>4, <3>1
  <2>3. lines' \in Seq(Line) BY <2>1, HeadTailProperties DEF Pipes
  <2>4. Line' = Line BY <2>1 DEF Line, Sent
  <2> QED BY <2>1, <2>2, <2>3, <2>4 DEF Pipes
<1>14. CASE SyncTimeout
  <2>1. UNCHANGED <<hung, emitted, requests, lines, daemons>> /\ phase' = "stop"
    BY <1>14 DEF SyncTimeout
  <2>2. faults' = faults \/ Fault BY <1>14 DEF SyncTimeout, Late
  <2> QED BY <1>1, <1>2, <1>3, <2>1, <2>2
<1>15. CASE Answer
  <2>1. PICK up \in Updates(1) :
          /\ lines' = Append(lines, Result(Head(requests), up))
          /\ emitted' = IF up = NoUpdate \/ up.n <= emitted[up.s] THEN emitted
                        ELSE [emitted EXCEPT ![up.s] = up.n]
    BY <1>15 DEF Answer
  <2>2. /\ Speaks /\ requests # << >> /\ requests' = Tail(requests)
        /\ UNCHANGED <<phase, hung, daemons, faults>>
    BY <1>15 DEF Answer
  <2>3. up \in {NoUpdate} \cup Sent BY <2>2, UpdatesAreSent
  <2>4. Head(requests) \in BOOLEAN /\ requests' \in Seq(BOOLEAN)
    BY <2>2, HeadTailProperties DEF Pipes
  <2>5. Result(Head(requests), up) \in Line BY <2>3, <2>4 DEF Result, Line
  <2>6. lines' \in Seq(Line') /\ (lines' # << >> => daemons' # 0)
    BY <2>1, <2>2, <2>5, SaidIsALine
  <2>7. emitted' \in [Sessions -> 0 .. MaxSeq]
    <3>1. up # NoUpdate => up.n \in 0 .. MaxSeq BY <2>3 DEF Sent
    <3> QED BY <2>1, <3>1 DEF Pipes
  <2> QED BY <2>2, <2>4, <2>6, <2>7, SpeaksWhen DEF Pipes
<1>16. CASE AnswerError
  <2>1. /\ Speaks /\ requests # << >> /\ requests' = Tail(requests) /\ Fault
        /\ lines' = Append(lines, Error)
        /\ UNCHANGED <<phase, hung, emitted, daemons>>
    BY <1>16 DEF AnswerError
  <2>2. requests' \in Seq(BOOLEAN) BY <2>1, HeadTailProperties DEF Pipes
  <2>3. Error \in Line BY DEF Error, Line
  <2>4. lines' \in Seq(Line') /\ (lines' # << >> => daemons' # 0) BY <2>1, <2>3, SaidIsALine
  <2> QED BY <1>3, <2>1, <2>2, <2>4, SpeaksWhen DEF Pipes
<1>17. CASE Chatter
  <2>1. /\ Speaks /\ spawned = 0 /\ Fault
        /\ UNCHANGED <<phase, hung, emitted, requests, daemons>>
    BY <1>17 DEF Chatter
  <2>2. PICK line \in {Junk, Error}
               \cup {Result(phase = "read" /\ requests = << >>, up) : up \in Updates(0)} :
          lines' = Append(lines, line)
    BY <1>17 DEF Chatter
  <2>3. line \in Line
    <3>1. CASE line \in {Junk, Error}
      <4>1. Junk \in Line BY DEF Junk, Line
      <4>2. Error \in Line BY DEF Error, Line
      <4> QED BY <3>1, <4>1, <4>2
    <3>2. CASE \E up \in Updates(0) : line = Result(phase = "read" /\ requests = << >>, up)
      <4>1. PICK up \in Updates(0) : line = Result(phase = "read" /\ requests = << >>, up)
        BY <3>2
      <4>2. up \in {NoUpdate} \cup Sent BY <2>1, UpdatesAreSent
      <4>3. (phase = "read" /\ requests = << >>) \in BOOLEAN BY Zenon
      <4>4. PICK m \in BOOLEAN : line = Result(m, up) BY <4>1, <4>3, Zenon
      <4> QED BY <4>2, <4>4 DEF Result, Line
    <3> QED BY <2>2, <3>1, <3>2
  <2>4. lines' \in Seq(Line') /\ (lines' # << >> => daemons' # 0) BY <2>1, <2>2, <2>3, SaidIsALine
  <2>5. phase # "hello" BY <2>1 DEF Client
  <2> QED BY <1>3, <2>1, <2>4, <2>5, SpeaksWhen DEF Pipes
<1>18. CASE Hangs \/ Dies
  <2>1. Fault /\ UNCHANGED <<phase, emitted, requests, lines, daemons>> BY <1>18 DEF Hangs, Dies
  <2>2. hung \in BOOLEAN BY DEF Pipes
  <2>3. hung' \in BOOLEAN BY <1>18, <2>2, Zenon DEF Hangs, Dies
  <2>4. Line' = Line BY <2>1 DEF Line, Sent
  <2> QED BY <1>3, <2>1, <2>3, <2>4 DEF Pipes
<1>19. CASE UNCHANGED vars
  <2>1. UNCHANGED <<phase, hung, emitted, requests, lines, daemons, faults>> BY <1>19 DEF vars
  <2>2. Line' = Line BY <2>1 DEF Line, Sent
  <2> QED BY <2>1, <2>2 DEF Pipes
<1> QED BY <1>5, <1>6, <1>7, <1>8, <1>9, <1>10, <1>11, <1>12, <1>13, <1>14, <1>15, <1>16, <1>17,
           <1>18, <1>19
      DEF Next, BridgeStep

-----------------------------------------------------------------------------
(* The watermarks. *)

LEMMA MarkedInit == ASSUME Init PROVE Marked
<1>1. NoMark \in Marks BY BridgeAssumption DEF Init, NoMark, Marks, BridgeAssumption
<1>2. watermark \in [Sessions -> Marks] /\ text \in [Sessions -> Marks] BY <1>1 DEF Init
<1>3. absences \in [Sessions -> 0 .. PruneAfter] /\ gone \in [Sessions -> 0 .. PruneAfter]
  BY BridgeAssumption DEF Init, BridgeAssumption
<1> QED BY <1>2, <1>3 DEF Init, Marked, NoMark

\* A session is pruned no earlier than it has been missing from PruneAfter
\* snapshots, and its thought is forgotten then.
LEMMA RetainKeeps ==
    ASSUME Client, Marked, NEW live \in SUBSET Sessions, Retain(live), UNCHANGED daemons
    PROVE  /\ Marked'
           /\ \A s \in Sessions : text'[s] = text[s] \/ gone'[s] = PruneAfter
<1> USE BridgeAssumption DEF BridgeAssumption
<1>1. NoMark \in Marks /\ Marks' = Marks BY DEF Client, NoMark, Marks
<1>2. known' \subseteq known /\ known' = Kept(live) BY DEF Retain, Kept
<1>3. gone' \in [Sessions -> 0 .. PruneAfter] BY DEF Retain, Marked
<1>4. absences' \in [Sessions -> 0 .. PruneAfter]
  <2>1. \A s \in Kept(live) : Absent(live, s) \in 0 .. PruneAfter
    BY DEF Kept, Absent, Marked
  <2> QED BY <2>1 DEF Retain
<1>5. watermark' \in [Sessions -> Marks] BY <1>1 DEF Retain, Marked
<1>6. text' \in [Sessions -> Marks]
  <2>1. \A s \in Sessions : (IF gone'[s] = PruneAfter THEN NoMark ELSE text[s]) \in Marks
    BY <1>1 DEF Marked
  <2> QED BY <2>1 DEF Retain
<1>7. ASSUME NEW s \in Sessions
      PROVE  /\ absences'[s] <= gone'[s]
             /\ s \notin known' => watermark'[s] = NoMark
             /\ text'[s].d = 0 \/ text'[s] = watermark'[s]
             /\ text'[s] = text[s] \/ gone'[s] = PruneAfter
  <2>1. absences[s] \in 0 .. PruneAfter /\ gone[s] \in 0 .. PruneAfter
        /\ absences[s] <= gone[s]
    BY DEF Marked
  <2>2. /\ s \notin known => watermark[s] = NoMark
        /\ text[s].d = 0 \/ text[s] = watermark[s]
    BY DEF Marked
  <2>3. /\ absences'[s] = IF s \in Kept(live) THEN Absent(live, s) ELSE 0
        /\ watermark'[s] = IF s \in Kept(live) THEN watermark[s] ELSE NoMark
        /\ gone'[s] = IF s \in live THEN 0 ELSE IF gone[s] < PruneAfter THEN gone[s] + 1 ELSE gone[s]
    BY DEF Retain
  <2>4. text'[s] = IF gone'[s] = PruneAfter THEN NoMark ELSE text[s] BY DEF Retain
  <2>5. NoMark.d = 0 BY DEF NoMark
  <2>6. CASE s \in Kept(live)
    <3>1. absences'[s] = Absent(live, s) /\ Absent(live, s) < PruneAfter BY <2>3, <2>6 DEF Kept
    <3>2. absences'[s] <= gone'[s] BY <2>1, <2>3, <3>1 DEF Absent
    <3>3. watermark'[s] = watermark[s] /\ s \in known' BY <1>2, <2>3, <2>6
    <3> QED BY <2>2, <2>4, <2>5, <3>2, <3>3
  <2>7. CASE s \notin Kept(live)
    <3>1. absences'[s] = 0 /\ watermark'[s] = NoMark BY <2>3, <2>7
    <3>2. gone'[s] \in 0 .. PruneAfter BY <1>3
    <3>3. text'[s].d = 0
      <4>1. CASE s \notin known BY <2>2, <2>4, <2>5, <4>1
      <4>2. CASE s \in known
        <5>1. s \notin live BY <2>7, <4>2 DEF Kept, Absent
        <5>2. ~ (absences[s] + 1 < PruneAfter) BY <2>7, <4>2, <5>1 DEF Kept, Absent
        <5>3. gone'[s] = PruneAfter BY <2>1, <2>3, <5>1, <5>2
        <5> QED BY <2>4, <2>5, <5>3
      <4> QED BY <4>1, <4>2
    <3> QED BY <2>4, <2>5, <3>1, <3>2, <3>3
  <2> QED BY <2>6, <2>7
<1>8. known' \subseteq Sessions BY <1>2 DEF Marked
<1> QED BY <1>1, <1>3, <1>4, <1>5, <1>6, <1>7, <1>8 DEF Marked

\* What the step may do to the stored thought of a session.
Advances(s) == text[s].d # 0 =>
    \/ text'[s] = text[s]
    \/ gone'[s] = PruneAfter
    \/ Newer(text'[s], text[s])
    \/ text'[s].d = 0 /\ text'[s].n > 0

\* An update that is applied is newer than a stored thought that names its stream,
\* or has a number and no stream.
LEMMA AppliedIsNewer ==
    ASSUME Client, Marked, NEW up \in {NoUpdate} \cup Sent, ApplyUpdate(up), UNCHANGED daemons
    PROVE  Marked' /\ \A s \in Sessions : Advances(s)
<1>1. Marks' = Marks BY DEF Marks
<1>2. CASE UNCHANGED markVars BY <1>1, <1>2 DEF markVars, Marked, Advances
<1>3. CASE /\ up # NoUpdate /\ Applies(watermark[up.s], up)
           /\ known' = known \cup {up.s}
           /\ text' = [text EXCEPT ![up.s] = [d |-> up.d, n |-> up.n]]
           /\ watermark' = [watermark EXCEPT ![up.s] = IF up.n = 0 THEN @ ELSE text'[up.s]]
           /\ UNCHANGED <<absences, gone>>
  <2>1. up.s \in Sessions /\ up.d \in {0, daemons} /\ up.n \in 0 .. MaxSeq /\ MaxSeq \in Nat
        /\ daemons \in Nat
    BY <1>3, BridgeAssumption DEF Sent, Client, BridgeAssumption
  <2>2. PICK mark \in Marks : mark = [d |-> up.d, n |-> up.n] /\ mark.d = up.d /\ mark.n = up.n
    <3>1. up.d \in 0 .. daemons BY <2>1
    <3>2. [d |-> up.d, n |-> up.n] \in Marks BY <2>1, <3>1 DEF Marks
    <3> QED BY <3>2
  <2>3. PICK old \in Marks : old = text[up.s] BY <2>1 DEF Marked
  <2>4. PICK wm \in Marks : wm = watermark[up.s] BY <2>1 DEF Marked
  <2>5. old.d = 0 \/ old = wm BY <2>1, <2>3, <2>4 DEF Marked
  <2>6. old.d \in 0 .. daemons /\ wm.d \in 0 .. daemons /\ old.n \in Nat /\ wm.n \in Nat
    BY DEF Marks
  <2>7. \/ mark.d = 0 /\ mark.n > 0
        \/ wm.d = 0
        \/ mark.d = wm.d /\ mark.n > wm.n
        \/ mark.d \notin {0, wm.d} /\ mark.n = 1
    BY <1>3, <2>2, <2>4 DEF Applies
  <2>8. old.d # 0 => Newer(mark, old) \/ (mark.d = 0 /\ mark.n > 0)
    BY <2>1, <2>2, <2>5, <2>6, <2>7 DEF Newer
  <2>9. text' = [text EXCEPT ![up.s] = mark] BY <1>3, <2>2
  <2>10. text' \in [Sessions -> Marks] /\ text'[up.s] = mark BY <2>1, <2>9 DEF Marked
  <2>11. watermark' = [watermark EXCEPT ![up.s] = IF mark.n = 0 THEN wm ELSE mark]
    BY <1>3, <2>2, <2>4, <2>10
  <2>12. watermark' \in [Sessions -> Marks] BY <2>1, <2>11 DEF Marked
  <2>13. mark.n = 0 => mark.d = 0 BY <1>3, <2>2 DEF Sent
  <2>14. ASSUME NEW s \in Sessions
         PROVE  /\ s \notin known' => watermark'[s] = NoMark
                /\ text'[s].d = 0 \/ text'[s] = watermark'[s]
                /\ Advances(s)
    <3>1. CASE s # up.s
      <4>1. text'[s] = text[s] /\ watermark'[s] = watermark[s]
        BY <2>9, <2>11, <3>1 DEF Marked
      <4>2. s \notin known' => s \notin known BY <1>3
      <4> QED BY <4>1, <4>2 DEF Marked, Advances
    <3>2. CASE s = up.s
      <4>1. text'[s] = mark /\ watermark'[s] = (IF mark.n = 0 THEN wm ELSE mark)
        BY <2>1, <2>10, <2>11, <3>2 DEF Marked
      <4>2. s \in known' BY <1>3, <3>2
      <4>3. Advances(s) BY <2>3, <2>8, <3>2, <4>1 DEF Advances
      <4>4. mark.d = 0 \/ mark = watermark'[s] BY <2>13, <4>1
      <4> QED BY <4>1, <4>2, <4>3, <4>4
    <3> QED BY <3>1, <3>2
  <2>15. known' \subseteq Sessions BY <1>3, <2>1 DEF Marked
  <2>16. /\ absences' \in [Sessions -> 0 .. PruneAfter] /\ gone' \in [Sessions -> 0 .. PruneAfter]
         /\ \A s \in Sessions : absences'[s] <= gone'[s]
    BY <1>3 DEF Marked
  <2> QED BY <1>1, <2>10, <2>12, <2>14, <2>15, <2>16 DEF Marked
<1> QED BY <1>2, <1>3 DEF ApplyUpdate

\* Every other step leaves the watermarks and the thoughts alone.
LEMMA MarkedStep ==
    ASSUME Client, Pipes, Marked, Health, [Next]_vars
    PROVE  Marked' /\ \A s \in Sessions : Advances(s)
<1> USE DEF daemonVars, clientVars
<1>1. ASSUME UNCHANGED markVars, daemons' \in Nat, daemons <= daemons'
      PROVE  Marked' /\ \A s \in Sessions : Advances(s)
  <2>1. Marks \subseteq Marks'
    <3>1. 0 .. daemons \subseteq 0 .. daemons' BY <1>1 DEF Client
    <3> QED BY <3>1 DEF Marks
  <2> QED BY <1>1, <2>1 DEF Marked, markVars, Advances
<1>2. daemons \in Nat /\ daemons <= daemons BY DEF Client
<1>3. CASE StartCycle
  <2>1. UNCHANGED daemons /\ \E live \in SUBSET Sessions : Retain(live) BY <1>3 DEF StartCycle
  <2> QED BY <2>1, RetainKeeps DEF Advances
<1>4. CASE Read
  <2>1. UNCHANGED daemons /\ lines # << >> BY <1>4 DEF Read
  <2>2. CASE IsAnswer(Head(lines))
    <3>1. ApplyUpdate(Head(lines).up) BY <1>4, <2>2 DEF Read
    <3>2. Head(lines) \in Line BY <2>1, HeadTailProperties DEF Pipes
    <3>3. Head(lines).up \in {NoUpdate} \cup Sent BY <3>2 DEF Line
    <3> QED BY <2>1, <3>1, <3>3, AppliedIsNewer
  <2>3. CASE ~ IsAnswer(Head(lines))
    <3>1. UNCHANGED markVars BY <1>4, <2>3 DEF Read
    <3> QED BY <1>1, <1>2, <2>1, <3>1
  <2> QED BY <2>2, <2>3
<1>5. CASE Spawn
  <2>1. UNCHANGED markVars /\ daemons' = daemons + 1 BY <1>5 DEF Spawn
  <2> QED BY <1>1, <1>2, <2>1
<1>6. CASE \/ Ensure \/ Stop \/ SpawnFails \/ Hello \/ HelloFails \/ Write \/ WriteFails \/ Eof
           \/ ResponseTimeout \/ SyncTimeout
  <2>1. UNCHANGED <<markVars, daemons>>
    BY <1>6 DEF Ensure, Stop, SpawnFails, Hello, HelloFails, Write, WriteFails, Eof,
                ResponseTimeout, SyncTimeout
  <2> QED BY <1>1, <1>2, <2>1
<1>7. CASE Answer \/ AnswerError \/ Chatter \/ Hangs \/ Dies \/ UNCHANGED vars
  <2>1. UNCHANGED <<markVars, daemons>>
    BY <1>7 DEF Answer, AnswerError, Chatter, Hangs, Dies, vars
  <2> QED BY <1>1, <1>2, <2>1
<1> QED BY <1>3, <1>4, <1>5, <1>6, <1>7 DEF Next, BridgeStep

LEMMA Invariance == Init => Inv
BY ClientInit, PipesInit, MarkedInit DEF Inv

LEMMA InvStep == Inv /\ [Next]_vars => Inv'
BY ClientStep, PipesStep, MarkedStep DEF Inv

(***************************************************************************)
(* The types of the bridge's state, for any set of sessions.               *)
(***************************************************************************)
THEOREM TypeCorrect == Spec => []TypeOK
<1>1. ASSUME Inv PROVE TypeOK
  <2>1. \A i \in DOMAIN lines : lines[i].kind \in {"result", "error", "junk"}
    <3>1. lines \in Seq(Line) BY <1>1 DEF Inv, Pipes
    <3>2. DOMAIN lines = 1 .. Len(lines) BY <3>1, LenProperties
    <3>3. \A i \in DOMAIN lines : lines[i] \in Line BY <3>1, <3>2, ElementOfSeq
    <3> QED BY <3>3 DEF Line
  <2> QED BY <1>1, <2>1 DEF Inv, Client, Phases, Pipes, Marked, Health, TypeOK
<1> QED BY <1>1, Invariance, InvStep, PTL DEF Spec

(***************************************************************************)
(* should_apply_delivery_state with retain_live_delivery_states: a stored  *)
(* thought that names its stream goes back by nothing but an update with a *)
(* number and no stream, under restarts of the daemon, repeated answers and*)
(* absences of the session.                                                *)
(***************************************************************************)
THEOREM StreamedThoughtsAdvance == Spec => StreamedThoughtsNeverGoBack
<1>1. Inv /\ [Next]_vars => [\A s \in Sessions : Advances(s)]_vars
  BY MarkedStep DEF Inv
<1> QED BY <1>1, Invariance, InvStep, PTL DEF Spec, StreamedThoughtsNeverGoBack, Advances
=============================================================================
