---------------------------- MODULE ThoughtBridge ----------------------------
(***************************************************************************)
(* The bridge to the thought daemon (src/thought/bridge_runner.rs,         *)
(* src/thought/emitter_client.rs, src/thought/health.rs).  The bridge task *)
(* runs a cycle per tick: it prunes the watermarks of sessions that are    *)
(* gone, sends one request to `clawgs emit --stdio`, reads one line, and   *)
(* applies its update or backs off.  The client restarts the daemon and    *)
(* tries once more when the line cannot be the answer; the whole exchange  *)
(* may be cut off at any await by the timeout of the cycle, which restarts *)
(* the daemon again.                                                       *)
(*                                                                         *)
(* A daemon is known by its number, which is also its stream.  Request ids *)
(* are never reused, so a line only has to tell whether it answers the     *)
(* request that was written last.  A response carries at most one update;  *)
(* both its stream and its number are optional.                            *)
(***************************************************************************)
EXTENDS Naturals, Sequences, FiniteSets

CONSTANTS
    Sessions,
    PruneAfter,   \* PRUNE_AFTER_ABSENT_TICKS
    MaxSeq,       \* bound on the emissions of a daemon for one session
    MaxFaults     \* bound on daemon faults, late answers and failed spawns

ASSUME BridgeAssumption ==
    /\ IsFiniteSet(Sessions)
    /\ PruneAfter \in Nat \ {0}
    /\ MaxSeq \in Nat /\ MaxFaults \in Nat

VARIABLES
    phase,        \* where the cycle is
    goal,         \* what a restart is for: "ensure", "retry" or "repair"
    retried,      \* the request of this cycle is the second one
    daemon,       \* EmitterClient::daemon, 0 if None
    spawned,      \* a daemon whose hello is awaited, 0 if none
    running,      \* daemons whose process has not been killed nor ended
    hung,         \* the newest daemon has stopped answering
    requests,     \* requests in its stdin: does each match the last one written
    lines,        \* lines in its stdout
    emitted,      \* its emissions for each session
    daemons,      \* daemons spawned so far
    faults,       \* faults so far
    known,        \* the sessions delivery_states has an entry of
    watermark,    \* their stream, 0 if None, and sequence
    absences,     \* delivery_absences
    failures,     \* consecutive_failures, up to 3
    stale,        \* the last success is longer ago than unhealthy_after
    status,       \* BridgeStatus; "ready" is healthy or degraded by its backend
    fenced,       \* shutdown_reason is set
    text,         \* history: stream and sequence of the thought stored last
    gone          \* history: snapshots in a row without the session

clientVars == <<phase, goal, retried, daemon, spawned>>
daemonVars == <<running, hung, requests, lines, emitted, daemons>>
markVars == <<known, watermark, absences, text, gone>>
healthVars == <<failures, stale, status, fenced>>
vars == <<clientVars, daemonVars, faults, markVars, healthVars>>

NoMark == [d |-> 0, n |-> 0]
NoUpdate == [s |-> "none", d |-> 0, n |-> 0]
Junk == [kind |-> "junk", match |-> FALSE, up |-> NoUpdate]
Error == [kind |-> "error", match |-> FALSE, up |-> NoUpdate]
Result(match, up) == [kind |-> "result", match |-> match, up |-> up]

Init ==
    /\ phase = "sleep" /\ goal = "ensure" /\ retried = FALSE
    /\ daemon = 0 /\ spawned = 0
    /\ running = {} /\ hung = FALSE /\ requests = << >> /\ lines = << >>
    /\ emitted = [s \in Sessions |-> 0] /\ daemons = 0 /\ faults = 0
    /\ known = {} /\ watermark = [s \in Sessions |-> NoMark]
    /\ absences = [s \in Sessions |-> 0]
    /\ failures = 0 /\ stale = FALSE /\ status = "starting" /\ fenced = FALSE
    /\ text = [s \in Sessions |-> NoMark] /\ gone = [s \in Sessions |-> 0]

-----------------------------------------------------------------------------
(* Health *)

\* mutant: the fence stays
RecordSuccessFenced ==
    failures' = 0 /\ stale' = FALSE /\ status' = "ready" /\ UNCHANGED fenced

RecordSuccess ==
    /\ failures' = 0
    /\ stale' = FALSE
    /\ status' = "ready"
    /\ fenced' = FALSE

\* The fence needs a bridge that has been unhealthy for a while.
RecordFailure ==
    /\ failures' = IF failures < 3 THEN failures + 1 ELSE failures
    /\ stale' \in {stale, TRUE}
    /\ status' = IF failures' = 3 \/ stale' THEN "unhealthy" ELSE "degraded"
    /\ \/ UNCHANGED fenced
       \/ status = "unhealthy" /\ fenced' = TRUE

-----------------------------------------------------------------------------
(* The watermarks *)

Absent(live, s) == IF s \in live THEN 0 ELSE absences[s] + 1

KeptLive(live) == known \cap live   \* mutant: pruned at the first absence

\* retain_live_delivery_states.
Kept(live) == {s \in known : Absent(live, s) < PruneAfter}

Retain(live) ==
    /\ known' = Kept(live)
    /\ absences' = [s \in Sessions |-> IF s \in Kept(live) THEN Absent(live, s) ELSE 0]
    /\ watermark' = [s \in Sessions |-> IF s \in Kept(live) THEN watermark[s] ELSE NoMark]
    /\ gone' = [s \in Sessions |->
                  IF s \in live THEN 0 ELSE IF gone[s] < PruneAfter THEN gone[s] + 1 ELSE gone[s]]
    /\ text' = [s \in Sessions |-> IF gone'[s] = PruneAfter THEN NoMark ELSE text[s]]

\* should_apply_delivery_state.  An update without a number comes as <<0, 0>>, since
\* its stream counts for nothing; one with a number but without a stream as <<0, n>>.
Applies(current, up) ==
    \/ up.d = 0 /\ up.n > 0
    \/ current.d = 0
    \/ up.d = current.d /\ up.n > current.n
    \/ up.d \notin {0, current.d} /\ up.n = 1

\* apply_update: persist_thought may turn the update away, which leaves the
\* watermark where it is.
ApplyUpdate(up) ==
    IF up # NoUpdate /\ Applies(watermark[up.s], up)
    THEN \/ UNCHANGED markVars
         \/ /\ known' = known \cup {up.s}
            /\ text' = [text EXCEPT ![up.s] = [d |-> up.d, n |-> up.n]]
            /\ watermark' = [watermark EXCEPT ![up.s] = IF up.n = 0 THEN @ ELSE text'[up.s]]
            /\ UNCHANGED <<absences, gone>>
    ELSE UNCHANGED markVars

-----------------------------------------------------------------------------
(* The cycle *)

StartCycle ==
    /\ phase = "sleep"
    /\ \E live \in SUBSET Sessions : Retain(live)
    /\ phase' = "ensure"
    /\ retried' = FALSE
    /\ UNCHANGED <<goal, daemon, spawned, daemonVars, faults, healthVars>>

\* ensure_running.
Ensure ==
    /\ phase = "ensure"
    /\ IF daemon \in running
       THEN phase' = "write" /\ UNCHANGED goal
       ELSE phase' = "stop" /\ goal' = "ensure"
    /\ UNCHANGED <<retried, daemon, spawned, daemonVars, faults, markVars, healthVars>>

\* stop_current_daemon: the pipes go with the handle.
Stop ==
    /\ phase = "stop"
    /\ running' = running \ {daemon}
    /\ daemon' = 0
    /\ requests' = << >> /\ lines' = << >>
    /\ phase' = "spawn"
    /\ UNCHANGED <<goal, retried, spawned, hung, emitted, daemons, faults, markVars, healthVars>>

Spawn ==
    /\ phase = "spawn"
    /\ daemons' = daemons + 1
    /\ spawned' = daemons'
    /\ running' = running \cup {daemons'}
    /\ hung' = FALSE
    /\ emitted' = [s \in Sessions |-> 0]
    /\ phase' = "hello"
    /\ UNCHANGED <<goal, retried, daemon, requests, lines, faults, markVars, healthVars>>

\* An error of next_sync_response_once or of a restart.  A first one that is
\* retryable restarts the daemon; one that leaves the daemon's output out of
\* step restarts it before the next cycle; a restart after that reports nothing.
Fail(retryable, desync) ==
    IF goal # "repair" /\ ~retried /\ retryable
    THEN /\ retried' = TRUE /\ goal' = "retry" /\ phase' = "stop"
         /\ UNCHANGED healthVars
    ELSE IF goal # "repair" /\ desync
    THEN /\ goal' = "repair" /\ phase' = "stop"
         /\ UNCHANGED <<retried, healthVars>>
    ELSE /\ RecordFailure
         /\ phase' = "sleep" /\ goal' = "ensure"
         /\ UNCHANGED retried

Fault == faults < MaxFaults /\ faults' = faults + 1

SpawnFails ==
    /\ phase = "spawn"
    /\ Fault
    /\ Fail(FALSE, FALSE)
    /\ UNCHANGED <<daemon, spawned, daemonVars, markVars>>

\* The hello.  The daemon of a repair is kept for the next cycle, a second try
\* checks again that it runs.
Hello ==
    /\ phase = "hello"
    /\ spawned \in running /\ ~hung
    /\ daemon' = spawned /\ spawned' = 0
    /\ IF goal = "repair"
       THEN RecordFailure /\ phase' = "sleep" /\ goal' = "ensure"
       ELSE /\ phase' = IF goal = "retry" THEN "ensure" ELSE "write"
            /\ UNCHANGED <<goal, healthVars>>
    /\ UNCHANGED <<retried, daemonVars, faults, markVars>>

DropSpawnedAlive == spawned' = 0 /\ UNCHANGED running   \* mutant: no kill_on_drop

\* The handle that is dropped kills the process (kill_on_drop).
DropSpawned == running' = running \ {spawned} /\ spawned' = 0

\* End of file or no hello in time, or a hello of another protocol.
HelloFails ==
    /\ phase = "hello"
    /\ \/ /\ spawned \notin running \/ hung
          /\ Fail(TRUE, FALSE)
          /\ UNCHANGED faults
       \/ Fault /\ Fail(FALSE, FALSE)
    /\ DropSpawned
    /\ UNCHANGED <<daemon, hung, requests, lines, emitted, daemons, markVars>>

Write ==
    /\ phase = "write"
    /\ daemon \in running
    /\ requests' = Append([i \in DOMAIN requests |-> FALSE], TRUE)
    /\ lines' = [i \in DOMAIN lines |-> [lines[i] EXCEPT !.match = FALSE]]
    /\ phase' = "read"
    /\ goal' = "ensure"
    /\ UNCHANGED <<retried, daemon, spawned, running, hung, emitted, daemons, faults,
                   markVars, healthVars>>

WriteFails ==
    /\ phase = "write"
    /\ daemon \notin running
    /\ Fail(TRUE, FALSE)
    /\ UNCHANGED <<daemon, spawned, daemonVars, faults, markVars>>

IsAnswerUnchecked(line) == line.kind = "result"   \* mutant: the id is not compared

\* parse_sync_response_line and the check of the request id.
IsAnswer(line) == line.kind = "result" /\ line.match

Read ==
    /\ phase = "read"
    /\ lines # << >>
    /\ lines' = Tail(lines)
    /\ IF IsAnswer(Head(lines))
       THEN /\ ApplyUpdate(Head(lines).up)
            /\ RecordSuccess
            /\ phase' = "sleep"
            /\ UNCHANGED <<goal, retried>>
       ELSE /\ IF Head(lines).kind = "error" THEN Fail(FALSE, FALSE) ELSE Fail(TRUE, TRUE)
            /\ UNCHANGED markVars
    /\ UNCHANGED <<daemon, spawned, running, hung, requests, emitted, daemons, faults>>

Eof ==
    /\ phase = "read"
    /\ lines = << >> /\ daemon \notin running
    /\ Fail(TRUE, FALSE)
    /\ UNCHANGED <<daemon, spawned, daemonVars, faults, markVars>>

\* A daemon that is slow rather than hung is a fault as well.
Late ==
    \/ hung /\ UNCHANGED faults
    \/ ~hung /\ Fault

\* EMIT_RESPONSE_TIMEOUT, of the write and of the read.
ResponseTimeout ==
    /\ phase \in {"write", "read"}
    /\ Late
    /\ Fail(TRUE, FALSE)
    /\ UNCHANGED <<daemon, spawned, daemonVars, markVars>>

\* sync_timeout drops next_sync_response at whatever it awaits.
SyncTimeout ==
    /\ phase \in {"spawn", "hello", "write", "read"}
    /\ goal # "repair"
    /\ Late
    /\ DropSpawned
    /\ goal' = "repair" /\ phase' = "stop"
    /\ UNCHANGED <<retried, daemon, hung, requests, lines, emitted, daemons, markVars, healthVars>>

-----------------------------------------------------------------------------
(* The daemon *)

Speaks == daemons \in running /\ ~hung

\* The updates it may send: those sent before and `more` new ones of a session,
\* with or without the stream, and one without a number.
Updates(more) ==
    {NoUpdate} \cup
    UNION {{u \in [s : {s}, d : {0, daemons}, n : 0 .. emitted[s] + more] :
              u.n <= MaxSeq /\ (u.n = 0 => u.d = 0)} : s \in Sessions}

Answer ==
    /\ Speaks
    /\ requests # << >>
    /\ \E up \in Updates(1) :
          /\ lines' = Append(lines, Result(Head(requests), up))
          /\ emitted' = IF up = NoUpdate \/ up.n <= emitted[up.s] THEN emitted
                        ELSE [emitted EXCEPT ![up.s] = up.n]
    /\ requests' = Tail(requests)
    /\ UNCHANGED <<clientVars, running, hung, daemons, faults, markVars, healthVars>>

AnswerError ==
    /\ Speaks
    /\ requests # << >>
    /\ Fault
    /\ lines' = Append(lines, Error)
    /\ requests' = Tail(requests)
    /\ UNCHANGED <<clientVars, running, hung, emitted, daemons, markVars, healthVars>>

\* A line nobody asked for, the last answer a second time among them.
Chatter ==
    /\ Speaks /\ spawned = 0
    /\ Fault
    /\ \E line \in {Junk, Error}
                   \cup {Result(phase = "read" /\ requests = << >>, up) : up \in Updates(0)} :
          lines' = Append(lines, line)
    /\ UNCHANGED <<clientVars, running, hung, requests, emitted, daemons, markVars, healthVars>>

Hangs ==
    /\ Speaks
    /\ Fault
    /\ hung' = TRUE
    /\ UNCHANGED <<clientVars, running, requests, lines, emitted, daemons, markVars, healthVars>>

Dies ==
    /\ daemons \in running
    /\ Fault
    /\ running' = running \ {daemons}
    /\ UNCHANGED <<clientVars, hung, requests, lines, emitted, daemons, markVars, healthVars>>

BridgeStep ==
    \/ StartCycle \/ Ensure \/ Stop \/ Spawn \/ Hello
    \/ HelloFails \/ Write \/ WriteFails \/ Read \/ Eof
    \/ ResponseTimeout \/ SyncTimeout

Next ==
    \/ BridgeStep \/ SpawnFails
    \/ Answer \/ AnswerError \/ Chatter \/ Hangs \/ Dies

(* The task is polled and its timers fire; a daemon that is neither hung    *)
(* nor dead answers.                                                        *)
Spec == Init /\ [][Next]_vars /\ WF_vars(BridgeStep) /\ WF_vars(Answer)

-----------------------------------------------------------------------------
Marks == [d : 0 .. daemons, n : 0 .. MaxSeq]

TypeOK ==
    /\ phase \in {"sleep", "ensure", "stop", "spawn", "hello", "write", "read"}
    /\ goal \in {"ensure", "retry", "repair"} /\ retried \in BOOLEAN
    /\ daemon \in 0 .. daemons /\ spawned \in {0, daemons}
    /\ running \subseteq 1 .. daemons /\ hung \in BOOLEAN
    /\ requests \in Seq(BOOLEAN)
    /\ \A i \in DOMAIN lines : lines[i].kind \in {"result", "error", "junk"}
    /\ emitted \in [Sessions -> 0 .. MaxSeq] /\ faults \in 0 .. MaxFaults
    /\ known \subseteq Sessions /\ watermark \in [Sessions -> Marks]
    /\ absences \in [Sessions -> 0 .. PruneAfter] /\ gone \in [Sessions -> 0 .. PruneAfter]
    /\ failures \in 0 .. 3 /\ stale \in BOOLEAN /\ fenced \in BOOLEAN
    /\ status \in {"starting", "ready", "degraded", "unhealthy"}
    /\ text \in [Sessions -> Marks]

(***************************************************************************)
(* However exchanges are cut off, retried and restarted, there is never a  *)
(* second daemon: every process that runs is the client's or the one whose *)
(* hello it awaits.                                                        *)
(***************************************************************************)
OneDaemon == Cardinality(running) <= 1 /\ running \subseteq {daemon, spawned}

(***************************************************************************)
(* No line is taken for the answer to a request it was not written for: a  *)
(* cycle succeeds only by the answer to the request it wrote last, though  *)
(* lines of earlier requests may still be in the pipe.                     *)
(***************************************************************************)
OnlyAnswersSucceed ==
    [][status' = "ready" /\ phase = "read" /\ phase' = "sleep" => Head(lines).match]_vars

Newer(a, b) == a.d > b.d \/ (a.d = b.d /\ a.n > b.n)

(***************************************************************************)
(* A stored thought that names its stream does not go back, for as long as *)
(* its session has not been missing from PruneAfter snapshots in a row:    *)
(* what replaces it is newer, of the same stream or of a later one.  No    *)
(* update without a number does, and no repeated one that names its stream.*)
(* An update with a number and without a stream is always applied by the   *)
(* code, old or new, and what it leaves may be replaced by anything.       *)
(***************************************************************************)
StreamedThoughtsNeverGoBack ==
    [][\A s \in Sessions : text[s].d # 0 =>
          \/ text'[s] = text[s]
          \/ gone'[s] = PruneAfter
          \/ Newer(text'[s], text[s])
          \/ text'[s].d = 0 /\ text'[s].n > 0]_vars

(***************************************************************************)
(* Once the faults are over the bridge is ready again and stays so, and    *)
(* the request to shut down that the failures raised is withdrawn.         *)
(***************************************************************************)
BridgeRecovers == <>[](status = "ready" /\ ~fenced)
=============================================================================
