---------------------------- MODULE SessionActor ----------------------------
(***************************************************************************)
(* The output half of one SessionActor (src/session/actor.rs): the reader  *)
(* thread and its channel, the redraw coalescing of ScrollGuard            *)
(* (src/scroll/guard.rs), the classification of every chunk by             *)
(* StateDetector, and the emission of the chunk into the replay ring and   *)
(* to the subscribers.  The biased select! of run_iteration is the         *)
(* priority in the guards: commands first (they arrive at any moment),     *)
(* then PTY data, then timers.                                             *)
(*                                                                         *)
(* Reads are numbered in the order the reader thread makes them; what is   *)
(* emitted is a sequence of these numbers.  SessionStream models what the  *)
(* ring and the subscribers then do with an emitted frame.                 *)
(***************************************************************************)
EXTENDS StateDetector, Sequences

CONSTANTS
    ToolCommands,     \* the commands that start a coding tool
    Reads,            \* what one read of the PTY can carry
    Coalesce,         \* ticks a redraw waits for the next one (COALESCE_MS)
    InputGrace,       \* ticks after input in which nothing waits (INPUT_GRACE_MS)
    LivenessEvery,    \* ticks between process-tree polls (LIVENESS_CHECK_INTERVAL)
    MaxBuffered,      \* coalesced reads that force a flush (MAX_COALESCE_BYTES)
    PtyBound,         \* capacity of the reader's channel
    MaxReads          \* bound on the number of reads (model only)

ASSUME ActorAssumption ==
    /\ Coalesce \in Nat \ {0} /\ InputGrace \in Nat \ {0} /\ LivenessEvery \in Nat \ {0}
    /\ MaxBuffered \in Nat \ {0} /\ PtyBound \in Nat \ {0} /\ MaxReads \in Nat
    /\ ToolCommands \subseteq Commands

VARIABLES
    running,      \* the actor loop has not returned
    readerDone,   \* the reader thread saw EOF and dropped its sender
    ptyQ,         \* reads in the channel
    ptyClosed,    \* the actor has seen the channel end
    det,          \* the state detector
    guard,        \* ScrollGuard's buffer: the reads in it, their merged data, ticks left
    grace,        \* ticks left of the input grace window
    poll,         \* ticks until the next liveness check is due
    attach,       \* the actor attached to an existing tmux session
    clearRing,    \* clear_replay_on_first_idle
    read,         \* number of reads made so far
    emitted,      \* the reads emitted, in order
    cleared       \* how many emitted reads the startup clear dropped from the ring

vars == <<running, readerDone, ptyQ, ptyClosed, det, guard, grace, poll, attach,
          clearRing, read, emitted, cleared>>
ptyVars == <<readerDone, ptyQ, read>>
outVars == <<clearRing, emitted, cleared>>

Never == -1

ASSUME ReadsAssumption == Reads \subseteq [redraw : BOOLEAN, data : Chunk]

-----------------------------------------------------------------------------
(* ScrollGuard. *)

NoData == [osc |-> "none", cmd |-> NoCmd, text |-> FALSE, prompt |-> FALSE, error |-> FALSE]
Nothing == [items |-> <<>>, data |-> NoData]
EmptyGuard == [items |-> <<>>, data |-> NoData, left |-> Never]

(* What the detector sees in the bytes of a followed by those of b. *)
Merge(a, b) ==
    [osc    |-> IF b.osc = "none" THEN a.osc ELSE b.osc,
     cmd    |-> IF b.osc = "none" THEN a.cmd ELSE b.cmd,
     text   |-> a.text \/ b.text,
     prompt |-> IF b.text THEN b.prompt ELSE a.prompt,
     error  |-> b.error \/ (a.error /\ b.osc # "command")]

Buffered(g) == [items |-> g.items, data |-> g.data]

BufferRedrawUntimed(g, r) ==   \* mutant: the flush deadline is not set
    [g EXCEPT !.items = Append(@, r.id), !.data = IF g.items = <<>> THEN r.data ELSE Merge(@, r.data)]

BufferRedraw(g, r) ==
    IF g.items = <<>>
    THEN [items |-> <<r.id>>, data |-> r.data, left |-> Coalesce]
    ELSE [g EXCEPT !.items = Append(@, r.id), !.data = Merge(@, r.data)]

Full(g) == Len(g.items) >= MaxBuffered

(* What process returns to emit first, then second, and the new buffer. *)
PassOvertakes(g, pass) ==   \* mutant: new data overtakes the buffer
    [first |-> pass, second |-> Buffered(g), guard |-> EmptyGuard]
PassKeeps(g, pass) ==   \* mutant: the buffer is sent and kept
    [first |-> Buffered(g), second |-> pass, guard |-> g]
PassThrough(g, pass) ==
    [first |-> Buffered(g), second |-> pass, guard |-> EmptyGuard]

GuardProcess(g, r, inGrace) ==
    LET pass     == [items |-> <<r.id>>, data |-> r.data]
        expired  == g.items # <<>> /\ g.left = 0
        buffered == BufferRedraw(IF expired THEN EmptyGuard ELSE g, r)
        full     == Full(buffered)
    IN  IF inGrace \/ ~r.redraw THEN PassThrough(g, pass)
        ELSE [first  |-> IF expired THEN Buffered(g) ELSE Nothing,
              second |-> IF full THEN Buffered(buffered) ELSE Nothing,
              guard  |-> IF full THEN EmptyGuard ELSE buffered]

-----------------------------------------------------------------------------
(* process_output_chunk, as a step of the record of what it reads and writes. *)

Pipeline ==
    [det |-> det, clearRing |-> clearRing, emitted |-> emitted, cleared |-> cleared]

SetPipeline(p) ==
    /\ det' = p.det
    /\ clearRing' = p.clearRing
    /\ emitted' = p.emitted
    /\ cleared' = p.cleared

ClassifyUnarmed(d, data) ==   \* mutant: a recognised tool is only flagged
    LET classified == ProcessOutput(d, data) IN
    [classified EXCEPT !.tui = @ \/ classified.cmd \in ToolCommands]

Classify(d, data) ==
    LET classified == ProcessOutput(d, data) IN
    IF classified.cmd \in ToolCommands THEN EnableTuiToolMode(classified) ELSE classified

Emit(p, chunk) ==
    LET d     == Classify(p.det, chunk.data)
        clear == p.clearRing /\ d.state = "Idle"
    IN  IF chunk.items = <<>> THEN p
        ELSE [det       |-> d,
              clearRing |-> p.clearRing /\ ~clear,
              cleared   |-> IF clear THEN Len(p.emitted) ELSE p.cleared,
              emitted   |-> p.emitted \o chunk.items]

-----------------------------------------------------------------------------
Init ==
    /\ running = TRUE
    /\ readerDone = FALSE /\ ptyQ = <<>> /\ ptyClosed = FALSE
    /\ \E tui \in BOOLEAN : det = InitialDetector(tui)
    /\ guard = EmptyGuard
    /\ grace = 0
    /\ poll = LivenessEvery
    /\ attach \in BOOLEAN
    /\ clearRing = ~attach
    /\ read = 0 /\ emitted = <<>> /\ cleared = 0

(* The reader thread: blocking_send waits while the channel is full. *)
ReaderRead ==
    /\ running /\ ~readerDone /\ Len(ptyQ) < PtyBound /\ read < MaxReads
    /\ \E r \in Reads :
          ptyQ' = Append(ptyQ, [id |-> read + 1, redraw |-> r.redraw, data |-> r.data])
    /\ read' = read + 1
    /\ UNCHANGED <<running, readerDone, ptyClosed, det, guard, grace, poll, attach, outVars>>

ReaderEof ==
    /\ ~readerDone
    /\ readerDone' = TRUE
    /\ UNCHANGED <<running, ptyQ, ptyClosed, det, guard, grace, poll, attach, read, outVars>>

(* handle_pty_output; a title in the raw bytes may name a tool first. *)
PtyOutput ==
    /\ running /\ ~ptyClosed /\ ptyQ # <<>>
    /\ LET step == GuardProcess(guard, Head(ptyQ), grace > 0) IN
       /\ guard' = step.guard
       /\ \E d \in {det, EnableTuiToolMode(det)} :
          \E p \in {Emit([Pipeline EXCEPT !.det = d], step.first)} :
          \E q \in {Emit(p, step.second)} : SetPipeline(q)
    /\ ptyQ' = Tail(ptyQ)
    /\ UNCHANGED <<running, readerDone, ptyClosed, grace, poll, attach, read>>

(* mark_pty_closed *)
PtyEnd ==
    /\ running /\ readerDone /\ ptyQ = <<>> /\ ~ptyClosed
    /\ ptyClosed' = TRUE
    /\ det' = MarkExited(det)
    /\ UNCHANGED <<running, ptyVars, guard, grace, poll, attach, outVars>>

(* handle_write_input and handle_submit_line with input that is activity. *)
Input ==
    /\ running /\ ~ptyClosed
    /\ grace' = InputGrace
    /\ det' = NoteInput(det)
    /\ UNCHANGED <<running, ptyVars, ptyClosed, guard, poll, attach, outVars>>

Dismiss ==
    /\ running
    /\ det' = DismissAttention(det)
    /\ UNCHANGED <<running, ptyVars, ptyClosed, guard, grace, poll, attach, outVars>>

(* SessionCommand::Shutdown: detach, after a last flush. *)
Shutdown ==
    /\ running
    /\ running' = FALSE
    /\ SetPipeline(Emit(Pipeline, Buffered(guard)))
    /\ guard' = EmptyGuard
    /\ UNCHANGED <<ptyVars, ptyClosed, grace, poll, attach>>

PollDue(d) == d.state # "Exited" /\ poll = 0

(* The poll may fail or be stale; children may prove to be a tool. *)
Poll(d) ==
    {d} \cup {ApplyProcessLiveness(d, c) : c \in BOOLEAN}
        \cup {EnableTuiToolMode(ApplyProcessLiveness(d, TRUE))}

(* fire_timers, when no command and no PTY data is ready. *)
FireTimers ==
    /\ running /\ ptyQ = <<>> /\ (readerDone => ptyClosed)
    /\ Expired(det) \/ guard.left = 0 \/ PollDue(det)
    /\ \E p \in {Emit([Pipeline EXCEPT !.det = CheckTimers(@)], Buffered(guard))} :
       IF PollDue(p.det)
       THEN /\ \E d \in Poll(p.det) : SetPipeline([p EXCEPT !.det = d])
            /\ poll' = LivenessEvery
       ELSE SetPipeline(p) /\ UNCHANGED poll
    /\ guard' = EmptyGuard
    /\ UNCHANGED <<running, ptyVars, ptyClosed, grace, attach>>

Tick ==
    /\ running
    /\ det' = ElapseAll(det)
    /\ guard' = [guard EXCEPT !.left = Elapse(@)]
    /\ grace' = Elapse(grace)
    /\ poll' = Elapse(poll)
    /\ UNCHANGED <<running, ptyVars, ptyClosed, attach, outVars>>

Next == ReaderRead \/ ReaderEof \/ PtyOutput \/ PtyEnd \/ Input \/ Dismiss
        \/ Shutdown \/ FireTimers \/ Tick

(* The runtime polls a task that is ready, the clock runs, and the reader  *)
(* thread is never required to read anything.                              *)
Fairness == WF_vars(PtyOutput) /\ WF_vars(PtyEnd) /\ WF_vars(FireTimers) /\ WF_vars(Tick)
Spec == Init /\ [][Next]_vars /\ Fairness

-----------------------------------------------------------------------------
InChannel == [k \in 1 .. Len(ptyQ) |-> ptyQ[k].id]

TypeOK ==
    /\ running \in BOOLEAN /\ readerDone \in BOOLEAN /\ ptyClosed \in BOOLEAN
    /\ det \in Detector
    /\ guard.left \in Never .. Coalesce /\ guard.data \in Chunk
    /\ Len(ptyQ) <= PtyBound
    /\ grace \in 0 .. InputGrace /\ poll \in 0 .. LivenessEvery
    /\ attach \in BOOLEAN /\ clearRing \in BOOLEAN
    /\ read \in 0 .. MaxReads
    /\ cleared \in 0 .. Len(emitted)

(* Coalescing never loses, repeats or reorders output: what was emitted,    *)
(* then what waits in the guard, then what waits in the channel, is what    *)
(* the reader read ("forward each returned chunk ... in order").            *)
OutputInOrder ==
    emitted \o guard.items \o InChannel
        = [k \in 1 .. (Len(emitted) + Len(guard.items) + Len(ptyQ)) |-> k]

(* A redraw held back always has its flush deadline, and the buffer stays   *)
(* under its cap; nothing is still held back once the actor has stopped.    *)
HeldBackIsBounded ==
    /\ guard.items # <<>> <=> guard.left # Never
    /\ Len(guard.items) < MaxBuffered \/ guard.items = <<>>
    /\ ~running => guard.items = <<>>

(* The detector's coupling of states and deadlines survives every order in  *)
(* which the actor makes its calls, tool detection included.                *)
DetectorStaysCoupled == Timed(det)

(* For whoever reads the output, the actor with its channel, its guard, its *)
(* detector and its timers is a pipe.                                       *)
Pipe == INSTANCE OutputPipe WITH produced <- read, shown <- emitted, open <- running
IsAPipe == Pipe!Spec

(* Every read reaches the ring and the subscribers unless the actor stops   *)
(* (there are finitely many): nothing stays held back or in the channel.    *)
ReadsAreEmitted == <>[](~running \/ Len(emitted) = read)
=============================================================================
