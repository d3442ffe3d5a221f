# swimmers: a verification project

swimmers is a Rust server (axum, tokio) that attaches to tmux sessions, classifies what
each terminal is doing, streams the terminals to browsers over WebSockets and summarises
them with the help of a thought daemon; a terminal interface is one more client of it.
This directory holds TLA+ models of it, TLC configurations that check them, and TLAPS
proofs about them. Paths below are relative to the repository; `PROJECT.json` maps every
definition of every module to the lines it translates, and lists each hazard of the code
at its line with the properties that cover it, or the reason why none does.

## 1. Inventory

### Components

| Component | Source | State it keeps | Operations | Module |
|---|---|---|---|---|
| State detector | `src/state/detector.rs` | state, cause, command, tool mode, three deadlines, position in an escape sequence | `process_output`, `note_input`, `dismiss_attention`, `apply_process_liveness`, `enable_tui_tool_mode`, `mark_exited`, `check_timers` | `StateDetector`, `DetectorCalls`, `EscapeParser` |
| Session actor: output | `src/session/actor.rs`, `src/scroll/guard.rs` | PTY channel, held-back output, liveness deadline, detector, ring, subscribers | one loop: commands, PTY data, timers | `SessionActor`, `OutputPipe` |
| Replay ring, subscribers | `src/session/replay_ring.rs`, `actor/subscribers.rs` | frames, `latest_seq`, one channel per subscriber | `push`, `replay_from`, `clear`, subscribe, unsubscribe, broadcast | `SessionStream` |
| WebSocket and browser | `src/web/ws_events.rs`, `src/web/*.js` | connection, ack, truncation notice, last rendered frame | cursor, subscribe, stream, reconnect | `SessionStream` |
| Supervisor and discovery | `src/session/supervisor.rs`, `supervisor/*.rs` | handles, exact-cleanup authority, stale sessions, sessions file, cleanup records, discovery lock | create, delete, exact cleanup, adopt, discovery, reaper, checkpoint, restart | `SessionRegistry` |
| Thought persistence | `supervisor/thought_persistence.rs` | bounded queue, an overflow slot per session, pending counter | `persist_thought`, worker, flush | `ThoughtPersist` |
| File store | `src/persistence/file_store.rs` | files, write lock, lock file, caches, health | save whole, merge under the lock, read before the lock, load, flush | `FileStore` |
| tmux circuit breaker | `src/session/actor.rs` | timeouts in a row and a cooldown per tmux server | skip, run, timeout, success | `TmuxBreaker` |
| Input delivery | `actor/tmux_input.rs`, `src/session/actor.rs`, `src/web/mod.rs` | the request under way, what its client is told | chunked `send-keys`, submitted lines, PTY fallback | `InputDelivery` |
| Thought bridge | `src/thought/bridge_runner.rs`, `emitter_client.rs`, `health.rs` | daemon, watermarks, health | cycle, exchange, retry, repair, restart | `ThoughtBridge` |
| Terminal interface | `src/bin/swimmers_tui/*` | list, selection, refresh, interaction, publication, composer | events, polls, tasks, end | `TuiApp` |
| HTTP API, startup, wire types | see `PROJECT.json` | derived | request handlers | in part, in the modules above |
| Process tree, remote sessions, overlay, native terminals, operator views | see `PROJECT.json` | derived, or caches | reads, rendering, glue | none, section 7 |

### How they interact

One actor task per session owns its detector, guard, ring and subscriber table; nothing
else touches them. It receives commands (input, subscribe, unsubscribe, dismiss, shutdown)
on a bounded channel from WebSocket and HTTP handlers, and PTY bytes on another bounded
channel from a reader *thread* that blocks in `read`. Its `select!` is biased: commands,
then PTY data, then the nearest of all deadlines. Every chunk of output goes through the
scroll guard, the detector, the ring and the broadcast, in that order, without an await. A
command that delivers input, on the other hand, awaits tmux, under the timeouts and the
breaker that all actors of one tmux server share. A WebSocket handler asks the actor for a
replay cursor, then subscribes with the sender of its own bounded channel, waits for an ack
under a timeout, and forwards frames. The browser resumes at the last frame it rendered.

The supervisor creates and removes actors by session id under several awaits; the discovery
binds a new actor to a tmux session that survived a restart of the server, with the persisted
id; both go to the file store, which other processes may share. The thought bridge asks a
daemon, a child process, once per tick, and hands thoughts to a bounded queue whose worker
saves them in the store; a shutdown stops the bridge and flushes the queue. The terminal
interface polls the session list, runs one interaction at a time and publishes which session
is selected.

### What is hard, and what makes each part correct

- **Detector.** Five states, six ways into work, three deadlines and no single place that
  sets them. Correct when each deadline exists exactly in the states it times, is never
  left over from an earlier spell, and always fires in the end.
- **Parser.** A control sequence may be cut by reads anywhere and may never end. Correct when
  the cuts make no difference and an unfinished sequence hides output for a bounded time.
- **Actor.** Output is held back to coalesce redraws while timers, input, tool detection,
  exit and detach go on. Correct when output is neither lost nor reordered, nothing is held
  back without a deadline, and the detector's couplings survive every mixture of calls.
- **Stream.** Eviction, clamping and clearing in the ring; live output between the cursor,
  the subscription and the ack; full channels; lost unsubscribes; restarts. Correct when a
  browser sees every frame once and in order, or is told it missed some, or loses its
  connection; and when whoever stays catches up.
- **Supervisor.** Every operation awaits tmux, the disk or an actor between reading and
  writing the registry, and any request may be dropped there. Correct when one tmux session
  has at most one actor, an exact cleanup hits only the incarnation it was asked for and tells
  the truth, no phase is stuck, and a restart keeps the ids.
- **Thought persistence.** Order of the queue against its overflow slots, exactness of the
  pending counter, flush before shutdown.
- **File store.** A save that fails or is dropped half-way, a second process, a power loss
  between rename and sync. Correct when no cache is ahead of its file, merged changes are not
  overwritten unread, and what was acknowledged is durable.
- **Breaker and input.** A command that timed out may still be obeyed; some chunks arrive and
  the next does not. Correct when nothing confirmed is typed twice, the answers are true,
  every request gets one, and the breaker closes when tmux is well again.
- **Bridge.** The exchange is dropped by a timeout at any await. Correct when there is never a
  second daemon, no stale line is taken for an answer, no repeated or late update replaces a
  newer thought, and the bridge recovers.
- **Terminal interface.** Results of three kinds of task arrive after the user has moved on.
  Correct when each lands where it belongs or nowhere, and the server ends up with the
  selection that is shown.

## 2. Modules

In each table the left column names the actions and operators, the right one the code. The
definitions marked `mutant` in the modules are the plausible bugs against which the
properties are tested: no specification uses them.

### `StateDetector` and `DetectorCalls`

The detector as one record, each Rust method an operator from records to records, so that
`SessionActor`, which extends the module, can compose the calls of one actor step;
`DetectorCalls` is the state machine that makes these calls in every order. A deadline is the
number of ticks left, `Off` for `None`, 0 when it has passed unnoticed. The byte parser and the
regular expressions are abstracted to a *chunk*: which OSC 133 marker wins, whether there is
visible text, whether its last line is a prompt, whether an error pattern matches. That is all
the transition code tests.

| Operator | Code |
|---|---|
| `SetState` | `set_state_with_cause` and `update_attention_timer_for_transition` |
| `CheckTimers` | `check_timers`, the three deadlines in its order |
| `ProcessOutput`, `ApplyMarker`, `ApplyFallback`, `FallbackBusy`, `FallbackPrompt` | `process_output` and its branches |
| `ArmSilence` | `schedule_output_idle` and its condition |
| `NoteInput`, `DismissAttention`, `MarkExited`, `EnableTuiToolMode`, `ApplyProcessLiveness` | the methods of these names |

`quiet` and `idleFor` of `DetectorCalls` are history variables: they observe, and guard nothing.

### `EscapeParser`

What `StateDetector` takes for granted: how `parse_chunk` finds the markers. A byte is a
member of one of the classes the code tells apart, a few bytes that always come together are
one symbol. The program prints tokens, sequences of bytes that are a constant of the model:
text, whole control sequences (`Introduced` and `Terminated` say what one is, for each of the
four kinds), and sequences it never finishes (`Unfinished`). A step reads one byte, and any byte
may be the last of its chunk. `MCEscapeParser` gives the tokens: text, colours, markers in both
encodings, titles, private strings, an unfinished sequence of each kind.

| Operator or action | Code |
|---|---|
| `ConsumeNormal`, `ConsumeEscape`, `ConsumeIntermediate`, `ConsumeCsi`, `ConsumeOsc`, `ConsumeString` | the arms of `consume_chunk_byte` |
| `MarkerOf`, `PushMarker` | `parse_osc133` and its caller |
| `ReadByte` | a turn of `parse_chunk`'s loop |
| `ReadLast`, `Decision` | the last turn, `Osc133Decision::from_markers`, the marker part of `process_output` |

What was printed is recorded beside the parser: `owedMarkers` and `owedText` by the grammar
of the tokens (`Owes`, `Plain`), not by the parser's operators, and `since`, the bytes since the
last unfinished token began.

### `SessionActor` and `OutputPipe`

The reader thread and its channel, the biased loop, the redraw coalescing, the classification
through the operators of `StateDetector`, the emission, the startup clear, liveness polls, tool
detection, input, dismissal, detach. A read is a number, whether it is a redraw, and the chunk it
carries; coalescing merges chunks (`Merge` says what the detector sees in the bytes of both).
`MCSessionActor` gives the sets of reads.

| Action | Code |
|---|---|
| `ReaderRead`, `ReaderEof` | the reader thread's loop, `blocking_send` |
| `PtyOutput` | `handle_pty_output`: title, guard, then every returned chunk through `process_output_chunk` |
| `PtyEnd` | `mark_pty_closed` |
| `Input`, `Dismiss`, `Shutdown` | the commands of these names |
| `FireTimers` | `fire_timers`: detector, guard, liveness poll, in this order |

`OutputPipe` is what this promises to those who read the output: the reads, in their order,
each once, until the session is closed. It knows nothing of channels, buffers, merging,
classification or timers. `SessionActor` instantiates it with what was read, what was emitted
and whether it runs, and `IsAPipe`, its specification, is a property of the actor.

### `SessionStream`

The ring, the actor's subscriber table, the command channel, the WebSocket handlers, the
browsers and restarts of the server. A frame is a number and a size. The connection has an
identity of its own: the actor may still hold one its browser has given up. `Start` is the
index from which `replay_from` returns frames, found by its number.

| Action | Code |
|---|---|
| `Output` | the startup clear, `ReplayRing::push`, `broadcast_output` |
| `HandleCommand` | `handle_subscribe` (prune, cap, replay, attach, ack) and `handle_unsubscribe` |
| `ReplayAborts` | `send_replay_frames` failing because the receiver is gone |
| `Connect`, `Subscribe`, `AckTimeout`, `Ready`, `StreamEnds`, `Disconnect` | the handler in `ws_events.rs`, its ack timeout and its unsubscribe guard |
| `Render`, `Forget` | the browser's controller |
| `ServerRestart` | discovery re-attaching under the persisted id: a new ring, numbered from 1 |

### `SessionRegistry`

The supervisor's memory and its two stores on one side, tmux on the other. A tmux session
is a name and an *incarnation*, the tmux server that runs it and its number there, which
starts again when that server does: the code identifies sessions by number, and the model
keeps what that number cannot tell. A request is a worker with a program counter and its
locals; between any two of its steps the others run, a fault may end it (`Cancel`: the
handler's future is dropped), and the process may die. What a step holds under a lock is in
the step; the discovery lock, which is held across awaits, is a variable.

| Action | Code |
|---|---|
| `Create`, `Bind`, `Insert`, `Confirm`, `Rollback`, `Forget`, `Unlaunch` | `create_session`, `insert_active_handle`, `rollback_provider_launch` |
| `Delete`, `Remove`, `Kill`, `Reinsert` | `delete_session` in both modes |
| `Exact`, `Mark`, `Query`, `ExactKill`, `Restore`, `Remark`, `Receipt`, `Cleaned` | `delete_exact_session`, `restore_exact_cleanup`, `complete_exact_cleanup` |
| `Adopt`, `Attach` | `adopt_tmux_session`, `insert_discovered_handle` |
| `Snap`, `Save`, `Checkpoint` | `persist_registry` and its periodic caller |
| `List`, `Plan`, `AttachNext`, `Reconcile`, `RemoveMissing`, `FinishCollect`, `FinishCommit` | `discover_tmux_sessions_with_reason` and what it calls |
| `WaitToWrite` | a writer queuing at the fair `RwLock` behind the guard that `finish_tmux_discovery` keeps |
| `CollectExited`, `Reap` | `reap_exited_sessions` |
| `Crash`, `LoadRead`, `LoadAssign` | both ways to start: `init_app_state` and the embedded server, `init_persistence` |
| `TmuxNew`, `TmuxEnds` | other users of tmux |

Simplifications: one tmux target; ids of thoughts do not bump the id counter; the reaper and
`RemoveMissing` remove and save in one step, since a crash in between loses no more than one
before it; of the records a failed write leaves the old one or none. A snapshot has exactly
the live actors: in the code an actor that does not answer in time is represented by its cached
summary, or, when there is none, is left out of the snapshot and so of the sessions file
(`collect_summary_from_handle`, `cached_summary_fallback`).

### `FileStore`

Processes that share a data directory. A save takes the write lock of its process, hands a
blocking task to another thread and updates cache and health when that is done. A value is
named by the save that wrote it. `disk` is what a reader sees, `durable` what a power loss
leaves.

| Action | Code |
|---|---|
| `Begin`, `Acquire` | a call, and the process's write mutex; `save_thought` copies its cache |
| `Read` | `update_dir_group_memberships` reading the file, before the lock file is taken |
| `Lock`, `Rename`, `Sync`, `TaskFails` | the blocking task: `lock_exclusive_with_retry`, temporary file and rename, `sync_parent_dir`, any error |
| `Finish`, `Flush` | cache and health after the task; `flush_barrier` |
| `Cancel` | a dropped request: its write lock goes, its task stays |
| `Restart`, `PowerLoss`, `Damage` | `FileStore::new` loading the files after each of these |

### `TmuxBreaker` and `InputDelivery`

`TmuxBreaker` is the map entry of one tmux server (servers share only the mutex) with the
commands that run on it; `InputDelivery` extends it with one actor that types. The actor's
commands are essential, other tasks' are probes. A command that meets a hang may time out;
the server may still obey it when it recovers.

| Action | Code |
|---|---|
| `Start`, `Answer`, `TimeOut`, `SpawnFails`, `Tick` | `run_tmux_command` and the functions on `TMUX_HEALTH`; one tick is 30 s |
| `Receive`, `Issue` | `handle_write_input`, `handle_submit_line`: the script of commands of a request |
| `CommandSucceeds`, `CommandFails`, `CommandTimesOut`, `CommandNotSpawned` | the loop over the chunks, and `Missed`: what a failure leads to |
| `WritePty`, `WritePtyFails` | `write_and_flush_input` |
| `Send`, `GiveUp` | `send_delivery_ack`, `wait_for_input_delivery` with its timeout |
| `NoticeExit` | `mark_pty_closed` |
| `Relay`, `TypeLate`, `SessionEnds`, `Hang`, `Recover` | tmux: external |

### `ThoughtBridge`

The bridge task, its client and the daemons. A daemon's number is its stream. An update carries
its stream, or 0 for none, and its number, or 0 for none: on the wire both are optional, and
`Applies` has the four cases of `should_apply_delivery_state`. Every await of the exchange is a
phase, and `SyncTimeout` may cut any of them.

| Action | Code |
|---|---|
| `StartCycle` | the tick, the snapshot, `retain_live_delivery_states` |
| `Ensure`, `Stop`, `Spawn`, `SpawnFails`, `Hello`, `HelloFails` | `ensure_running`, `stop_current_daemon`, the start and its hello |
| `Write`, `WriteFails`, `Read`, `Eof`, `ResponseTimeout` | `next_sync_response_once` and `next_sync_response`, which restarts and tries once more |
| `SyncTimeout` | the timeout of the cycle and the repair after it |
| `ApplyUpdate`, `Applies` | `apply_update`, `should_apply_delivery_state` |
| `RecordSuccess`, `RecordFailure` | `health.rs` |
| `Answer`, `AnswerError`, `Chatter`, `Hangs`, `Dies` | the daemon: external |

Simplifications: a kill takes effect at once (`stop_current_daemon` waits up to two seconds
for the end); a timeout of the cycle during that wait is `Stop` followed by `SyncTimeout`;
the restart of a repair is not under the timeout of the cycle, and neither is it here.

### `ThoughtPersist`

The way of a thought from the bridge to the store: the bridge's call, which never waits; the
bounded queue; the overflow slot of each session; the worker; the pending counter; the
flush of a shutdown. The thoughts of a session are numbered in the order the bridge gives
them. The tasks run on different threads, so every step of one that another can see is an
action: counter and wake-up are separate steps of the worker, and the flush registers, reads
and sleeps in three.

| Action | Code |
|---|---|
| `Begin`, `SendQueued`, `SendFull`, `InsertLatest`, `FinishReplaced`, `NotifyWorker` | `SupervisorProvider::persist_thought`, and the watermark that `apply_update` moves when it returns true |
| `Recv`, `RecvClosed`, `Notified` | the worker's `select!` |
| `Save`, `Finish`, `FinishNotify` | `persist_thought_request`: the write, which may fail, then `finish_pending_thought_persist` |
| `DrainSlot`, `DrainEnds` | `drain_coalesced_persist_requests`; the map's order is arbitrary |
| `Stop`, `FlushStart` | `finalize_persistence_shutdown`: the bridge is aborted and awaited, then the flush starts |
| `FlushEnable`, `FlushLoad`, `FlushSleep`, `FlushWoken`, `FlushTimeout` | one round of `wait_for_pending_thought_persists` |

The `Closed` branch of `try_send` is left out because it cannot be taken: the worker drops
the receiver only after `recv` returned `None`, that is after the only sender is gone. The
embedded server (`startup.rs`) gives the abort of the bridge a time limit of its own; the
model has the order of `main.rs`, where the flush starts after the bridge has ended.

### `TuiApp`

The terminal interface as an asynchronous client. One thread handles events and polls the
tasks once per frame, so an event or a poll is one action; tasks and the server run beside it.

| Action | Code |
|---|---|
| `Move`, `SetFilter`, `Open`, `ManualRefresh` | the keys that change the selection or the list |
| `Publish`, `PollPublication`, `Clear` | `maybe_spawn_selection_publication`, its result, `clear_published_selection` at the end |
| `SpawnRefresh`, `Fetch`, `PollRefresh` | `refresh.rs`; `Applies` is the comparison of `refresh_epoch` |
| `OpenComposer`, `Escape`, `StartRecording`, `FinishRecording`, `Submit`, `Adopt` | the composer and dictation |
| `Serve`, `PollInteraction`, `Apply`, `ApplyError`, `Created`, `Sent`, `Transcribed`, `Upsert` | the interaction's task and `apply_pending_interaction_result` |
| `Quit`, `ServerChanges` | the end of the loop; other clients and sessions |

Not in the model: a publication that its client gave up and the server serves later still,
two interfaces on one server, the editor of the thought configuration, the contents of the
picker, and drawing. After `Quit` what the end does not read is dropped from the state.

### `MC*` and `*_proofs`

`MCSessionActor`, `MCSessionRegistry` and `MCFileStore` hold the instances' sets and
symmetries; the other configurations need none. The proof modules extend the modules they are
named after, `SessionActor_proofs` also `DetectorCalls`; section 4.

## 3. Runs

| Run | Asks | Bounds and why they are enough |
|---|---|---|
| `detector` | couplings of states and deadlines, no deadline early, tools and errors settle | delays 2, 3, 4: distinct, so every order of expiry occurs; two commands. 653 states |
| `actor` | order of held-back output, that the actor implements `OutputPipe`, couplings under the actor's mixtures, every read is emitted | 3 reads of 7 kinds, buffer of 2 (the cap is reached with a read to spare), channel of 1 (the reader blocks), delays of 1. 45 k states |
| `stream` | no gap, no repetition, no silent loss, whoever stays catches up | 2 browsers, 2 connection identities, 1 subscriber at a time, ring of 3 bytes with frames of 1, 2, 4 (several evictions at once, a clamp), channels of 1, 3 frames, 1 restart. 352 k states |
| `thought` | what coalescing may drop, what a successful flush means, thoughts are saved, the flush is woken | 2 sessions, queue of 1, 3 thoughts each: one is being saved, one queued, a slot filled and replaced, while the other session competes for the queue; 1 failed write. 567 k states |
| `registry` | one actor per tmux session whose kill has not failed, the exact cleanup, restart, the discovery's removals | 1 name, whose session ends and comes back (2 made), 2 ids, 2 interchangeable workers with 2 requests, so any two operations overlap, beside discovery, reaper and checkpoint; 1 fault: a failed call, a cancelled request or a crash, with both ways to start. 3.8 M states |
| `registry_deadlock`, `registry_detach` | findings, section 5 | 1 worker, no fault |
| `store` | caches, what merging keeps, durability | 2 processes, 2 keys, the three kinds of file, 3 saves (two overlap, a third sees the result), 1 fault. 1.2 M states |
| `input` | what is typed, what is answered, recovery of the breaker | a write of 2 chunks and a submitted line, a probe, 1 hang, cooldown of up to 2. 1.1 M states |
| `parser` | independence of cuts, recovery | every sequence of up to 5 of 14 tokens, every way to cut it; limit of 4 bytes (8192 in the code), less than the longest token, which just fits behind its introducer. 377 k states |
| `bridge` | one daemon, right answers, what may replace a stored thought, recovery | 1 session, pruned after 2 absences, sequence numbers to 2, each with its stream or without, 3 faults, so that a fault meets the retry and the repair of another. 4.6 M states |
| `tui` | results land where they belong, the selection arrives | 1 session, 6 events of the user, 2 faults: a task is asked, an event invalidates it, its result comes. 1.7 M states |

Instances with a larger constant and smaller others were run during development and showed the
same: the bridge with two sessions, the bridge with sequence numbers to 3, the interface with
two sessions and three events.

The type invariants are in no run: they were checked in the same way and are theorems, and so
are `HeldBackIsBounded` of the actor (its buffer keeps to its cap and has a deadline),
`CounterIsExact`, `SkipsJustified` and `FailedLoadsShow`.

Deadlock checking is off where the system really stops: a detached actor, the bounded frames
of the stream, a shutdown of the thoughts, bounded requests and saves, the finite output of the
parser, the end of the interface. It is on for the detector and the bridge.

**Fairness.**

- Detector: its timers and the clock are weakly fair; the actor sleeps until `next_deadline`
  and then calls `check_timers`.
- Actor: its branches are weakly fair because tokio polls a ready task, and the guards of
  `FireTimers` keep the priority of the biased `select!`: a timer waits while data is ready,
  and data is finite. The reader, input, commands and output are never fair.
- Stream: the actor's command loop and each WebSocket handler, for the same reason.
- Thoughts: the bridge only inside a call it has begun, which has no await; the worker and the
  flush are tasks that are polled when ready. `FlushTimeout` is not fair: the deadline is
  seconds away, and `FlushReturns` asks that the flush does not need it.
- Registry: the steps of a request, of the discovery, the reaper and the load are weakly fair;
  the next listing is strongly fair, since the discovery lock is a fair mutex. Used by
  `DiscoveryEnds` only.
- Input: the actor, the tmux client that relays the PTY, and the clock are weakly fair; of a
  probe, that it is issued and ends, and strongly that it is answered whenever it can be: a
  server that is well does not let every command time out. That it recovers is not assumed;
  the properties except a server that hangs for ever.
- Bridge: the task is polled and its timers fire; a daemon that is neither hung nor dead
  answers. Faults are bounded, which is how "once the faults end" is said.
- Interface: each of the refresh (ask, fetch, poll) and the publication (serve, poll) goes on,
  because every frame polls and the runtime runs the tasks. Nothing is assumed of the user or
  of an interaction.

## 4. Proofs

For every value of the constants that meets the module's assumption. Eight modules; all of
their theorems, lemmas and steps are checked.

**`SessionActor_proofs`**, the detector: `DetectorTyped`, `StatesTimed`, `DeadlinesEarned`. The
couplings are not inductive by themselves: a tool's chunk that makes the session busy would not
re-arm a silence deadline outside tool mode, so the inductive invariant adds that a silence
deadline exists only in tool mode, and, for `DeadlinesEarned`, that ticks passed and ticks left
add up to at least the delay. The proof follows the code: a lemma per record update gives its
fields; a lemma per method shows that it keeps `Good` (typed and coupled) and is `Timely` (a
deadline's effect only where that deadline had run out, and no deadline shortened). Inside
`process_output` the session can be busy with its deadline not yet armed; `Loose` is what holds
there, and `ArmSilence` turns `Loose` into `Good`.

The actor: `TypeCorrect`, `OutputStaysInOrder`, `HoldingBackIsBounded`, `DetectorCoupled`,
`ActorIsAPipe`. Output is in order because of where each read is: `Numbered` says that the reads
are numbered on through what was emitted, what is held back and what waits in the channel.
`Types` has that something is held back exactly when the guard has a deadline, `Held` that it has
room and that a stopped actor holds nothing back; `Bounds` adds the rest of the type. One lemma,
`Split`, says what the guard's `process` returns and keeps. For `DetectorCoupled` the invariant
`Fed` says that the detector is `Good` and that what is held back is a chunk it can be given; the
lemmas per method, which are about records and not about a machine, serve here as they do for
`DetectorCalls`. The refinement needs that what is emitted is always the first reads, and that a
step only adds to it and not once the actor has stopped: each step is then one of the pipe's, a
read or a showing, or leaves it as it is.

The parser: `ParserTypeCorrect`, `CutsStayInvisible`, `BlindnessIsBounded`. One byte at a step
makes the induction over the output one over steps. The inductive invariant `ParserInv` says
where the parser stands in the token being printed: `InStep`, exactly where a parser that began
it in `Normal` would be, with the payload read so far in its buffer; or, after an unfinished
token, `Blind`, inside a sequence that has consumed all but the introducer's bytes since then,
so that the limit bounds it; or in the middle of a token the limit cut into (`CutOff`), which is
over at its end, since no token hides an introducer. `WholeTokenStep` is the lemma behind the
first, one lemma per kind of sequence under it: the token's form leaves one arm of the code at
each byte, and the limit is not reached. `Reports` ties the markers of the chunk under way to
what the chunks before it decided. The theorems hold for tokens of the forms that
`ParserAssumption` gives; what the code does with others is in section 5.

**`SessionStream_proofs`** (`TypeCorrect`, `StreamsAreWhole`, `NeverBack`). `RingInOrder`: the
ring holds the last frames, each behind the one before it, so that `replay_from` returns an end
of them from the position it is asked for. `Connected`: a connection has one browser, and the
actor broadcasts only to those it has answered. `Requested`: a command about an open connection
is the one request it waits for, with the position its browser resumes from; an identity the
actor still holds is not taken for another. `Bounded` has the channels within their limit. With
these `SubscribersAreCurrent` and `StreamHasNoGap`, the two halves of `StreamIsWhole`, are
inductive. `Ahead`: until a restart, what is rendered, what is resumed from and what waits in
the channel follow one another; that a browser is never sent back is its consequence.

**`ThoughtPersist_proofs`** (`TypeCorrect`, `CounterIsExact`, `CoalescingKeepsNewest`,
`FlushSaves`). The counter's exactness and the type are inductive together; two lemmas count
the occupied slots when one is filled or emptied. That nothing is lost needs more: `Bounded`
says that no request is newer than the newest thought given and that the bridge hands over
the newest, and `Accounted` that the newest thought of a session is always somewhere, in the
bridge's hands, the queue, the slot, with the worker, or in the store. With the counter at
zero the store is the only place left. `FlushIsLast` ties a flush that reports success to a
bridge that has stopped and a counter at zero, so nothing is given afterwards.

**`FileStore_proofs`** (`TypeCorrect`, `CachesHavePersisted`, `MergesAreKept`,
`SettledIsDurable`, `FailedLoadsShow`). `Shape` types the saves and says that the lock file is
held by exactly the save between its lock and its unlock. `Persisted`: whatever a file, a
cache or a save holds has been on disk. What merging keeps is `Merging`: `Exclusive` (one save
of a process inside its write lock), `OnlyDamage` and `Untouched` (a file is corrupt or
missing with values nowhere unless it was damaged), `Current` (what a change of a group is
based on is what the file still holds), and `Latest`, that the file holds the last value
renamed for every key. A thought is merged under the lock file, so for thoughts this is proved
of any number of processes and of cancelled tasks. For the groups `Current` holds only while a
single process changes them and none of its requests is cancelled; the theorem claims no more
(`GroupsKeptInProcess`), since the code breaks the rest (section 5). Durability is
`PastRename` and `Safe`: what is settled, or synced and about to be, and still on disk is
durable: a sync makes every rename before it durable, and a rename after it puts another value
there.

**`InputDelivery_proofs`** (`TypeCorrect`, `SkipsJustified`, `AnswersAreTrue`,
`OnlyUnconfirmedRepeat`). `Justified` is inductive alone. The answers need `Shape` (stage, script
and position fit) and `Truth`: a request is in one place, unsent, once in the mailbox, worked on
or answered (`Placed`); keys are under way only of requests that failed or went to the PTY, or
that timed out (`OnlyTheirs`); and while a request is typed with tmux its pane holds exactly the
keys of the commands before the present one (`Progress`), which is why a failure after confirmed
chunks can say "partial" and one before them may repeat nothing. Repetitions need `Once`, too: a
key that may not come twice is in one place only, at the session, on the wire to it, or late; and
a write that falls back to the PTY has typed nothing for certain and left nothing late but its
first chunk.

**`ThoughtBridge_proofs`** (`TypeCorrect`, `DaemonIsAlone`, `SuccessIsAnswered`,
`StreamedThoughtsAdvance`). `Client`, inductive alone, says that the processes which run are the
client's, that one is awaited exactly in the phase `hello`, and that there is no other then; one
daemon follows. `Pipes`: what is in the pipes was sent by the newest daemon, and nothing is in
them before its hello. `Marked` ties the watermark to the thought stored last (they are equal
if that thought names its stream) and the program's count of absences to the history's, so
that a watermark is pruned no earlier than the history forgets the thought. With both, an update
that replaces a thought with a stream is newer in that stream, from a later one, or has a number
and no stream.

**`SessionRegistry_proofs`** (`TypeCorrect`, `CleaningIsOwned`, `KillsAreExact`,
`ExitedGoMissing`, `ActorsAreAlone`, `CleanedAreGone`, `AuthoritiesAreDurable`,
`IdentitySurvives`). `Control` is what all of it rests on: each request is at a step of its own
operation, and who binds, inserts, adopts or cleans up exactly, or is a discovery under way, has
`discovery_lock`. `CleaningInv` adds that a Cleaning authority is the one its cleanup found.
`Known`: every incarnation seen anywhere was made before, so that one that has ended never comes
back; with it `Unlisted` (a name the discovery did not list has no live actor until the removal,
even if a deletion whose kill failed puts one back) and `Alone` (a handle in the registry, or one
that a lock holder is about to put there, is there under no other id, unless it is one that a
failed kill has put back) are inductive. `SoundInv`: an incarnation has
one name, and what is or will be reported as killed has ended; hence an exact cleanup may take a
name without a session for proof. A fresh id is the least of a set; that there is one, and that
`Min` is it, comes from the well-foundedness of the order of the naturals. `Tables` types the
files and snapshots and says that the id counter goes back only in a crash. `DurableInv`: the id
a create has taken is nobody else's and below the counter, what it has bound is what its record
says, and no client was told of it yet, so that no exact cleanup can be at work on it. `Listing`:
no two entries of the sessions file, or of a snapshot on its way there, share an id or a name,
unless a failed kill has put a handle back. `Booting` follows the first discovery of a restarted
server from step to step: each persisted session that was listed is stale, or planned, or
attached, under its id. The bounds of the model (ids, sessions made, requests, faults) are
constants of any size in these theorems.

**`TuiApp_proofs`** (`TypeCorrect`, `ListingIsKept`, `TranscriptsAreKept`,
`InteractionsAreAlone`, `ClearRemains`). `Fresh`: a refresh that is not out of date and has its
list brings every session that is shown and alive; it needs that no session known anywhere is
still to be born. `Owned`: a transcription is sent with the generation it was recorded in.
`OneInteraction` is inductive alone. `Ended`: a clear that succeeded leaves no publication under
way.

**Model-checked only.** All liveness (`SettlesInTheEnd`, `ReadsAreEmitted`, `CatchesUp`,
`ThoughtsAreSaved`, `FlushReturns`, `EveryRequestIsAnswered`, `DeliveredArrives`,
`BreakerRecovers`, `BridgeRecovers`, `SelectionArrives`), since fairness and `ENABLED` are out of
the prover's reach. Every safety property of the passing runs is a theorem.

## 5. Findings

Two runs have `expect: violation`; `PROJECT.json` quotes the line each contradicts.

1. `registry_deadlock` / `DiscoveryEnds`: `finish_tmux_discovery` keeps a read guard of the
   registry while it awaits `persist_registry`, which reads it again. The lock is fair: a writer
   that queues in between (a deletion, the reaper, a rollback) waits for the first guard, the
   second read waits for the writer, and the discovery lock is never released. A comment says
   that the lock order rules a deadlock out.
2. `registry_detach` / `ReplacementIsSafe`: `delete_exact_session` checks the generation and
   then removes whatever handle the id has. When the tmux session ended and another took its
   name, the discovery has attached that one under the same id, without a new authority: an
   exact cleanup that detaches removes the replacement's actor, which a comment excludes.

Seen while modelling, with no run of its own. Where a hazard of `PROJECT.json` refers here, the
code does otherwise than the property that would cover it.

- *Duplicate actors.* `delete_session` takes the handle out, awaits `kill-session` without the
  discovery lock and puts the handle back when that fails (`supervisor.rs:1140`). A discovery in
  between finds a tmux session that nobody has and attaches a second actor to it under another
  id; both stay. The comment at `supervisor.rs:367` says that the lock exists to prevent such
  duplicates. `OneActorPerTmux` excepts the session whose kill has failed, and only that one;
  without the exception TLC finds the duplicate with one deletion and one failed kill.
- *Directory groups.* `update_dir_group_memberships` reads the file (`file_store.rs:692`) before
  its task takes the lock file. Two processes read the same contents, and the second rename
  drops the change of the first, although the comment at `file_store.rs:687` says that "a
  concurrent write from another process sharing the data dir is merged rather than silently
  lost". A cancelled request, whose task goes on after its write lock is gone, loses a change of
  its own process in the same way. `GroupWritesMerge` is what the comment claims, and TLC finds it
  violated by two processes with one save each; `GroupsKeptInProcess`, the part of `MergesKept`
  that is about groups, is what is left of it.
- *Exit.* Output held back when the process ends is emitted by a later timer, is classified,
  and takes the session out of `Exited` (`src/scroll/guard.rs`, `fire_timers`).
- *Startup.* The startup clear tests that the detector is idle after a chunk. It starts idle,
  so a first chunk of escape sequences spends the clear on an empty ring and the startup text
  stays.
- *Reconnect.* The actor awaits room for the replay in a channel its receiver reads only after
  the ack (`subscribers.rs:87`, `ws_events.rs:491`): a replay with more frames than the channel
  holds (64) ends with the handler's timeout, and the actor stands still until then.
- *Resume.* After a restart frames are numbered from 1 again, and a browser's remembered
  position beyond them is accepted.
- *Thoughts.* The worker drains the slots, which hold the newest thoughts, before older requests
  of the same session that still wait in the queue: the older one is saved last and stays until
  the session's next thought. And the delivery watermark moves when a thought is queued: a
  write that fails afterwards is only logged.
- *Exact cleanup.* A cancelled request, and one whose receipt cannot be written, leave the phase
  `Cleaning`, which turns every retry away until a restart; `CleaningHasOwner` excepts both.
- *Input.* The client that gave up after two seconds is told that nothing was delivered
  (`types.rs:2236`, `core_routes.rs:658`), although the actor will still deliver it.
- *Parser.* `ESC ESC \` does not end an OSC sequence though it ends a private string; and the
  continuation bytes 0x90, 0x9b, 0x9d, 0x9e, 0x9f of UTF-8 text are taken for introducers
  (`detector.rs:610`), which may swallow up to 8192 bytes with the markers in them.
- *Bridge.* An update with a number and without a stream is always applied
  (`bridge_runner.rs:666`): repeated, it replaces a newer thought, and whatever comes next may
  replace what it left. `StreamedThoughtsNeverGoBack` therefore speaks of stored thoughts with a
  stream and lets such an update replace them. When the first emission of a new stream is turned
  away because persistence is degraded, the old watermark stays, and every later update of the
  new stream, whose number is not 1, is turned away until the daemon is restarted.
- *Interface.* The result of an earlier create, batch or send closes whatever composer is open
  by then, with its draft. When a publication is served but its reply is lost, and the selection
  then returns to the session acknowledged last, no refresh repairs what the server has: the code
  compares with `published_selected_id` and not with what it has sent since (`app.rs:905`). This is
  the exception of `SelectionArrives`; `docs/modes/2026-04-09/MODE_OUTPUT_F4.md:48` says that every
  merge refresh re-syncs the selection. A transcript that arrives after its composer was closed
  resets `voice_state` while another recording may run. The metadata of a refresh asked before a
  toggle may show the old value until the next.

## 6. How the modules fit together

`SessionActor` composes the detector, whose own machine is `DetectorCalls`; `EscapeParser`
justifies its abstraction of a chunk. `SessionActor` implements `OutputPipe`.
`InputDelivery` extends `TmuxBreaker`. The other modules meet at narrow interfaces, each of
which is modelled on both sides: `SessionStream` takes the actor's emissions as they come, as
`OutputPipe` promises them; `ThoughtBridge` lets `persist_thought` accept or
refuse an update, and `ThoughtPersist` shows what becomes of one that it accepts;
`ThoughtPersist` and `SessionRegistry` let a write succeed or fail, and `FileStore` shows what
each means on the disk (the registry's cleanup records are saved by the registry itself,
and its model has the outcomes of that code); `TuiApp` sees the server as a set of sessions.

## 7. Not modelled

- Remote sessions (`src/api/remote_sessions.rs`): a polling proxy to other swimmers servers,
  with caches of what they answered.
- The process-tree walk behind liveness (`src/session/actor/activity.rs` and helpers): its
  result is an input of `SessionActor`.
- Group input, which sends to several sessions independently and adds up the results, and
  read-only routes of the HTTP API; authentication and assets.
- Overlay, artifacts, native terminals, operator pressure, fleet lens, themes: files of other
  tools that are read and presented, and derived views over the session list.
- Drawing, layout, the Mermaid viewer and the thought panel of the terminal interface; parsing
  of configuration and command line; serialisation.

These hold no state that several actors change, or only caches that are replaced as a whole.
