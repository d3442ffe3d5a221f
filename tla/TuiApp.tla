------------------------------- MODULE TuiApp -------------------------------
(***************************************************************************)
(* The terminal interface as a client of the server                        *)
(* (src/bin/swimmers_tui/app.rs and app/).  One thread handles events and  *)
(* polls, once per frame, the results of three kinds of task it spawned:   *)
(* a refresh of the session list, one user interaction (create, adopt,     *)
(* send, transcribe, ...), and one publication of the selected session.    *)
(* The list that a refresh fetched replaces the shown one unless sessions  *)
(* were added meanwhile (refresh_epoch); text that was dictated goes to    *)
(* the composer it was recorded in (initial_request_generation).           *)
(*                                                                         *)
(* Sessions are numbered in the order of their names, which is the order   *)
(* they are shown in; 0 is no session.                                     *)
(***************************************************************************)
EXTENDS Naturals, FiniteSets

CONSTANTS
    Sessions,
    MaxInputs,    \* bound on the events of the user
    MaxFaults     \* bound on requests that fail or whose reply is lost

ASSUME TuiAssumption ==
    /\ Sessions \subseteq Nat \ {0}
    /\ MaxInputs \in Nat /\ MaxFaults \in Nat

VARIABLES
    alive,        \* the server's sessions
    unborn,       \* sessions the server has not had yet
    served,       \* the server's published selection
    stage,        \* "run", "drain" (the loop has ended) or "done"
    shown,        \* the sessions of entities
    matching,     \* the sessions thought_filter lets through
    selected,     \* selected_id
    epoch,        \* refresh_epoch
    refresh,      \* the refresh that is awaited: its task, epoch and list
    published,    \* published_selected_id
    publication,  \* pending_selection_publication and, in queued, the next one
    awaited,      \* the interaction pending_interaction waits for
    jobs,         \* interactions whose task runs or has sent its result
    answer,       \* the result: "none" yet, "ok" or "failed", and its sessions
    composer,     \* initial_request is open
    generation,   \* initial_request_generation
    recording,    \* voice_recording: the generation it was started in, or 0
    voice,        \* voice_state
    dictation,    \* the recording that is transcribed: where it was started and
                  \* the generation that was sent with it
    heard,        \* history: where the dictated text of the composer was started
    lost,         \* history: the reply to the last publication served was lost
    cleared,      \* history: the clear at the end has succeeded
    inputs,       \* events so far
    faults        \* faults so far

serverVars == <<alive, unborn>>
listVars == <<shown, selected, epoch>>
publishVars == <<published, publication>>
jobVars == <<awaited, jobs, answer>>
composerVars == <<composer, generation, recording, voice, heard>>
endVars == <<stage, cleared>>
vars == <<serverVars, served, endVars, listVars, matching, refresh, publishVars, jobVars,
          composerVars, dictation, lost, inputs, faults>>

Kinds == {"create", "adopt", "send", "voice", "other"}
NoRefresh == [state |-> "none", epoch |-> 0, list |-> {}]
Idle == [state |-> "idle", sel |-> 0, queued |-> {}]
NoDictation == [start |-> 0, sent |-> 0]
NoAnswer == [state |-> "none", got |-> {}]

Init ==
    /\ alive \in SUBSET Sessions /\ unborn = Sessions \ alive
    /\ served = 0 /\ stage = "run" /\ cleared = FALSE
    /\ shown = {} /\ matching = Sessions /\ selected = 0 /\ epoch = 0
    /\ refresh = NoRefresh
    /\ published = 0 /\ publication = Idle
    /\ awaited = "none" /\ jobs = {} /\ answer = NoAnswer
    /\ composer = FALSE /\ generation = 0 /\ recording = 0 /\ voice = "idle" /\ heard = {}
    /\ dictation = NoDictation
    /\ lost = FALSE /\ inputs = 0 /\ faults = 0

Fault == faults < MaxFaults /\ faults' = faults + 1

\* An event of the user, or a poll of the frame.
Runs == stage = "run"
Input == Runs /\ inputs < MaxInputs /\ inputs' = inputs + 1

-----------------------------------------------------------------------------
(* The selection *)

First(S) == CHOOSE s \in S : \A t \in S : s <= t

\* reconcile_selection.
Reconciled(list, filter, sel) ==
    IF sel \in list \cap filter THEN sel
    ELSE IF list \cap filter = {} THEN 0
    ELSE First(list \cap filter)

\* maybe_spawn_selection_publication, when `next` is queued.
Spawned(pub, done, next) ==
    IF pub.state # "idle" THEN [pub EXCEPT !.queued = next]
    ELSE IF next \subseteq {done} THEN Idle
    ELSE [state |-> "sent", sel |-> CHOOSE s \in next : TRUE, queued |-> {}]

\* sync_selection_publication.
Synced(pub, sel) == Spawned(pub, published, {sel})

Choose(sel) == selected' = sel /\ publication' = Synced(publication, sel)

Move ==
    /\ Input /\ ~composer
    /\ IF shown \cap matching = {}
       THEN Choose(0)
       ELSE \E s \in shown \cap matching : Choose(s)
    /\ UNCHANGED <<serverVars, served, endVars, shown, epoch, matching, refresh, published,
                   jobVars, composerVars, dictation, lost, faults>>

SetFilter ==
    /\ Input /\ ~composer
    /\ matching' \in SUBSET Sessions
    /\ Choose(Reconciled(shown, matching', selected))
    /\ UNCHANGED <<serverVars, served, endVars, shown, epoch, refresh, published, jobVars,
                   composerVars, dictation, lost, faults>>

\* The server answers the publication, or it fails before or after it is served.
Publish ==
    /\ publication.state = "sent"
    /\ \/ /\ served' = publication.sel /\ lost' = FALSE
          /\ publication' = [publication EXCEPT !.state = "ok"]
          /\ UNCHANGED faults
       \/ /\ Fault
          /\ publication' = [publication EXCEPT !.state = "failed"]
          /\ \/ UNCHANGED <<served, lost>>
             \/ served' = publication.sel /\ lost' = TRUE
    /\ UNCHANGED <<serverVars, endVars, listVars, matching, refresh, published, jobVars,
                   composerVars, dictation, inputs>>

AcknowledgedAnyway == publication.sel   \* mutant: failed or not

\* published_selected_id when the result has been taken.
Acknowledged == IF publication.state = "ok" THEN publication.sel ELSE published

PollPublication ==
    /\ Runs
    /\ publication.state \in {"ok", "failed"}
    /\ published' = Acknowledged
    /\ publication' = Spawned([publication EXCEPT !.state = "idle"], published',
                              publication.queued)
    /\ UNCHANGED <<serverVars, served, endVars, listVars, matching, refresh, jobVars,
                   composerVars, dictation, lost, inputs, faults>>

-----------------------------------------------------------------------------
(* The list *)

Asked == [state |-> "asked", epoch |-> epoch, list |-> {}]

SpawnRefresh ==
    /\ Runs
    /\ refresh.state = "none"
    /\ refresh' = Asked
    /\ UNCHANGED <<serverVars, served, endVars, listVars, matching, publishVars, jobVars,
                   composerVars, dictation, lost, inputs, faults>>

\* The receiver of the refresh under way is dropped, and its result with it.
ManualRefresh ==
    /\ Input /\ ~composer
    /\ refresh' = Asked
    /\ UNCHANGED <<serverVars, served, endVars, listVars, matching, publishVars, jobVars,
                   composerVars, dictation, lost, faults>>

Fetch ==
    /\ Runs
    /\ refresh.state = "asked"
    /\ \/ refresh' = [refresh EXCEPT !.state = "got", !.list = alive] /\ UNCHANGED faults
       \/ refresh' = [refresh EXCEPT !.state = "failed"] /\ Fault
    /\ UNCHANGED <<serverVars, served, endVars, listVars, matching, publishVars, jobVars,
                   composerVars, dictation, lost, inputs>>

AppliesAnyway == refresh.state = "got"   \* mutant: the epoch is not compared

\* apply_refresh_result replaces the list only if no session was added since.
Applies == refresh.state = "got" /\ refresh.epoch >= epoch

PollRefresh ==
    /\ Runs
    /\ refresh.state \in {"got", "failed"}
    /\ IF Applies
       THEN /\ shown' = refresh.list
            /\ Choose(Reconciled(shown', matching, selected))
       ELSE UNCHANGED <<shown, selected, publication>>
    /\ refresh' = NoRefresh
    /\ UNCHANGED <<serverVars, served, endVars, epoch, matching, published, jobVars,
                   composerVars, dictation, lost, inputs, faults>>

\* Other clients start sessions and sessions end.  (What the tasks and the server
\* do after the loop matters only for the published selection.)
ServerChanges ==
    /\ Runs
    /\ \/ \E s \in unborn : alive' = alive \cup {s} /\ unborn' = unborn \ {s}
       \/ \E s \in alive : alive' = alive \ {s} /\ UNCHANGED unborn
    /\ UNCHANGED <<served, endVars, listVars, matching, refresh, publishVars, jobVars,
                   composerVars, dictation, lost, inputs, faults>>

-----------------------------------------------------------------------------
(* The composer *)

\* mutant: an interaction replaces the one under way
BeginAnother(kind) ==
    awaited' = kind /\ jobs' = jobs \cup {kind} /\ UNCHANGED answer

\* begin_pending_interaction.
Begin(kind) ==
    /\ awaited = "none"
    /\ awaited' = kind /\ jobs' = jobs \cup {kind} /\ UNCHANGED answer

\* mutant: the recording goes on
NewGenerationRecording(open) ==
    /\ composer' = open
    /\ generation' = generation + 1
    /\ UNCHANGED <<recording, voice>> /\ heard' = {}

\* Opening and closing cancel a recording; both end the generation.
NewGeneration(open) ==
    /\ composer' = open
    /\ generation' = generation + 1
    /\ recording' = 0 /\ voice' = "idle" /\ heard' = {}

OpenComposer ==
    /\ Input /\ ~composer
    /\ NewGeneration(TRUE)
    /\ UNCHANGED <<serverVars, served, endVars, listVars, matching, refresh, publishVars,
                   jobVars, dictation, lost, faults>>

Escape ==
    /\ Input /\ composer
    /\ NewGeneration(FALSE)
    /\ UNCHANGED <<serverVars, served, endVars, listVars, matching, refresh, publishVars,
                   jobVars, dictation, lost, faults>>

StartRecording ==
    /\ Input /\ composer
    /\ voice # "transcribing" /\ recording = 0
    /\ \/ recording' = generation /\ voice' = "recording"
       \/ voice' = "failed" /\ UNCHANGED recording
    /\ UNCHANGED <<serverVars, served, endVars, listVars, matching, refresh, publishVars,
                   jobVars, composer, generation, heard, dictation, lost, faults>>

\* plan_finish_voice_recording: while an interaction is pending the recording
\* goes on.
FinishRecording ==
    /\ Input /\ composer
    /\ voice # "transcribing" /\ recording # 0
    /\ Begin("voice")
    /\ dictation' = [start |-> recording, sent |-> generation]
    /\ recording' = 0 /\ voice' = "transcribing"
    /\ UNCHANGED <<serverVars, served, endVars, listVars, matching, refresh, publishVars,
                   composer, generation, heard, lost, faults>>

-----------------------------------------------------------------------------
(* Interactions *)

\* The composer stays open until the result is there.
Submit ==
    /\ Input /\ composer
    /\ recording = 0 /\ voice # "transcribing"
    /\ Begin("create") \/ Begin("send")
    /\ UNCHANGED <<serverVars, served, endVars, listVars, matching, refresh, publishVars,
                   composerVars, dictation, lost, faults>>

Adopt ==
    /\ Input /\ ~composer
    /\ Begin("adopt")
    /\ UNCHANGED <<serverVars, served, endVars, listVars, matching, refresh, publishVars,
                   composerVars, dictation, lost, faults>>

\* select_and_open_session; nothing is opened while an interaction is pending or
\* when the session is remote without an attach command.
Open ==
    /\ Input /\ ~composer
    /\ \E s \in shown \cap matching : Choose(s)
    /\ Begin("other") \/ UNCHANGED jobVars
    /\ UNCHANGED <<serverVars, served, endVars, shown, epoch, matching, refresh, published,
                   composerVars, dictation, lost, faults>>

Reply(state, got) == answer' = [state |-> state, got |-> got]

\* The task of the interaction ends.  The sessions that a create makes are there
\* even when its reply is lost.
Serve ==
    /\ Runs
    /\ jobs # {} /\ answer = NoAnswer
    /\ \E kind \in jobs :
          IF kind \in {"create", "adopt"}
          THEN \E new \in SUBSET unborn :
                  /\ alive' = alive \cup new /\ unborn' = unborn \ new
                  /\ \/ kind = "create" /\ Reply("ok", new) /\ UNCHANGED faults
                     \/ /\ kind = "adopt" /\ UNCHANGED faults
                        /\ \E s \in alive' : new \subseteq {s} /\ Reply("ok", {s})
                     \/ Fault /\ Reply("failed", {})
          ELSE /\ Reply("ok", {}) \/ Reply("failed", {})
               /\ UNCHANGED <<serverVars, faults>>
    /\ UNCHANGED <<served, endVars, listVars, matching, refresh, publishVars, awaited, jobs,
                   composerVars, dictation, lost, inputs>>

\* remember_and_upsert_pending_session, and its like for a batch: the list is
\* merged and published with the old selection, then the new one is selected.
Upsert(got) ==
    IF got = {} THEN UNCHANGED <<listVars, publication>>
    ELSE /\ epoch' = epoch + 1
         /\ shown' = shown \cup got
         /\ \E s \in got : selected' = Reconciled(shown', matching, s)
         /\ publication' = Synced(Synced(publication, Reconciled(shown', matching, selected)),
                                  selected')

\* A batch of which every part has failed leaves the composer open.
Created(got) ==
    /\ Upsert(got)
    /\ \/ NewGeneration(FALSE)
       \/ got = {} /\ UNCHANGED composerVars

Sent == NewGeneration(FALSE) \/ UNCHANGED composerVars

\* insert_voice_transcript.
Inserts == composer /\ dictation.sent = generation

Transcribed ==
    /\ voice' = "idle"
    /\ heard' = IF Inserts THEN heard \cup {dictation.start} ELSE heard
    /\ UNCHANGED <<composer, generation, recording>>

\* apply_pending_interaction_result.
Apply(kind, got) ==
    /\ CASE kind = "create" -> Created(got)
         [] kind = "adopt"  -> Upsert(got) /\ UNCHANGED composerVars
         [] kind = "send"   -> Sent /\ UNCHANGED <<listVars, publication>>
         [] kind = "voice"  -> Transcribed /\ UNCHANGED <<listVars, publication>>
         [] OTHER           -> UNCHANGED <<listVars, publication, composerVars>>
    \* a saved thought configuration refreshes the list
    /\ IF kind = "other" THEN refresh' \in {refresh, Asked} ELSE UNCHANGED refresh

ApplyError(kind) ==
    /\ voice' = IF kind = "voice" THEN "failed" ELSE voice
    /\ UNCHANGED <<listVars, publication, refresh, composer, generation, recording, heard>>

PollInteraction ==
    /\ Runs
    /\ awaited # "none" /\ answer # NoAnswer
    /\ awaited' = "none" /\ jobs' = jobs \ {awaited} /\ answer' = NoAnswer
    /\ IF answer.state = "ok" THEN Apply(awaited, answer.got) ELSE ApplyError(awaited)
    /\ dictation' = NoDictation
    /\ UNCHANGED <<serverVars, served, endVars, matching, published, lost, inputs, faults>>

-----------------------------------------------------------------------------
(* The end *)

\* A key, or an error of the terminal at any time.  What the end does not read is
\* dropped; tasks that still run are of no more interest.
Quit ==
    /\ Runs
    /\ stage' = "drain"
    /\ alive' = {} /\ unborn' = {}
    /\ shown' = {} /\ matching' = {} /\ selected' = 0 /\ epoch' = 0
    /\ refresh' = NoRefresh
    /\ awaited' = "none" /\ jobs' = {} /\ answer' = NoAnswer
    /\ composer' = FALSE /\ generation' = 0 /\ recording' = 0 /\ voice' = "idle"
    /\ heard' = {} /\ dictation' = NoDictation
    /\ inputs' = MaxInputs
    /\ UNCHANGED <<served, cleared, publishVars, lost, faults>>

DrainedAtOnce == TRUE   \* mutant: nothing is drained

\* drain_pending_selection_publication waits for the publication under way.
Drained == publication.state # "sent"

\* clear_published_selection.
Clear ==
    /\ stage = "drain"
    /\ Drained
    /\ stage' = "done"
    /\ \/ /\ served' = 0 /\ lost' = FALSE /\ cleared' = TRUE
          /\ published' = 0
          /\ UNCHANGED faults
       \/ /\ Fault /\ served' \in {served, 0} /\ lost' = TRUE
          /\ published' = Acknowledged
          /\ UNCHANGED cleared
    /\ publication' = IF publication.state = "sent" THEN publication ELSE Idle
    /\ UNCHANGED <<serverVars, listVars, matching, refresh, jobVars, composerVars, dictation,
                   inputs>>

Event ==
    \/ Move \/ SetFilter \/ ManualRefresh \/ OpenComposer \/ Escape
    \/ StartRecording \/ FinishRecording \/ Submit \/ Adopt \/ Open

Frame == PollPublication \/ PollInteraction \/ PollRefresh \/ SpawnRefresh

Task == Publish \/ Fetch \/ Serve

Next == Event \/ Frame \/ Task \/ Quit \/ Clear \/ ServerChanges

(* Every frame polls, and the runtime runs the tasks; nothing is assumed of *)
(* the user, of the server's sessions or of an interaction.  Of the steps   *)
(* under one WF at most one is ever enabled.                                *)
Spec ==
    /\ Init /\ [][Next]_vars
    /\ WF_vars(SpawnRefresh \/ Fetch \/ PollRefresh)
    /\ WF_vars(Publish \/ PollPublication)

-----------------------------------------------------------------------------
Selections == Sessions \cup {0}

TypeOK ==
    /\ alive \subseteq Sessions /\ unborn \subseteq Sessions
    /\ served \in Selections /\ stage \in {"run", "drain", "done"} /\ cleared \in BOOLEAN
    /\ shown \subseteq Sessions /\ matching \subseteq Sessions /\ selected \in Selections
    /\ epoch \in Nat
    /\ refresh \in [state : {"none", "asked", "got", "failed"}, epoch : Nat,
                    list : SUBSET Sessions]
    /\ published \in Selections
    /\ publication \in [state : {"idle", "sent", "ok", "failed"}, sel : Selections,
                        queued : SUBSET Selections]
    /\ awaited \in Kinds \cup {"none"} /\ jobs \subseteq Kinds
    /\ answer \in [state : {"none", "ok", "failed"}, got : SUBSET Sessions]
    /\ composer \in BOOLEAN /\ generation \in Nat /\ recording \in Nat
    /\ voice \in {"idle", "recording", "transcribing", "failed"}
    /\ dictation \in [start : Nat, sent : Nat] /\ heard \subseteq Nat
    /\ lost \in BOOLEAN /\ inputs \in 0 .. MaxInputs /\ faults \in 0 .. MaxFaults

(***************************************************************************)
(* A session that is shown leaves the list only when the server has ended  *)
(* it: the list that a refresh fetched before a create, adopt or batch     *)
(* does not drop the session that came with it.                            *)
(***************************************************************************)
ListedStays == [][stage' = "run" => shown \cap alive \subseteq shown']_vars

(***************************************************************************)
(* The clear at the end is the last write of the published selection: once *)
(* it has succeeded no publication of the session resurrects one.          *)
(***************************************************************************)
ClearIsLast == cleared => served = 0

(***************************************************************************)
(* At most one interaction runs, and it is the one whose result is awaited:*)
(* no create, send or transcript is lost because another one took its      *)
(* place.                                                                  *)
(***************************************************************************)
OneInteraction == jobs = {awaited} \ {"none"}

(***************************************************************************)
(* Dictated text arrives in the composer it was recorded in or nowhere,    *)
(* although composers are closed and opened while it is transcribed.       *)
(***************************************************************************)
TranscriptsStay ==
    /\ composer => heard \subseteq {generation}
    /\ recording # 0 => composer /\ recording = generation

(***************************************************************************)
(* After the faults and the events, the selection that the server has is   *)
(* the one shown.  The reply of a publication that was served may be lost: *)
(* the session published before it, selected again, is not published.      *)
(***************************************************************************)
SelectionArrives ==
    <>[](stage # "run" \/ served = selected \/ (lost /\ selected = published))
=============================================================================
