--------------------------- MODULE SessionStream ---------------------------
(***************************************************************************)
(* From an emitted frame to a browser: the replay ring                     *)
(* (src/session/replay_ring.rs), the subscribers of a SessionActor         *)
(* (src/session/actor/subscribers.rs), the WebSocket handlers that         *)
(* subscribe (src/web/ws_events.rs) and the browsers that reconnect with   *)
(* the last sequence number they rendered                                  *)
(* (src/web/session_socket_controller.js).                                 *)
(*                                                                         *)
(* A frame is its sequence number and its size; a channel holds sequence   *)
(* numbers.  A connection has an identity of its own (client_id), so the   *)
(* actor can still hold one that its browser has given up.                 *)
(***************************************************************************)
EXTENDS Integers, Sequences, FiniteSets, SequencesExt

CONSTANTS
    Browsers,
    Ids,            \* identities of connections, reused once nobody holds them
    NoId,
    Capacity,       \* bytes the ring retains
    Sizes,          \* sizes of frames
    ChanBound,      \* frames a subscriber's channel holds (outbound_queue_bound)
    MaxSubs,        \* MAX_OUTPUT_SUBSCRIBERS_PER_SESSION
    MaxFrames,      \* bound on the frames of one actor (model only)
    MaxRestarts     \* bound on the restarts of the server (model only)

ASSUME StreamAssumption ==
    /\ NoId \notin Ids
    /\ Capacity \in Nat \ {0} /\ Sizes \subseteq Nat \ {0}
    /\ ChanBound \in Nat \ {0} /\ MaxSubs \in Nat \ {0}
    /\ MaxFrames \in Nat /\ MaxRestarts \in Nat

VARIABLES
    ring,       \* the frames retained, oldest first
    latest,     \* the last sequence number assigned
    clearRing,  \* clear_replay_on_first_idle
    subs,       \* the connections the actor broadcasts to
    cmdQ,       \* the actor's command channel
    blocked,    \* the connection whose replay the actor waits to send, or NoId
    conn,       \* each browser's current connection, or NoId
    phase,      \* how far that connection is
    pos,        \* the last frame rendered, or the position it resumes from
    chan,       \* the channel from the actor to that connection
    told,       \* the browser was told that its replay is truncated
    seen,       \* the last frame a browser rendered, 0 if none (kept across connections)
    restarts

actorVars == <<ring, latest, clearRing, subs, cmdQ, blocked>>
wsVars == <<conn, phase, pos, chan, told, seen>>
vars == <<actorVars, wsVars, restarts>>

Phases == {"off", "cursor", "waiting", "acked", "rejected", "attached"}

-----------------------------------------------------------------------------
(* ReplayRing *)

Bytes(frames) == FoldLeft(LAMBDA sum, f : sum + f.size, 0, frames)

WindowStart == IF ring = <<>> THEN latest + 1 ELSE ring[1].seq

(* No more are evicted: none is left, or the new frame fits behind them.    *)
Fits(frames, k, size) ==
    k = Len(frames) + 1 \/ Bytes(SubSeq(frames, k, Len(frames))) + size <= Capacity

KeepFrom(frames, size) ==
    CHOOSE k \in 1 .. Len(frames) + 1 :
        Fits(frames, k, size) /\ \A j \in 1 .. k - 1 : ~Fits(frames, j, size)

(* push: a frame larger than the ring keeps its suffix and is marked; the  *)
(* oldest frames make room.                                                *)
Push(frames, seq, size) ==
    LET retained == IF size > Capacity THEN Capacity ELSE size
    IN  Append(SubSeq(frames, KeepFrom(frames, retained), Len(frames)),
               [seq |-> seq, size |-> retained, clamped |-> size > Capacity])

(* replay_from: the frames numbered seq or more, which are the end of the  *)
(* ring from one place on.                                                 *)
Start(seq) ==
    CHOOSE k \in 1 .. Len(ring) + 1 :
        \A j \in 1 .. Len(ring) : ring[j].seq >= seq <=> j >= k
From(seq) == SubSeq(ring, Start(seq), Len(ring))
ReplayableUnchecked(seq) ==   \* mutant: evicted frames are not noticed
    \A k \in 1 .. Len(From(seq)) : ~From(seq)[k].clamped
Replayable(seq) == seq >= WindowStart /\ \A k \in 1 .. Len(From(seq)) : ~From(seq)[k].clamped
ReplaySeqsAfter(seq) ==   \* mutant: the first frame asked for is left out
    [k \in 1 .. Len(From(seq + 1)) |-> From(seq + 1)[k].seq]
ReplaySeqs(seq) == [k \in 1 .. Len(From(seq)) |-> From(seq)[k].seq]

-----------------------------------------------------------------------------
InUse == subs \cup {cmdQ[k].id : k \in 1 .. Len(cmdQ)} \cup {blocked}
              \cup {conn[b] : b \in Browsers}
Open(id) == \E b \in Browsers : conn[b] = id
Owner(id) == CHOOSE b \in Browsers : conn[b] = id
OpenSubs == {id \in subs : Open(id)}

Init ==
    /\ ring = <<>> /\ latest = 0 /\ clearRing \in BOOLEAN
    /\ subs = {} /\ cmdQ = <<>> /\ blocked = NoId
    /\ conn = [b \in Browsers |-> NoId]
    /\ phase = [b \in Browsers |-> "off"]
    /\ pos = [b \in Browsers |-> 0]
    /\ chan = [b \in Browsers |-> <<>>]
    /\ told = [b \in Browsers |-> FALSE]
    /\ seen = [b \in Browsers |-> 0]
    /\ restarts = 0

-----------------------------------------------------------------------------
(* The actor. *)

(* process_output_chunk: clear the startup ring on the first idle, push,    *)
(* broadcast with try_send; a full or closed channel loses its subscriber.  *)
Delivered(id) == Open(id) /\ Len(chan[Owner(id)]) < ChanBound

RemainingWithOverloaded == {id \in subs : Open(id)}   \* mutant: only the frame is dropped
Remaining == {id \in subs : Delivered(id)}

Output ==
    /\ blocked = NoId /\ cmdQ = <<>> /\ latest < MaxFrames
    /\ \E size \in Sizes, idle \in BOOLEAN :
          /\ ring' = Push(IF clearRing /\ idle THEN <<>> ELSE ring, latest + 1, size)
          /\ clearRing' = (clearRing /\ ~idle)
    /\ latest' = latest + 1
    /\ subs' = Remaining
    /\ chan' = [b \in Browsers |-> IF conn[b] \in subs /\ Delivered(conn[b])
                                  THEN Append(chan[b], latest + 1) ELSE chan[b]]
    /\ UNCHANGED <<cmdQ, blocked, conn, phase, pos, told, seen, restarts>>

Answer(b, outcome, frames) ==
    /\ phase' = [phase EXCEPT ![b] = IF outcome = "rejected" THEN "rejected" ELSE "acked"]
    /\ told' = [told EXCEPT ![b] = outcome = "truncated"]
    /\ chan' = [chan EXCEPT ![b] = frames]

SubscribersFull == Cardinality(OpenSubs) >= MaxSubs

(* handle_subscribe for a connection that still listens. *)
SubscribeOpen(id, resume) ==
    LET b == Owner(id) frames == ReplaySeqs(resume + 1) IN
    IF SubscribersFull
    THEN /\ subs' = OpenSubs
         /\ Answer(b, "rejected", <<>>) /\ UNCHANGED blocked
    ELSE IF ~Replayable(resume + 1)
    THEN /\ subs' = OpenSubs \cup {id}
         /\ Answer(b, "truncated", <<>>) /\ UNCHANGED blocked
    ELSE IF Len(frames) <= ChanBound
    THEN /\ subs' = OpenSubs \cup {id}
         /\ Answer(b, "ok", frames) /\ UNCHANGED blocked
    ELSE /\ subs' = OpenSubs
         /\ blocked' = id       \* client_tx.send waits for room that only the ack makes
         /\ UNCHANGED <<phase, told, chan>>

HandleCommand ==
    /\ blocked = NoId /\ cmdQ # <<>>
    /\ LET cmd == Head(cmdQ) IN
       IF cmd.op = "unsubscribe"
       THEN subs' = subs \ {cmd.id} /\ UNCHANGED <<blocked, phase, told, chan>>
       ELSE IF Open(cmd.id) THEN SubscribeOpen(cmd.id, cmd.resume)
       ELSE subs' = OpenSubs /\ UNCHANGED <<blocked, phase, told, chan>>
    /\ cmdQ' = Tail(cmdQ)
    /\ UNCHANGED <<ring, latest, clearRing, conn, pos, seen, restarts>>

(* The receiver is gone: the pending send fails, nothing is attached. *)
ReplayAborts ==
    /\ blocked # NoId /\ ~Open(blocked)
    /\ blocked' = NoId
    /\ UNCHANGED <<ring, latest, clearRing, subs, cmdQ, wsVars, restarts>>

(* The server restarts; discovery finds the tmux session again and gives    *)
(* it its persisted identity.  The new actor numbers its frames from 1.     *)
ServerRestart ==
    /\ restarts < MaxRestarts
    /\ restarts' = restarts + 1
    /\ ring' = <<>> /\ latest' = 0 /\ clearRing' = FALSE
    /\ subs' = {} /\ cmdQ' = <<>> /\ blocked' = NoId
    /\ conn' = [b \in Browsers |-> NoId]
    /\ phase' = [b \in Browsers |-> "off"]
    /\ chan' = [b \in Browsers |-> <<>>]
    /\ told' = [b \in Browsers |-> FALSE]
    /\ UNCHANGED <<pos, seen>>

-----------------------------------------------------------------------------
(* The WebSocket handler and its browser. *)

(* request_replay_cursor; a browser that has rendered frames resumes there, *)
(* another one from the start of the window.                                *)
Connect(b) ==
    /\ phase[b] = "off" /\ blocked = NoId
    /\ \E id \in Ids \ InUse : conn' = [conn EXCEPT ![b] = id]
    /\ phase' = [phase EXCEPT ![b] = "cursor"]
    /\ pos' = [pos EXCEPT ![b] = IF seen[b] > 0 THEN seen[b] ELSE WindowStart - 1]
    /\ UNCHANGED <<actorVars, chan, told, seen, restarts>>

Subscribe(b) ==
    /\ phase[b] = "cursor"
    /\ cmdQ' = Append(cmdQ, [op |-> "subscribe", id |-> conn[b], resume |-> pos[b]])
    /\ phase' = [phase EXCEPT ![b] = "waiting"]
    /\ UNCHANGED <<ring, latest, clearRing, subs, blocked, conn, pos, chan, told, seen, restarts>>

Drop(b) ==
    /\ conn' = [conn EXCEPT ![b] = NoId]
    /\ phase' = [phase EXCEPT ![b] = "off"]
    /\ chan' = [chan EXCEPT ![b] = <<>>]
    /\ told' = [told EXCEPT ![b] = FALSE]
    /\ UNCHANGED <<pos, seen>>

(* REPLY_TIMEOUT passes before the ack: no guard is armed yet. *)
AckTimeout(b) ==
    /\ phase[b] = "waiting"
    /\ Drop(b)
    /\ UNCHANGED <<actorVars, restarts>>

(* send_session_ws_ready: the notice, if any, precedes the frames. *)
Ready(b) ==
    /\ phase[b] = "acked"
    /\ phase' = [phase EXCEPT ![b] = "attached"]
    /\ UNCHANGED <<actorVars, conn, pos, chan, told, seen, restarts>>

Render(b) ==
    /\ phase[b] = "attached" /\ chan[b] # <<>>
    /\ pos' = [pos EXCEPT ![b] = Head(chan[b])]
    /\ seen' = [seen EXCEPT ![b] = Head(chan[b])]
    /\ chan' = [chan EXCEPT ![b] = Tail(@)]
    /\ UNCHANGED <<actorVars, conn, phase, told, restarts>>

(* The handler returns.  Unsubscribe is best effort: the guard's try_send   *)
(* finds a full queue, or the process is cut off before it.                 *)
Leave(b) ==
    /\ \/ cmdQ' = Append(cmdQ, [op |-> "unsubscribe", id |-> conn[b], resume |-> 0])
       \/ UNCHANGED cmdQ
    /\ Drop(b)
    /\ UNCHANGED <<ring, latest, clearRing, subs, blocked, restarts>>

(* The socket or the handler fails. *)
Disconnect(b) == phase[b] \in {"acked", "attached"} /\ Leave(b)

(* The stream ended: rejected, or dropped as overloaded and drained. *)
StreamEnds(b) ==
    /\ \/ phase[b] = "rejected"
       \/ phase[b] = "attached" /\ conn[b] \notin subs /\ chan[b] = <<>>
    /\ Leave(b)

(* destroyTerminalInstance: what was rendered is gone, and its position too. *)
Forget(b) ==
    /\ phase[b] = "off" /\ seen[b] > 0
    /\ seen' = [seen EXCEPT ![b] = 0]
    /\ UNCHANGED <<actorVars, conn, phase, pos, chan, told, restarts>>

WsStep(b) ==
    Connect(b) \/ Subscribe(b) \/ AckTimeout(b) \/ Ready(b) \/ Render(b) \/ StreamEnds(b)

Next ==
    \/ Output \/ HandleCommand \/ ReplayAborts \/ ServerRestart
    \/ \E b \in Browsers : WsStep(b) \/ Disconnect(b) \/ Forget(b)

(* The actor's task and each handler's task are polled when they can move,  *)
(* and a timer that is due fires; output and failures are never required.   *)
Fairness ==
    /\ WF_vars(HandleCommand) /\ WF_vars(ReplayAborts)
    /\ \A b \in Browsers : WF_vars(WsStep(b))

Spec == Init /\ [][Next]_vars /\ Fairness

-----------------------------------------------------------------------------
Streaming(b) == phase[b] \in {"acked", "attached"}
Consecutive(s) == \A k \in 1 .. Len(s) - 1 : s[k + 1] = s[k] + 1

TypeOK ==
    /\ latest \in 0 .. MaxFrames /\ clearRing \in BOOLEAN
    /\ \A k \in 1 .. Len(ring) :
          ring[k] \in [seq : 1 .. MaxFrames, size : 1 .. Capacity, clamped : BOOLEAN]
    /\ subs \subseteq Ids /\ blocked \in Ids \cup {NoId}
    /\ conn \in [Browsers -> Ids \cup {NoId}] /\ phase \in [Browsers -> Phases]
    /\ pos \in [Browsers -> 0 .. MaxFrames] /\ seen \in [Browsers -> 0 .. MaxFrames]
    /\ told \in [Browsers -> BOOLEAN]
    /\ \A b \in Browsers : Len(chan[b]) <= ChanBound /\ (conn[b] = NoId <=> phase[b] = "off")

(* Nobody subscribed is silently missing output: what waits in a channel is *)
(* consecutive, and while the actor holds the subscriber it ends with the   *)
(* latest frame (an overloaded subscriber is removed, never skipped).       *)
SubscribersAreCurrent ==
    \A b \in Browsers : Streaming(b) =>
        /\ Consecutive(chan[b])
        /\ conn[b] \in subs /\ chan[b] # <<>> => Last(chan[b]) = latest

(* Replay and live frames join without a hole or a repetition: unless the   *)
(* browser was told that the replay is truncated, its channel continues     *)
(* exactly where it resumed, and an empty channel means nothing is missing. *)
(* After a restart a position the browser has kept means nothing to the new *)
(* actor, which accepts it all the same: nothing is claimed then.           *)
StreamHasNoGap ==
    \A b \in Browsers : Streaming(b) /\ ~told[b] /\ restarts = 0 =>
        IF chan[b] = <<>> THEN conn[b] \in subs => pos[b] = latest
        ELSE chan[b][1] = pos[b] + 1

(* Both, for every browser whose connection streams.                        *)
StreamIsWhole == SubscribersAreCurrent /\ StreamHasNoGap

(* A browser never goes back, and skips frames only after being told, until *)
(* the server restarts.                                                     *)
NeverBackNeverSkip ==
    [][\A b \in Browsers : restarts = 0 /\ seen'[b] \notin {0, seen[b]} =>
         /\ seen'[b] > seen[b]
         /\ seen'[b] = pos[b] + 1 \/ told[b]]_vars

(* A browser that stays connected catches up with the session, or is ahead  *)
(* of it with a position of the actor before a restart.                     *)
CatchesUp ==
    \A b \in Browsers :
        phase[b] = "attached" ~> (phase[b] # "attached" \/ pos[b] >= latest
                                  \/ (told[b] /\ chan[b] = <<>>))
=============================================================================
