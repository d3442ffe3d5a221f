--------------------------- MODULE ThoughtPersist ---------------------------
(***************************************************************************)
(* How a session's thoughts reach the store                                *)
(* (src/session/supervisor/thought_persistence.rs): the bridge hands each  *)
(* one over without waiting, to a bounded queue or, when that is full, to  *)
(* the one overflow slot of its session; a worker saves them; a shutdown   *)
(* waits until the pending counter is zero.                                *)
(*                                                                         *)
(* The thoughts of a session are numbered in the order the bridge gives    *)
(* them.  Each step of the bridge, the worker and the waiter that another  *)
(* thread can see is an action of its own.                                 *)
(***************************************************************************)
EXTENDS Integers, Sequences, FiniteSets

CONSTANTS
    Sessions,
    QueueCap,         \* THOUGHT_PERSIST_QUEUE_CAP
    MaxThoughts,      \* bound on the thoughts of one session (model only)
    MaxWriteErrors    \* bound on the writes the disk refuses (model only)

ASSUME ThoughtAssumption ==
    /\ IsFiniteSet(Sessions)
    /\ QueueCap \in Nat \ {0}
    /\ MaxThoughts \in Nat /\ MaxWriteErrors \in Nat

VARIABLES
    pending,      \* pending_thought_persists
    queue,        \* the mpsc channel
    slots,        \* the overflow slot of each session, 0 if empty
    permit,       \* overflow.notify holds a permit
    bridge,       \* how far the bridge's call of persist_thought is
    handing,      \* the request of that call
    given,        \* thoughts given so far
    watermark,    \* delivery_states: the last thought the bridge counts as delivered
    worker,       \* how far the worker is
    closing,      \* the channel is closed: this drain is the last
    held,         \* the request it is saving
    stored,       \* what the thoughts file holds
    saved,        \* the newest thought that was ever in it (history)
    errors,       \* writes that failed so far
    flush,        \* wait_for_pending_thought_persists
    woken         \* its registered Notified has been notified

bridgeVars == <<bridge, handing, given, watermark>>
storeVars == <<stored, saved, errors>>
queueVars == <<queue, slots, permit>>
workerVars == <<worker, closing, held>>
flushVars == <<flush, woken>>
vars == <<pending, queueVars, bridgeVars, workerVars, storeVars, flushVars>>

Request == [session : Sessions, n : 1 .. MaxThoughts]
NoRequest == [session |-> "none", n |-> 0]

Init ==
    /\ pending = 0 /\ queue = <<>> /\ slots = [s \in Sessions |-> 0] /\ permit = FALSE
    /\ bridge = "idle" /\ handing = NoRequest
    /\ given = [s \in Sessions |-> 0] /\ watermark = [s \in Sessions |-> 0]
    /\ worker = "select" /\ closing = FALSE /\ held = NoRequest
    /\ stored = [s \in Sessions |-> 0] /\ saved = [s \in Sessions |-> 0] /\ errors = 0
    /\ flush = "off" /\ woken = FALSE

NotifyWaitersPolled == woken' = (woken \/ flush = "asleep")   \* mutant: no enable

(* notify_waiters reaches only a waiter that is already registered. *)
NotifyWaiters == woken' = (woken \/ flush \in {"enabled", "loaded", "asleep"})

-----------------------------------------------------------------------------
(* The bridge: apply_update calls SupervisorProvider::persist_thought.      *)

Begin ==
    /\ bridge = "idle"
    /\ \E s \in Sessions :
          /\ given[s] < MaxThoughts
          /\ given' = [given EXCEPT ![s] = @ + 1]
          /\ handing' = [session |-> s, n |-> given[s] + 1]
    /\ pending' = pending + 1
    /\ NotifyWaiters
    /\ bridge' = "send"
    /\ UNCHANGED <<queueVars, watermark, workerVars, storeVars, flush>>

(* try_send: only a thought that enters the queue moves the watermark. *)
SendQueued ==
    /\ bridge = "send" /\ Len(queue) < QueueCap
    /\ queue' = Append(queue, handing)
    /\ watermark' = [watermark EXCEPT ![handing.session] = handing.n]
    /\ bridge' = "idle" /\ handing' = NoRequest
    /\ UNCHANGED <<pending, slots, permit, given, workerVars, storeVars, flushVars>>

SendFull ==
    /\ bridge = "send" /\ Len(queue) >= QueueCap
    /\ bridge' = "insert"
    /\ UNCHANGED <<pending, queueVars, handing, given, watermark, workerVars, storeVars, flushVars>>

InsertFirst ==   \* mutant: an occupied slot keeps its request
    /\ bridge = "insert"
    /\ slots' = [slots EXCEPT ![handing.session] = IF @ = 0 THEN handing.n ELSE @]
    /\ bridge' = IF slots[handing.session] # 0 THEN "replaced" ELSE "notify"
    /\ handing' = NoRequest
    /\ UNCHANGED <<pending, queue, permit, given, watermark, workerVars, storeVars, flushVars>>

InsertLatest ==
    /\ bridge = "insert"
    /\ slots' = [slots EXCEPT ![handing.session] = handing.n]
    /\ bridge' = IF slots[handing.session] # 0 THEN "replaced" ELSE "notify"
    /\ handing' = NoRequest
    /\ UNCHANGED <<pending, queue, permit, given, watermark, workerVars, storeVars, flushVars>>

(* finish_pending_thought_persist for the request that was replaced. *)
FinishReplaced ==
    /\ bridge = "replaced"
    /\ pending' = pending - 1
    /\ NotifyWaiters
    /\ bridge' = "notify"
    /\ UNCHANGED <<queueVars, handing, given, watermark, workerVars, storeVars, flush>>

NotifyNobody ==   \* mutant: the worker is not told of the slot
    /\ bridge = "notify"
    /\ bridge' = "idle"
    /\ UNCHANGED <<pending, queueVars, handing, given, watermark, workerVars, storeVars, flushVars>>

(* notify_one on the overflow slots. *)
NotifyWorker ==
    /\ bridge = "notify"
    /\ permit' = TRUE
    /\ bridge' = "idle"
    /\ UNCHANGED <<pending, queue, slots, handing, given, watermark, workerVars, storeVars, flushVars>>

(* The bridge task is aborted, never inside the call, which does not await; *)
(* its provider is dropped and with it the only sender.                     *)
Stop ==
    /\ bridge = "idle"
    /\ bridge' = "stopped"
    /\ UNCHANGED <<pending, queueVars, handing, given, watermark, workerVars, storeVars, flushVars>>

-----------------------------------------------------------------------------
(* The worker. *)

Take(r) == held' = r /\ worker' = "save"

Recv ==
    /\ worker = "select" /\ queue # <<>>
    /\ Take(Head(queue))
    /\ queue' = Tail(queue)
    /\ UNCHANGED <<pending, slots, permit, bridgeVars, closing, storeVars, flushVars>>

(* recv returns None: drain a last time and end. *)
RecvClosed ==
    /\ worker = "select" /\ queue = <<>> /\ bridge = "stopped"
    /\ worker' = "drain" /\ closing' = TRUE
    /\ UNCHANGED <<pending, queueVars, bridgeVars, held, storeVars, flushVars>>

Notified ==
    /\ worker = "select" /\ permit
    /\ permit' = FALSE
    /\ worker' = IF queue = <<>> THEN "drain" ELSE "select"
    /\ UNCHANGED <<pending, queue, slots, bridgeVars, closing, held, storeVars, flushVars>>

(* persist_thought of the supervisor and save_thought of the store: an      *)
(* error is logged, the request is over all the same.                       *)
Save ==
    /\ worker = "save"
    /\ \/ /\ stored' = [stored EXCEPT ![held.session] = held.n]
          /\ saved' = [saved EXCEPT ![held.session] = IF held.n > @ THEN held.n ELSE @]
          /\ UNCHANGED errors
       \/ /\ errors < MaxWriteErrors
          /\ errors' = errors + 1
          /\ UNCHANGED <<stored, saved>>
    /\ worker' = "finish"
    /\ UNCHANGED <<pending, queueVars, bridgeVars, closing, held, flushVars>>

(* finish_pending_thought_persist is two steps: the counter, the waiters.   *)
Finish ==
    /\ worker = "finish"
    /\ pending' = pending - 1
    /\ held' = NoRequest
    /\ worker' = "notify"
    /\ UNCHANGED <<queueVars, bridgeVars, closing, storeVars, flushVars>>

(* The wake-up, then the drain that follows every request. *)
FinishNotify ==
    /\ worker = "notify"
    /\ NotifyWaiters
    /\ worker' = "drain"
    /\ UNCHANGED <<pending, queueVars, bridgeVars, closing, held, storeVars, flush>>

(* drain_coalesced_persist_requests: any occupied slot is next. *)
DrainSlot ==
    /\ worker = "drain"
    /\ \E s \in Sessions :
          /\ slots[s] # 0
          /\ Take([session |-> s, n |-> slots[s]])
          /\ slots' = [slots EXCEPT ![s] = 0]
    /\ UNCHANGED <<pending, queue, permit, bridgeVars, closing, storeVars, flushVars>>

DrainEnds ==
    /\ worker = "drain" /\ \A s \in Sessions : slots[s] = 0
    /\ worker' = IF closing THEN "done" ELSE "select"
    /\ UNCHANGED <<pending, queueVars, bridgeVars, closing, held, storeVars, flushVars>>

-----------------------------------------------------------------------------
(* The shutdown, once the bridge is gone: wait_for_pending_thought_persists *)
(* registers with enable before it reads the counter.                       *)

FlushStart ==
    /\ flush = "off" /\ bridge = "stopped"
    /\ flush' = "start"
    /\ UNCHANGED <<pending, queueVars, bridgeVars, workerVars, storeVars, woken>>

FlushEnable ==
    /\ flush = "start"
    /\ flush' = "enabled" /\ woken' = FALSE
    /\ UNCHANGED <<pending, queueVars, bridgeVars, workerVars, storeVars>>

FlushLoadOffByOne ==   \* mutant: the request being saved does not count
    /\ flush = "enabled"
    /\ flush' = IF pending <= 1 THEN "drained" ELSE "loaded"
    /\ UNCHANGED <<pending, queueVars, bridgeVars, workerVars, storeVars, woken>>

FlushLoad ==
    /\ flush = "enabled"
    /\ flush' = IF pending = 0 THEN "drained" ELSE "loaded"
    /\ UNCHANGED <<pending, queueVars, bridgeVars, workerVars, storeVars, woken>>

(* The deadline may be over already; if not, wait for it or for the wake-up. *)
FlushSleep ==
    /\ flush = "loaded"
    /\ flush' \in {"asleep", "timedOut"}
    /\ UNCHANGED <<pending, queueVars, bridgeVars, workerVars, storeVars, woken>>

FlushWoken ==
    /\ flush = "asleep" /\ woken
    /\ flush' = "start"
    /\ UNCHANGED <<pending, queueVars, bridgeVars, workerVars, storeVars, woken>>

FlushTimeout ==
    /\ flush = "asleep"
    /\ flush' = IF pending = 0 THEN "drained" ELSE "timedOut"
    /\ UNCHANGED <<pending, queueVars, bridgeVars, workerVars, storeVars, woken>>

-----------------------------------------------------------------------------
BridgeCall == SendQueued \/ SendFull \/ InsertLatest \/ FinishReplaced \/ NotifyWorker
WorkerStep == Recv \/ RecvClosed \/ Notified \/ Save \/ Finish \/ FinishNotify
              \/ DrainSlot \/ DrainEnds
FlushStep  == FlushEnable \/ FlushLoad \/ FlushSleep \/ FlushWoken

Next == Begin \/ BridgeCall \/ Stop \/ WorkerStep \/ FlushStart \/ FlushStep \/ FlushTimeout

(* A call that has begun runs to its end and ready tasks are polled; the    *)
(* deadline of the flush is far away, so it is never relied on.             *)
Spec == Init /\ [][Next]_vars
        /\ WF_vars(BridgeCall) /\ WF_vars(WorkerStep) /\ WF_vars(FlushStep)

-----------------------------------------------------------------------------
OccupiedSlots == {s \in Sessions : slots[s] # 0}
InBridge == IF bridge \in {"send", "insert", "replaced"} THEN 1 ELSE 0
InWorker == IF worker \in {"save", "finish"} THEN 1 ELSE 0

TypeOK ==
    /\ pending \in Nat
    /\ queue \in Seq(Request) /\ Len(queue) <= QueueCap
    /\ slots \in [Sessions -> 0 .. MaxThoughts]
    /\ permit \in BOOLEAN /\ closing \in BOOLEAN /\ woken \in BOOLEAN
    /\ bridge \in {"idle", "send", "insert", "replaced", "notify", "stopped"}
    /\ handing \in Request \cup {NoRequest}
    /\ bridge \in {"send", "insert"} => handing \in Request
    /\ given \in [Sessions -> 0 .. MaxThoughts] /\ watermark \in [Sessions -> 0 .. MaxThoughts]
    /\ worker \in {"select", "save", "finish", "notify", "drain", "done"}
    /\ held \in Request \cup {NoRequest}
    /\ worker \in {"save", "finish"} => held \in Request
    /\ stored \in [Sessions -> 0 .. MaxThoughts] /\ saved \in [Sessions -> 0 .. MaxThoughts]
    /\ errors \in 0 .. MaxWriteErrors
    /\ flush \in {"off", "start", "enabled", "loaded", "asleep",
                 "drained", "timedOut"}

(* The pending counter counts each request once, wherever it is: in the     *)
(* bridge's call, in the queue, in a slot or with the worker.  It never     *)
(* underflows, and it is zero only when nothing is left to save             *)
(* ("pending thought persist counter underflow").                           *)
PendingIsExact ==
    pending = InBridge + Len(queue) + Cardinality(OccupiedSlots) + InWorker

(* Coalescing drops only what a newer thought replaces: once nothing is     *)
(* pending, the newest thought of every session has been in the store.      *)
NothingLost == pending = 0 /\ errors = 0 => saved = given

(* A flush that reports success has saved everything the bridge gave.       *)
FlushMeansSaved == flush = "drained" /\ errors = 0 => saved = given

(* A request waits in no slot and no queue for ever.                        *)
ThoughtsAreSaved ==
    \A s \in Sessions : \A k \in 1 .. MaxThoughts :
        (given[s] >= k) ~> (saved[s] >= k \/ errors > 0)

(* The flush does not depend on its deadline: the wake-up of the last save  *)
(* is not lost ("Register the waiter ... BEFORE reading the counter").      *)
FlushReturns == (flush = "start") ~> (flush \in {"drained", "timedOut"})
=============================================================================
