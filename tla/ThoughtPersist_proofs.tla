------------------------ MODULE ThoughtPersist_proofs ------------------------
(***************************************************************************)
(* The accounting of pending thoughts and what a flush guarantees, for any *)
(* sessions and any capacity.                                              *)
(***************************************************************************)
EXTENDS ThoughtPersist, FiniteSetTheorems, SequenceTheorems, TLAPS

(* The slots that are occupied can be counted, and one that is filled or     *)
(* emptied changes the count by one.                                         *)
LEMMA SlotsCount ==
    ASSUME NEW f \in [Sessions -> 0 .. MaxThoughts]
    PROVE  LET occupied == {s \in Sessions : f[s] # 0} IN
           /\ IsFiniteSet(occupied) /\ Cardinality(occupied) \in Nat
           /\ Cardinality(occupied) = 0 <=> \A s \in Sessions : f[s] = 0
<1> DEFINE occupied == {s \in Sessions : f[s] # 0}
<1>1. IsFiniteSet(occupied)
  BY FS_Subset, ThoughtAssumption
<1>2. Cardinality(occupied) \in Nat
  BY <1>1, FS_CardinalityType
<1>3. Cardinality(occupied) = 0 <=> occupied = {}
  BY <1>1, FS_EmptySet
<1>4. QED BY <1>1, <1>2, <1>3

LEMMA FillSlot ==
    ASSUME NEW f \in [Sessions -> 0 .. MaxThoughts], NEW s \in Sessions,
           NEW n \in 1 .. MaxThoughts
    PROVE  Cardinality({t \in Sessions : [f EXCEPT ![s] = n][t] # 0})
             = Cardinality({t \in Sessions : f[t] # 0}) + (IF f[s] = 0 THEN 1 ELSE 0)
<1> DEFINE before == {t \in Sessions : f[t] # 0}
           after == {t \in Sessions : [f EXCEPT ![s] = n][t] # 0}
<1>1. after = before \cup {s}
  BY ThoughtAssumption
<1>2. IsFiniteSet(before) /\ Cardinality(before) \in Nat
  BY SlotsCount
<1>3. s \in before <=> f[s] # 0
  OBVIOUS
<1> HIDE DEF before, after
<1>4. Cardinality(after) = Cardinality(before) + (IF f[s] = 0 THEN 1 ELSE 0)
  BY <1>1, <1>2, <1>3, FS_AddElement
<1>5. QED BY <1>4 DEF before, after

LEMMA EmptySlot ==
    ASSUME NEW f \in [Sessions -> 0 .. MaxThoughts], NEW s \in Sessions, f[s] # 0
    PROVE  Cardinality({t \in Sessions : [f EXCEPT ![s] = 0][t] # 0})
             = Cardinality({t \in Sessions : f[t] # 0}) - 1
<1> DEFINE before == {t \in Sessions : f[t] # 0}
           after == {t \in Sessions : [f EXCEPT ![s] = 0][t] # 0}
<1>1. after = before \ {s}
  OBVIOUS
<1>2. IsFiniteSet(before) /\ s \in before
  BY SlotsCount
<1> HIDE DEF before, after
<1>3. Cardinality(after) = Cardinality(before) - 1
  BY <1>1, <1>2, FS_RemoveElement
<1>4. QED BY <1>3 DEF before, after

-----------------------------------------------------------------------------
LEMMA TypeAndCountInit == Init => TypeOK /\ PendingIsExact
<1> SUFFICES ASSUME Init PROVE TypeOK /\ PendingIsExact
  OBVIOUS
<1>1. TypeOK
  <2>1. queue \in Seq(Request) /\ Len(queue) = 0
    BY EmptySeq DEF Init
  <2>2. [s \in Sessions |-> 0] \in [Sessions -> 0 .. MaxThoughts] /\ 0 \in 0 .. MaxWriteErrors
    BY ThoughtAssumption
  <2>3. /\ slots \in [Sessions -> 0 .. MaxThoughts] /\ given \in [Sessions -> 0 .. MaxThoughts]
        /\ watermark \in [Sessions -> 0 .. MaxThoughts]
        /\ stored \in [Sessions -> 0 .. MaxThoughts] /\ saved \in [Sessions -> 0 .. MaxThoughts]
        /\ errors \in 0 .. MaxWriteErrors
    BY <2>2 DEF Init
  <2>4. pending \in Nat /\ Len(queue) <= QueueCap
    BY <2>1, ThoughtAssumption DEF Init
  <2>5. permit \in BOOLEAN /\ closing \in BOOLEAN /\ woken \in BOOLEAN
    BY DEF Init
  <2>6. /\ bridge = "idle" /\ handing = NoRequest /\ worker = "select" /\ held = NoRequest
        /\ flush = "off"
    BY DEF Init
  <2>7. QED BY <2>1, <2>3, <2>4, <2>5, <2>6 DEF TypeOK
<1>2. Cardinality(OccupiedSlots) = 0
  BY <1>1, SlotsCount DEF Init, TypeOK, OccupiedSlots
<1>3. QED BY <1>1, <1>2, EmptySeq DEF Init, PendingIsExact, InBridge, InWorker

LEMMA TypeAndCountStep == TypeOK /\ PendingIsExact /\ [Next]_vars => TypeOK' /\ PendingIsExact'
<1> SUFFICES ASSUME TypeOK, PendingIsExact, [Next]_vars PROVE TypeOK' /\ PendingIsExact'
  OBVIOUS
<1> DEFINE slotCount == Cardinality(OccupiedSlots)
<1> USE DEF TypeOK
<1>0. /\ slotCount \in Nat /\ Len(queue) \in Nat
      /\ slots' = slots => slotCount' = slotCount
  BY SlotsCount, LenProperties DEF OccupiedSlots
<1> HIDE DEF slotCount
<1>c. pending = InBridge + Len(queue) + slotCount + InWorker
  BY DEF PendingIsExact, slotCount
<1>d. pending' = InBridge' + Len(queue') + slotCount' + InWorker' => PendingIsExact'
  BY DEF PendingIsExact, slotCount
<1>1. CASE Begin
  <2>1. PICK s \in Sessions : /\ given[s] < MaxThoughts
                              /\ given' = [given EXCEPT ![s] = @ + 1]
                              /\ handing' = [session |-> s, n |-> given[s] + 1]
    BY <1>1 DEF Begin
  <2>2. given[s] + 1 \in 1 .. MaxThoughts
    BY <2>1, ThoughtAssumption
  <2>3. handing' \in Request /\ given' \in [Sessions -> 0 .. MaxThoughts]
    BY <2>1, <2>2, ThoughtAssumption DEF Request
  <2>4. TypeOK'
    <3>1. /\ bridge' = "send" /\ woken' \in BOOLEAN /\ pending' \in Nat
          /\ UNCHANGED <<watermark, flush>>
      BY <1>1 DEF Begin, NotifyWaiters
    <3>2. UNCHANGED <<queueVars, workerVars, storeVars>> BY <1>1 DEF Begin
    <3> QED BY <2>3, <3>1, <3>2 DEF queueVars, workerVars, storeVars
  <2>5. /\ slots' = slots /\ queue' = queue /\ worker' = worker /\ pending' = pending + 1
        /\ bridge = "idle" /\ bridge' = "send"
    BY <1>1 DEF Begin, queueVars, workerVars
  <2>6. InBridge = 0 /\ InBridge' = 1 /\ InWorker' = InWorker /\ InWorker \in Nat
    BY ONLY <2>5 DEF InBridge, InWorker
  <2>7. pending \in Nat OBVIOUS
  <2>8. QED
    BY ONLY <1>0, <1>c, <1>d, <2>4, <2>5, <2>6, <2>7
<1>2. CASE SendQueued
  <2>1. handing \in Request
    BY <1>2 DEF SendQueued
  <2>2. queue' \in Seq(Request) /\ Len(queue') = Len(queue) + 1
    BY <1>2, <2>1, AppendProperties DEF SendQueued
  <2>3. watermark' \in [Sessions -> 0 .. MaxThoughts]
    BY <1>2, <2>1, ThoughtAssumption DEF SendQueued, Request
  <2>4. TypeOK'
    BY <1>0, <1>2, <2>2, <2>3, ThoughtAssumption
    DEF SendQueued, workerVars, storeVars, flushVars
  <2>5. QED
    BY <1>0, <1>2, <1>c, <1>d, <2>2, <2>4 DEF SendQueued, workerVars, InBridge, InWorker
<1>3. CASE SendFull
  BY <1>0, <1>3, <1>c, <1>d
  DEF SendFull, queueVars, workerVars, storeVars, flushVars, InBridge, InWorker
<1>4. CASE InsertLatest
  <2>1. /\ handing \in Request /\ handing.session \in Sessions
        /\ handing.n \in 1 .. MaxThoughts
    BY <1>4 DEF InsertLatest, Request
  <2>2. /\ slots' = [slots EXCEPT ![handing.session] = handing.n]
        /\ slots' \in [Sessions -> 0 .. MaxThoughts]
    BY <1>4, <2>1, ThoughtAssumption DEF InsertLatest
  <2>3. TypeOK'
    BY <1>4, <2>2 DEF InsertLatest, workerVars, storeVars, flushVars
  <2>4. slotCount' = slotCount + (IF slots[handing.session] = 0 THEN 1 ELSE 0)
    <3>1. slotCount' = Cardinality({t \in Sessions :
                           [slots EXCEPT ![handing.session] = handing.n][t] # 0})
      BY <2>2 DEF slotCount, OccupiedSlots
    <3>2. slotCount = Cardinality({t \in Sessions : slots[t] # 0})
      BY DEF slotCount, OccupiedSlots
    <3>3. QED BY <2>1, <3>1, <3>2, FillSlot
  <2>5. InBridge = 1 /\ InBridge' = IF slots[handing.session] = 0 THEN 0 ELSE 1
    BY <1>4 DEF InsertLatest, InBridge
  <2>6. pending' = pending /\ queue' = queue /\ worker' = worker
    BY <1>4 DEF InsertLatest, workerVars
  <2>7. slotCount' + InBridge' = slotCount + InBridge
    <3>1. CASE slots[handing.session] = 0
      BY <1>0, <2>4, <2>5, <3>1
    <3>2. CASE slots[handing.session] # 0
      BY <1>0, <2>4, <2>5, <3>2
    <3>3. QED BY <3>1, <3>2
  <2>8. InBridge' \in Nat /\ slotCount' \in Nat
    BY <1>0, <2>4, <2>5
  <2>9. InWorker' = InWorker /\ InWorker \in Nat /\ InBridge \in Nat
    BY <2>6 DEF InWorker, InBridge
  <2>10. pending' = InBridge' + Len(queue') + slotCount' + InWorker'
    <3>1. pending = slotCount + InBridge + Len(queue) + InWorker
      BY <1>0, <1>c, <2>9
    <3>2. pending' = slotCount' + InBridge' + Len(queue') + InWorker'
      BY <2>6, <2>7, <2>9, <3>1
    <3>3. Len(queue') \in Nat /\ InWorker' \in Nat
      BY <1>0, <2>6, <2>9
    <3>4. QED BY <2>8, <3>2, <3>3
  <2>11. QED BY <1>d, <2>3, <2>10
<1>5. CASE FinishReplaced
  BY <1>0, <1>5, <1>c, <1>d
  DEF FinishReplaced, NotifyWaiters, queueVars, workerVars, storeVars, InBridge, InWorker
<1>6. CASE NotifyWorker
  BY <1>0, <1>6, <1>c, <1>d
  DEF NotifyWorker, workerVars, storeVars, flushVars, InBridge, InWorker
<1>7. CASE Stop
  BY <1>0, <1>7, <1>c, <1>d
  DEF Stop, queueVars, workerVars, storeVars, flushVars, InBridge, InWorker
<1>8. CASE Recv
  <2>1. /\ Head(queue) \in Request /\ Tail(queue) \in Seq(Request)
        /\ Len(Tail(queue)) = Len(queue) - 1
    BY <1>8, HeadTailProperties DEF Recv
  <2>2. TypeOK'
    BY <1>0, <1>8, <2>1, ThoughtAssumption
    DEF Recv, Take, bridgeVars, storeVars, flushVars
  <2>3. QED
    BY <1>0, <1>8, <1>c, <1>d, <2>1, <2>2 DEF Recv, Take, bridgeVars, InBridge, InWorker
<1>9. CASE RecvClosed
  BY <1>0, <1>9, <1>c, <1>d
  DEF RecvClosed, queueVars, bridgeVars, storeVars, flushVars, InBridge, InWorker
<1>10. CASE Notified
  BY <1>0, <1>10, <1>c, <1>d
  DEF Notified, bridgeVars, storeVars, flushVars, InBridge, InWorker
<1>11. CASE Save
  <2>1. held \in Request /\ held.session \in Sessions /\ held.n \in 1 .. MaxThoughts
    BY <1>11 DEF Save, Request
  <2>2. /\ stored' \in [Sessions -> 0 .. MaxThoughts]
        /\ saved' \in [Sessions -> 0 .. MaxThoughts]
        /\ errors' \in 0 .. MaxWriteErrors
    <3>1. CASE /\ stored' = [stored EXCEPT ![held.session] = held.n]
               /\ saved' = [saved EXCEPT ![held.session] = IF held.n > @ THEN held.n ELSE @]
               /\ errors' = errors
      BY <2>1, <3>1, ThoughtAssumption
    <3>2. CASE errors < MaxWriteErrors /\ errors' = errors + 1 /\ stored' = stored /\ saved' = saved
      BY <3>2, ThoughtAssumption
    <3>3. QED BY <1>11, <3>1, <3>2 DEF Save
  <2>3. TypeOK'
    BY <1>11, <2>2 DEF Save, queueVars, bridgeVars, flushVars
  <2>4. QED
    BY <1>0, <1>11, <1>c, <1>d, <2>3 DEF Save, queueVars, bridgeVars, InBridge, InWorker
<1>12. CASE Finish
  BY <1>0, <1>12, <1>c, <1>d
  DEF Finish, queueVars, bridgeVars, storeVars, flushVars, InBridge, InWorker
<1>13. CASE FinishNotify
  BY <1>0, <1>13, <1>c, <1>d
  DEF FinishNotify, NotifyWaiters, queueVars, bridgeVars, storeVars, InBridge, InWorker
<1>14. CASE DrainSlot
  <2>1. PICK s \in Sessions : /\ slots[s] # 0
                              /\ Take([session |-> s, n |-> slots[s]])
                              /\ slots' = [slots EXCEPT ![s] = 0]
    BY <1>14 DEF DrainSlot
  <2>2. held' \in Request /\ slots' \in [Sessions -> 0 .. MaxThoughts]
    BY <2>1, ThoughtAssumption DEF Take, Request
  <2>3. TypeOK'
    BY <1>14, <2>1, <2>2 DEF DrainSlot, Take, bridgeVars, storeVars, flushVars
  <2>4. slotCount' = slotCount - 1
    BY <2>1, EmptySlot DEF slotCount, OccupiedSlots
  <2>5. QED
    BY <1>0, <1>14, <1>c, <1>d, <2>1, <2>3, <2>4
    DEF DrainSlot, Take, bridgeVars, InBridge, InWorker
<1>15. CASE DrainEnds
  BY <1>0, <1>15, <1>c, <1>d
  DEF DrainEnds, queueVars, bridgeVars, storeVars, flushVars, InBridge, InWorker
<1>16. CASE FlushStart \/ FlushStep \/ FlushTimeout
  <2>1. /\ pending' = pending /\ UNCHANGED <<queueVars, bridgeVars, workerVars, storeVars>>
        /\ flush' \in {"off", "start", "enabled", "loaded", "asleep", "drained", "timedOut"}
        /\ woken' \in BOOLEAN
    BY <1>16
    DEF FlushStart, FlushStep, FlushEnable, FlushLoad, FlushSleep, FlushWoken, FlushTimeout
  <2>2. TypeOK'
    BY <2>1 DEF queueVars, bridgeVars, workerVars, storeVars
  <2>3. slots' = slots /\ queue' = queue /\ bridge' = bridge /\ worker' = worker
    BY <2>1 DEF queueVars, bridgeVars, workerVars
  <2>4. QED BY <1>0, <1>c, <1>d, <2>1, <2>2, <2>3 DEF InBridge, InWorker
<1>17. CASE UNCHANGED vars
  <2>1. TypeOK'
    BY <1>17 DEF vars, queueVars, bridgeVars, workerVars, storeVars, flushVars
  <2>2. slots' = slots /\ queue' = queue /\ bridge' = bridge /\ worker' = worker
        /\ pending' = pending
    BY <1>17 DEF vars, queueVars, bridgeVars, workerVars
  <2>3. QED BY <1>0, <1>c, <1>d, <2>1, <2>2 DEF InBridge, InWorker
<1>18. QED
  BY <1>1, <1>2, <1>3, <1>4, <1>5, <1>6, <1>7, <1>8, <1>9, <1>10, <1>11, <1>12, <1>13,
     <1>14, <1>15, <1>16, <1>17 DEF Next, BridgeCall, WorkerStep

-----------------------------------------------------------------------------
(* Where the newest thought of a session is: in the store's history, in its  *)
(* slot, in the queue, with the worker or in the bridge's hands.             *)
Reached(s) ==
    \/ saved[s] = given[s]
    \/ slots[s] = given[s]
    \/ \E k \in 1 .. Len(queue) : queue[k].session = s /\ queue[k].n = given[s]
    \/ worker = "save" /\ held.session = s /\ held.n = given[s]
    \/ bridge \in {"send", "insert"} /\ handing.session = s

(* No request is newer than what was given, and the bridge hands over the    *)
(* newest.                                                                   *)
Bounded ==
    /\ \A s \in Sessions : saved[s] <= given[s] /\ slots[s] <= given[s]
    /\ \A k \in 1 .. Len(queue) : queue[k].n <= given[queue[k].session]
    /\ worker = "save" => held.n <= given[held.session]
    /\ bridge \in {"send", "insert"} => handing.n = given[handing.session]

Accounted == errors = 0 => \A s \in Sessions : Reached(s)

FlushIsLast ==
    /\ flush # "off" => bridge = "stopped"
    /\ flush = "drained" => pending = 0

IInv == TypeOK /\ PendingIsExact /\ Bounded /\ Accounted /\ FlushIsLast

LEMMA BoundedStep ==
    TypeOK /\ TypeOK' /\ Bounded /\ [Next]_vars => Bounded'
<1> SUFFICES ASSUME TypeOK, TypeOK', Bounded, [Next]_vars PROVE Bounded'
  OBVIOUS
<1>t. /\ \A s \in Sessions : given[s] \in Nat /\ saved[s] \in Nat /\ slots[s] \in Nat
      /\ Len(queue) \in Nat
      /\ \A k \in 1 .. Len(queue) : queue[k].session \in Sessions /\ queue[k].n \in Nat
  <2>1. \A s \in Sessions : given[s] \in Nat /\ saved[s] \in Nat /\ slots[s] \in Nat
    BY ThoughtAssumption DEF TypeOK
  <2>2. Len(queue) \in Nat
    BY LenProperties DEF TypeOK
  <2>3. \A k \in 1 .. Len(queue) : queue[k] \in Request
    BY ElementOfSeq DEF TypeOK
  <2>4. \A r \in Request : r.session \in Sessions /\ r.n \in Nat
    BY ThoughtAssumption DEF Request
  <2>5. QED BY <2>1, <2>2, <2>3, <2>4
<1>1. CASE Begin
  <2>1. PICK s \in Sessions : /\ given' = [given EXCEPT ![s] = @ + 1]
                              /\ handing' = [session |-> s, n |-> given[s] + 1]
    BY <1>1 DEF Begin
  <2>2. \A t \in Sessions : given[t] <= given'[t] /\ given'[t] \in Nat
    <3>1. TAKE t \in Sessions
    <3>2. given'[t] = IF t = s THEN given[t] + 1 ELSE given[t]
      BY <2>1 DEF TypeOK
    <3>3. QED BY <1>t, <3>2
  <2>3. handing'.n = given'[handing'.session]
    BY <2>1 DEF TypeOK
  <2>4. /\ saved' = saved /\ slots' = slots /\ queue' = queue /\ worker' = worker
        /\ held' = held
    BY <1>1 DEF Begin, queueVars, workerVars, storeVars
  <2>5. worker = "save" => held.session \in Sessions /\ held.n \in Nat
    BY DEF TypeOK, Request
  <2>6. \A t \in Sessions : saved'[t] <= given'[t] /\ slots'[t] <= given'[t]
    BY <1>t, <2>2, <2>4 DEF Bounded
  <2>7. \A k \in 1 .. Len(queue') : queue'[k].n <= given'[queue'[k].session]
    BY <1>t, <2>2, <2>4 DEF Bounded
  <2>8. worker' = "save" => held'.n <= given'[held'.session]
    BY <1>t, <2>2, <2>4, <2>5 DEF Bounded
  <2>9. QED BY <2>3, <2>6, <2>7, <2>8 DEF Bounded
<1>2. CASE SendQueued
  <2>1. /\ handing \in Request /\ handing.n = given[handing.session]
        /\ handing.session \in Sessions
    BY <1>2 DEF SendQueued, TypeOK, Bounded, Request
  <2>2. /\ Len(queue') = Len(queue) + 1 /\ queue'[Len(queue) + 1] = handing
        /\ \A k \in 1 .. Len(queue) : queue'[k] = queue[k]
    BY <1>2, <2>1, AppendProperties DEF SendQueued, TypeOK
  <2>3. /\ given' = given /\ saved' = saved /\ slots' = slots /\ worker' = worker
        /\ held' = held /\ bridge' = "idle"
    BY <1>2 DEF SendQueued, workerVars, storeVars
  <2>4. \A k \in 1 .. Len(queue') : queue'[k].n <= given'[queue'[k].session]
    <3>1. TAKE k \in 1 .. Len(queue')
    <3>2. k \in 1 .. Len(queue) \/ k = Len(queue) + 1
      BY <1>t, <2>2
    <3>3. CASE k \in 1 .. Len(queue)
      BY <2>2, <2>3, <3>3 DEF Bounded
    <3>4. CASE k = Len(queue) + 1
      BY <1>t, <2>1, <2>2, <2>3, <3>4
    <3>5. QED BY <3>2, <3>3, <3>4
  <2>5. QED BY <2>3, <2>4 DEF Bounded
<1>3. CASE SendFull
  <2>1. bridge = "send" /\ handing' = handing /\ given' = given
    BY <1>3 DEF SendFull
  <2>2. UNCHANGED <<saved, slots, queue, worker, held>>
    BY <1>3 DEF SendFull, queueVars, workerVars, storeVars
  <2>3. \A k \in 1 .. Len(queue') : queue'[k].n <= given'[queue'[k].session]
    BY <2>1, <2>2 DEF Bounded
  <2> QED BY <2>1, <2>2, <2>3 DEF Bounded
<1>4. CASE InsertLatest
  <2>1. handing.n = given[handing.session] /\ handing.session \in Sessions
    BY <1>4 DEF InsertLatest, TypeOK, Bounded, Request
  <2>2. /\ slots' = [slots EXCEPT ![handing.session] = handing.n]
        /\ given' = given /\ saved' = saved /\ queue' = queue /\ worker' = worker
        /\ held' = held /\ bridge' \in {"replaced", "notify"}
    BY <1>4 DEF InsertLatest, workerVars, storeVars
  <2>3. ASSUME NEW t \in Sessions PROVE slots'[t] <= given'[t]
    <3>1. DOMAIN slots = Sessions /\ given[t] \in Nat BY <1>t DEF TypeOK
    <3>2. CASE t = handing.session BY <2>1, <2>2, <3>1, <3>2
    <3>3. CASE t # handing.session BY <2>2, <3>1, <3>3 DEF Bounded
    <3> QED BY <3>2, <3>3
  <2>4. QED BY <2>2, <2>3 DEF Bounded
<1>5. CASE FinishReplaced \/ NotifyWorker \/ Stop
  <2>1. /\ given' = given /\ saved' = saved /\ slots' = slots /\ queue' = queue
        /\ worker' = worker /\ held' = held /\ bridge' \in {"notify", "idle", "stopped"}
    BY <1>5 DEF FinishReplaced, NotifyWorker, Stop, queueVars, workerVars, storeVars
  <2>2. QED BY <2>1 DEF Bounded
<1>6. CASE Recv
  <2>1. /\ queue # <<>> /\ held' = Head(queue) /\ queue' = Tail(queue)
        /\ given' = given /\ saved' = saved /\ slots' = slots /\ bridge' = bridge
        /\ handing' = handing
    BY <1>6 DEF Recv, Take, bridgeVars, storeVars
  <2>2. /\ Len(queue') = Len(queue) - 1 /\ Len(queue) > 0 /\ held' = queue[1]
        /\ \A k \in 1 .. Len(queue') : queue'[k] = queue[k + 1]
    BY <1>t, <2>1, HeadTailProperties, EmptySeq DEF TypeOK
  <2>3. \A k \in 1 .. Len(queue') : queue'[k].n <= given'[queue'[k].session]
    BY <1>t, <2>1, <2>2 DEF Bounded
  <2>4. held'.n <= given'[held'.session]
    BY <1>t, <2>1, <2>2 DEF Bounded
  <2>5. QED BY <2>1, <2>3, <2>4 DEF Bounded
<1>7. CASE RecvClosed \/ Notified \/ Finish \/ FinishNotify \/ DrainEnds
  <2>1. /\ given' = given /\ saved' = saved /\ slots' = slots /\ queue' = queue
        /\ worker' # "save" /\ bridge' = bridge /\ handing' = handing
    BY <1>7
    DEF RecvClosed, Notified, Finish, FinishNotify, DrainEnds, queueVars, bridgeVars, storeVars
  <2>2. QED BY <2>1 DEF Bounded
<1>8. CASE Save
  <2>1. /\ given' = given /\ slots' = slots /\ queue' = queue /\ bridge' = bridge
        /\ handing' = handing /\ worker' = "finish"
        /\ held.session \in Sessions /\ held.n <= given[held.session]
    BY <1>8 DEF Save, TypeOK, Request, Bounded, queueVars, bridgeVars
  <2>2. \/ saved' = [saved EXCEPT ![held.session] = IF held.n > @ THEN held.n ELSE @]
        \/ saved' = saved
    BY <1>8 DEF Save
  <2>3. \A t \in Sessions : saved'[t] <= given'[t]
    BY <1>t, <2>1, <2>2 DEF Bounded, TypeOK
  <2>4. QED BY <2>1, <2>3 DEF Bounded
<1>9. CASE DrainSlot
  <2>1. PICK s \in Sessions : /\ slots[s] # 0
                              /\ held' = [session |-> s, n |-> slots[s]]
                              /\ slots' = [slots EXCEPT ![s] = 0]
    BY <1>9 DEF DrainSlot, Take
  <2>2. /\ given' = given /\ saved' = saved /\ queue' = queue /\ bridge' = bridge
        /\ handing' = handing
    BY <1>9 DEF DrainSlot, bridgeVars, storeVars
  <2>3. held'.n <= given'[held'.session]
    BY <2>1, <2>2 DEF Bounded
  <2>4. \A t \in Sessions : slots'[t] <= given'[t]
    BY <1>t, <2>1, <2>2 DEF Bounded, TypeOK
  <2>5. QED BY <2>2, <2>3, <2>4 DEF Bounded
<1>10. CASE FlushStart \/ FlushStep \/ FlushTimeout \/ UNCHANGED vars
  <2>1. UNCHANGED <<queueVars, bridgeVars, workerVars, storeVars>>
    BY <1>10
    DEF FlushStart, FlushStep, FlushEnable, FlushLoad, FlushSleep, FlushWoken, FlushTimeout, vars
  <2>2. QED BY <2>1 DEF Bounded, queueVars, bridgeVars, workerVars, storeVars
<1>11. QED
  BY <1>1, <1>2, <1>3, <1>4, <1>5, <1>6, <1>7, <1>8, <1>9, <1>10
  DEF Next, BridgeCall, WorkerStep

LEMMA FlushStepLast ==
    TypeOK /\ PendingIsExact /\ FlushIsLast /\ [Next]_vars => FlushIsLast'
<1> SUFFICES ASSUME TypeOK, PendingIsExact, FlushIsLast, [Next]_vars PROVE FlushIsLast'
  OBVIOUS
<1> USE DEF FlushIsLast
<1>1. CASE Begin
  BY <1>1 DEF Begin
<1>2. CASE BridgeCall \/ Stop
  BY <1>2
  DEF BridgeCall, Stop, SendQueued, SendFull, InsertLatest, FinishReplaced, NotifyWorker,
      flushVars
<1>3. CASE Finish
  <2>1. pending > 0
    <3>1. Cardinality(OccupiedSlots) \in Nat /\ Len(queue) \in Nat
      BY SlotsCount, LenProperties DEF TypeOK, OccupiedSlots
    <3>2. InBridge \in Nat /\ InWorker = 1
      BY <1>3 DEF Finish, InBridge, InWorker
    <3>3. QED BY <3>1, <3>2 DEF PendingIsExact
  <2>2. flush # "drained"
    BY <2>1
  <2>3. QED BY <1>3, <2>2 DEF Finish, flushVars, bridgeVars
<1>4. CASE WorkerStep /\ ~Finish
  BY <1>4
  DEF WorkerStep, Recv, RecvClosed, Notified, Save, FinishNotify, DrainSlot, DrainEnds,
      flushVars, bridgeVars
<1>5. CASE FlushStart \/ FlushStep \/ FlushTimeout
  BY <1>5
  DEF FlushStart, FlushStep, FlushEnable, FlushLoad, FlushSleep, FlushWoken, FlushTimeout,
      bridgeVars
<1>6. CASE UNCHANGED vars
  BY <1>6 DEF vars, flushVars, bridgeVars
<1>7. QED BY <1>1, <1>2, <1>3, <1>4, <1>5, <1>6 DEF Next

LEMMA AccountedStep ==
    TypeOK /\ Bounded /\ Accounted /\ [Next]_vars => Accounted'
<1> SUFFICES ASSUME TypeOK, Bounded, Accounted, [Next]_vars, errors' = 0,
                    NEW t \in Sessions
             PROVE  Reached(t)'
  BY DEF Accounted
<1>e. Reached(t)
  <2>1. errors \in Nat /\ (errors' = errors \/ errors' = errors + 1)
    BY ThoughtAssumption
    DEF TypeOK, Next, BridgeCall, WorkerStep, FlushStep, Begin, SendQueued, SendFull,
        InsertLatest, FinishReplaced, NotifyWorker, Stop, Recv, RecvClosed, Notified, Save,
        Finish, FinishNotify, DrainSlot, DrainEnds, FlushStart, FlushEnable, FlushLoad,
        FlushSleep, FlushWoken, FlushTimeout, storeVars, vars
  <2>2. QED BY <2>1 DEF Accounted
<1>t. given[t] \in Nat /\ saved[t] \in Nat /\ slots[t] \in Nat /\ Len(queue) \in Nat
  <2>1. Len(queue) \in Nat BY LenProperties DEF TypeOK
  <2>2. QED BY <2>1, ThoughtAssumption DEF TypeOK
<1>1. CASE Begin
  <2>1. PICK s \in Sessions : /\ given' = [given EXCEPT ![s] = @ + 1]
                              /\ handing' = [session |-> s, n |-> given[s] + 1]
    BY <1>1 DEF Begin
  <2>2. /\ saved' = saved /\ slots' = slots /\ queue' = queue /\ worker' = worker
        /\ held' = held /\ bridge = "idle" /\ bridge' = "send"
    BY <1>1 DEF Begin, queueVars, workerVars, storeVars
  <2>3. CASE t = s
    BY <2>1, <2>2, <2>3 DEF Reached
  <2>4. CASE t # s
    <3>1. given'[t] = given[t] BY <2>1, <2>4 DEF TypeOK
    <3>2. QED BY <1>e, <2>2, <3>1 DEF Reached
  <2>5. QED BY <2>3, <2>4
<1>2. CASE SendQueued
  <2>1. /\ handing \in Request /\ handing.n = given[handing.session]
    BY <1>2 DEF SendQueued, TypeOK, Bounded
  <2>2. /\ Len(queue') = Len(queue) + 1 /\ queue'[Len(queue) + 1] = handing
        /\ \A k \in 1 .. Len(queue) : queue'[k] = queue[k]
    BY <1>2, <2>1, AppendProperties DEF SendQueued, TypeOK
  <2>3. /\ given' = given /\ saved' = saved /\ slots' = slots /\ worker' = worker
        /\ held' = held /\ bridge = "send"
    BY <1>2 DEF SendQueued, workerVars, storeVars
  <2>4. CASE handing.session = t
    <3>1. Len(queue) + 1 \in 1 .. Len(queue')
      BY <1>t, <2>2
    <3>2. queue'[Len(queue) + 1].session = t /\ queue'[Len(queue) + 1].n = given'[t]
      BY <2>1, <2>2, <2>3, <2>4
    <3>3. QED BY <3>1, <3>2 DEF Reached
  <2>5. CASE \E k \in 1 .. Len(queue) : queue[k].session = t /\ queue[k].n = given[t]
    <3>1. PICK k \in 1 .. Len(queue) : queue[k].session = t /\ queue[k].n = given[t]
      BY <2>5
    <3>2. k \in 1 .. Len(queue') /\ queue'[k] = queue[k]
      BY <1>t, <2>2
    <3>3. QED BY <2>3, <3>1, <3>2 DEF Reached
  <2>6. QED BY <1>e, <2>3, <2>4, <2>5 DEF Reached
<1>3. CASE SendFull
  BY <1>e, <1>3 DEF SendFull, Reached, queueVars, workerVars, storeVars
<1>4. CASE InsertLatest
  <2>1. handing.n = given[handing.session] /\ handing.session \in Sessions
    BY <1>4 DEF InsertLatest, TypeOK, Bounded, Request
  <2>2. /\ slots' = [slots EXCEPT ![handing.session] = handing.n]
        /\ given' = given /\ saved' = saved /\ queue' = queue /\ worker' = worker
        /\ held' = held
    BY <1>4 DEF InsertLatest, workerVars, storeVars
  <2>3. CASE handing.session = t
    <3>1. slots'[t] = given'[t] BY <2>1, <2>2, <2>3 DEF TypeOK
    <3>2. QED BY <3>1 DEF Reached
  <2>4. CASE handing.session # t
    <3>1. slots'[t] = slots[t] BY <2>2, <2>4 DEF TypeOK
    <3>2. QED BY <1>e, <2>2, <2>4, <3>1 DEF Reached
  <2>5. QED BY <2>3, <2>4
<1>5. CASE FinishReplaced \/ NotifyWorker \/ Stop
  <2>1. /\ given' = given /\ saved' = saved /\ slots' = slots /\ queue' = queue
        /\ worker' = worker /\ held' = held /\ bridge \notin {"send", "insert"}
    BY <1>5 DEF FinishReplaced, NotifyWorker, Stop, queueVars, workerVars, storeVars
  <2>2. QED BY <1>e, <2>1 DEF Reached
<1>6. CASE Recv
  <2>1. /\ queue # <<>> /\ held' = Head(queue) /\ queue' = Tail(queue)
        /\ given' = given /\ saved' = saved /\ slots' = slots /\ bridge' = bridge
        /\ handing' = handing /\ worker = "select" /\ worker' = "save"
    BY <1>6 DEF Recv, Take, bridgeVars, storeVars
  <2>2. /\ Len(queue') = Len(queue) - 1 /\ held' = queue[1]
        /\ \A k \in 1 .. Len(queue') : queue'[k] = queue[k + 1]
    BY <1>t, <2>1, HeadTailProperties, EmptySeq DEF TypeOK
  <2>3. CASE \E k \in 1 .. Len(queue) : queue[k].session = t /\ queue[k].n = given[t]
    <3>1. PICK k \in 1 .. Len(queue) : queue[k].session = t /\ queue[k].n = given[t]
      BY <2>3
    <3>2. CASE k = 1
      BY <2>1, <2>2, <3>1, <3>2 DEF Reached
    <3>3. CASE k # 1
      <4>1. k - 1 \in 1 .. Len(queue') /\ queue'[k - 1] = queue[k]
        <5>1. k - 1 \in 1 .. Len(queue') BY <1>t, <2>2, <3>3
        <5>2. queue'[k - 1] = queue[(k - 1) + 1] BY <2>2, <5>1
        <5>3. (k - 1) + 1 = k OBVIOUS
        <5>4. QED BY <5>1, <5>2, <5>3
      <4>2. QED BY <2>1, <3>1, <4>1 DEF Reached
    <3>4. QED BY <3>2, <3>3
  <2>4. QED BY <1>e, <2>1, <2>3 DEF Reached
<1>7. CASE RecvClosed \/ Notified \/ Finish \/ FinishNotify \/ DrainEnds
  <2>1. /\ given' = given /\ saved' = saved /\ slots' = slots /\ queue' = queue
        /\ worker # "save" /\ bridge' = bridge /\ handing' = handing
    BY <1>7
    DEF RecvClosed, Notified, Finish, FinishNotify, DrainEnds, queueVars, bridgeVars, storeVars
  <2>2. QED BY <1>e, <2>1 DEF Reached
<1>8. CASE Save
  <2>1. /\ given' = given /\ slots' = slots /\ queue' = queue /\ bridge' = bridge
        /\ handing' = handing /\ worker = "save"
        /\ held.session \in Sessions /\ held.n \in Nat /\ held.n <= given[held.session]
    <3>1. held \in Request /\ worker = "save" BY <1>8 DEF Save, TypeOK
    <3>2. held.session \in Sessions /\ held.n \in Nat BY <3>1, ThoughtAssumption DEF Request
    <3>3. QED BY <1>8, <3>1, <3>2 DEF Save, Bounded, queueVars, bridgeVars
  <2>2. saved' = [saved EXCEPT ![held.session] = IF held.n > @ THEN held.n ELSE @]
    <3>1. errors \in Nat BY ThoughtAssumption DEF TypeOK
    <3>2. errors' # errors + 1 BY <3>1
    <3>3. QED BY <1>8, <3>2 DEF Save
  <2>3. CASE held.session = t
    <3>1. saved'[t] = IF held.n > saved[t] THEN held.n ELSE saved[t]
      BY <2>2, <2>3 DEF TypeOK
    <3>2. saved[t] <= given[t]
      BY DEF Bounded
    <3>3. held.n = given[t] => saved'[t] = given'[t]
      BY <1>t, <2>1, <3>1, <3>2
    <3>4. saved[t] = given[t] => saved'[t] = given'[t]
      BY <1>t, <2>1, <2>3, <3>1
    <3>5. QED BY <1>e, <2>1, <3>3, <3>4 DEF Reached
  <2>4. CASE held.session # t
    <3>1. saved'[t] = saved[t] BY <2>2, <2>4 DEF TypeOK
    <3>2. QED BY <1>e, <2>1, <2>4, <3>1 DEF Reached
  <2>5. QED BY <2>3, <2>4
<1>9. CASE DrainSlot
  <2>1. PICK s \in Sessions : /\ held' = [session |-> s, n |-> slots[s]]
                              /\ worker' = "save"
                              /\ slots' = [slots EXCEPT ![s] = 0]
    BY <1>9 DEF DrainSlot, Take
  <2>2. /\ given' = given /\ saved' = saved /\ queue' = queue /\ bridge' = bridge
        /\ handing' = handing /\ worker = "drain"
    BY <1>9 DEF DrainSlot, bridgeVars, storeVars
  <2>3. CASE s = t
    BY <1>e, <2>1, <2>2, <2>3 DEF Reached
  <2>4. CASE s # t
    <3>1. slots'[t] = slots[t] BY <2>1, <2>4 DEF TypeOK
    <3>2. QED BY <1>e, <2>2, <3>1 DEF Reached
  <2>5. QED BY <2>3, <2>4
<1>10. CASE FlushStart \/ FlushStep \/ FlushTimeout \/ UNCHANGED vars
  <2>1. UNCHANGED <<queueVars, bridgeVars, workerVars, storeVars>>
    BY <1>10
    DEF FlushStart, FlushStep, FlushEnable, FlushLoad, FlushSleep, FlushWoken, FlushTimeout, vars
  <2>2. QED BY <1>e, <2>1 DEF Reached, queueVars, bridgeVars, workerVars, storeVars
<1>11. QED
  BY <1>1, <1>2, <1>3, <1>4, <1>5, <1>6, <1>7, <1>8, <1>9, <1>10
  DEF Next, BridgeCall, WorkerStep

-----------------------------------------------------------------------------
LEMMA Inductive == Spec => []IInv
<1>1. Init => IInv
  <2> SUFFICES ASSUME Init PROVE IInv
    OBVIOUS
  <2>1. TypeOK /\ PendingIsExact
    BY TypeAndCountInit
  <2>2. Bounded /\ Accounted /\ FlushIsLast
    BY EmptySeq DEF Init, Bounded, Accounted, Reached, FlushIsLast
  <2>3. QED BY <2>1, <2>2 DEF IInv
<1>2. IInv /\ [Next]_vars => IInv'
  BY TypeAndCountStep, BoundedStep, AccountedStep, FlushStepLast DEF IInv
<1>3. QED BY <1>1, <1>2, PTL DEF Spec

(* Whatever the capacity, the queue stays within it and every part of the    *)
(* bridge, the worker and the flush within its type.                         *)
THEOREM TypeCorrect == Spec => []TypeOK
<1>1. IInv => TypeOK BY DEF IInv
<1>2. QED BY <1>1, Inductive, PTL

(* The pending counter of the supervisor counts every request exactly once,  *)
(* from begin_pending_thought_persist to finish_pending_thought_persist,     *)
(* whichever way the request takes; so it never underflows.                  *)
THEOREM CounterIsExact == Spec => []PendingIsExact
<1>1. IInv => PendingIsExact BY DEF IInv
<1>2. QED BY <1>1, Inductive, PTL

LEMMA EmptyMeansSaved == IInv => NothingLost
<1> SUFFICES ASSUME IInv, pending = 0, errors = 0 PROVE saved = given
  BY DEF NothingLost
<1> USE DEF IInv
<1>1. Cardinality(OccupiedSlots) \in Nat /\ Len(queue) \in Nat
  BY SlotsCount, LenProperties DEF TypeOK, OccupiedSlots
<1>2. InBridge \in Nat /\ InWorker \in Nat
  BY DEF InBridge, InWorker
<1>3. Cardinality(OccupiedSlots) = 0 /\ Len(queue) = 0 /\ InBridge = 0 /\ InWorker = 0
  BY <1>1, <1>2 DEF PendingIsExact
<1>4. \A s \in Sessions : slots[s] = 0
  BY <1>3, SlotsCount DEF TypeOK, OccupiedSlots
<1>5. \A s \in Sessions : saved[s] = given[s]
  <2>1. TAKE s \in Sessions
  <2>2. saved[s] = given[s] \/ slots[s] = given[s]
    BY <1>3 DEF Accounted, Reached, InBridge, InWorker
  <2>3. saved[s] \in Nat /\ given[s] \in Nat /\ saved[s] <= given[s]
    BY ThoughtAssumption DEF TypeOK, Bounded
  <2>4. QED BY <1>4, <2>2, <2>3
<1>6. QED BY <1>5 DEF TypeOK

(* The one slot per session loses nothing but what a newer thought replaces: *)
(* once nothing is pending and no write has failed, the newest thought of    *)
(* every session has reached the store (insert_latest, pop_next).            *)
THEOREM CoalescingKeepsNewest == Spec => []NothingLost
BY EmptyMeansSaved, Inductive, PTL

(* wait_for_pending_thought_persists returns true only when everything the   *)
(* bridge gave has been saved, for the shutdown that aborts the bridge first *)
(* (finalize_persistence_shutdown).                                          *)
THEOREM FlushSaves == Spec => []FlushMeansSaved
<1>1. IInv => FlushMeansSaved
  BY EmptyMeansSaved DEF IInv, FlushIsLast, FlushMeansSaved, NothingLost
<1>2. QED BY <1>1, Inductive, PTL
=============================================================================
