-------------------------- MODULE FileStore_proofs --------------------------
(***************************************************************************)
(* Proofs about the flat-file store, for any number of processes, keys and *)
(* saves: the types, that no cache is ahead of the disk, that merged       *)
(* thoughts are kept, that what was acknowledged is durable.               *)
(***************************************************************************)
EXTENDS FileStore, TLAPS

\* Files are named so that no file is mistaken for the flush or for nothing.
LEMMA FileNames == "flush" \notin Files /\ "none" \notin Files
BY StoreAssumption

Contents == [is : {"missing", "corrupt", "ok"}, vals : [Keys -> Value]]
SaveType == [proc : Procs \cup {"none"}, file : Files \cup {"flush", "none"},
             key : Keys \cup {"none"}, vals : [Keys -> Value], step : Steps,
             awaited : BOOLEAN]

Variables ==
    /\ disk \in [Files -> Contents]
    /\ durable \in [Files -> Contents]
    /\ cache \in [Procs -> [Files -> [Keys -> Value]]]
    /\ newest \in [Files -> [Keys -> Value]]
    /\ ok \in [Procs -> BOOLEAN]
    /\ lock \in Saves \cup {0}
    /\ begun \in 0 .. MaxSaves
    /\ save \in [Saves -> SaveType]
    /\ renamed \subseteq Saves

\* A save that has not begun is in no step; one that runs has a process and a file.
Placed(s) ==
    /\ s > begun => save[s].step = "none"
    /\ save[s].step = "none" => save[s].proc = "none" /\ save[s].file = "none"
    /\ save[s].step \notin {"none", "done"} => save[s].proc \in Procs
    /\ save[s].step \in {"read", "start", "locked", "renamed", "synced", "failed"} =>
           save[s].file \in Files
    /\ save[s].step = "queued" => save[s].file \in Files \cup {"flush"}
    /\ save[s].step = "read" => save[s].file = "groups"
    /\ save[s].file \in {"thoughts", "groups"} => save[s].key \in Keys

LockHeld == \A s \in Saves : save[s].step \in {"locked", "renamed"} <=> lock = s

Shape == Variables /\ (\A s \in Saves : Placed(s)) /\ LockHeld

-----------------------------------------------------------------------------
(* What the updates of one save do to all of them. *)

LEMMA SavesAreNumbers == Saves \subseteq Nat \ {0} /\ Saves \subseteq Value /\ 0 \in Value
BY StoreAssumption DEF Saves, Value

LEMMA EmptyIsTyped == Empty \in [Keys -> Value] /\ NoSave \in SaveType
BY SavesAreNumbers DEF Empty, NoSave, SaveType, Steps

LEMMA StepSaved ==
    ASSUME NEW s \in Saves, NEW x \in Steps, save \in [Saves -> SaveType],
           save' = [save EXCEPT ![s].step = x]
    PROVE  /\ save' \in [Saves -> SaveType]
           /\ \A t \in Saves :
                  /\ save'[t].step = IF t = s THEN x ELSE save[t].step
                  /\ save'[t].proc = save[t].proc /\ save'[t].file = save[t].file
                  /\ save'[t].key = save[t].key /\ save'[t].vals = save[t].vals
                  /\ save'[t].awaited = save[t].awaited
BY DEF SaveType

LEMMA StepValsSaved ==
    ASSUME NEW s \in Saves, NEW x \in Steps, NEW vals \in [Keys -> Value],
           save \in [Saves -> SaveType],
           save' = [save EXCEPT ![s].step = x, ![s].vals = vals]
    PROVE  /\ save' \in [Saves -> SaveType]
           /\ \A t \in Saves :
                  /\ save'[t].step = IF t = s THEN x ELSE save[t].step
                  /\ save'[t].vals = IF t = s THEN vals ELSE save[t].vals
                  /\ save'[t].proc = save[t].proc /\ save'[t].file = save[t].file
                  /\ save'[t].key = save[t].key /\ save'[t].awaited = save[t].awaited
BY DEF SaveType

LEMMA InitShape == Init => Shape
<1> SUFFICES ASSUME Init PROVE Shape OBVIOUS
<1>1. Variables
  BY EmptyIsTyped, SavesAreNumbers, StoreAssumption DEF Init, Variables, Contents, Missing, Saves, Value
<1>2. \A s \in Saves : save[s] = NoSave
  BY DEF Init
<1>3. \A s \in Saves : Placed(s)
  BY <1>2, FileNames DEF Placed, NoSave
<1>4. LockHeld
  BY <1>2, SavesAreNumbers DEF Init, LockHeld, NoSave
<1> QED BY <1>1, <1>3, <1>4 DEF Shape

-----------------------------------------------------------------------------
(* The types, action by action. *)

LEMMA BeginShape == ASSUME Shape, NEW p \in Procs, Begin(p) PROVE Shape'
<1>1. PICK f \in Files \cup {"flush"}, k \in Keys \cup {"none"} :
          /\ (k = "none") <=> f \in {"sessions", "config", "flush"}
          /\ save' = [save EXCEPT ![begun + 1] =
                         [proc |-> p, file |-> f, key |-> k, vals |-> Empty,
                          step |-> "queued", awaited |-> TRUE]]
  BY DEF Begin
<1>2. begun + 1 \in Saves /\ begun' = begun + 1 /\ begun \in Nat
  BY StoreAssumption DEF Begin, Shape, Variables, Saves
<1> DEFINE new == [proc |-> p, file |-> f, key |-> k, vals |-> Empty,
                   step |-> "queued", awaited |-> TRUE]
<1>3. new \in SaveType
  BY EmptyIsTyped DEF SaveType, Steps
<1>4. save \in [Saves -> SaveType]
  BY DEF Shape, Variables
<1>5. /\ save' \in [Saves -> SaveType]
      /\ \A t \in Saves : save'[t] = IF t = begun + 1 THEN new ELSE save[t]
  BY <1>1, <1>2, <1>3, <1>4
<1>6. Variables'
  BY <1>2, <1>5, StoreAssumption DEF Begin, Shape, Variables, Saves
<1>7. ASSUME NEW t \in Saves PROVE Placed(t)'
  <2>1. CASE t = begun + 1
    BY <2>1, <1>1, <1>2, <1>5, FileNames DEF Placed
  <2>2. CASE t # begun + 1
    <3>1. save'[t] = save[t] BY <2>2, <1>5
    <3>2. t > begun + 1 => t > begun BY <1>2, SavesAreNumbers
    <3> QED BY <3>1, <3>2, <1>2 DEF Placed, Shape
  <2> QED BY <2>1, <2>2
<1>8. LockHeld'
  <2>1. save[begun + 1].step = "none"
    BY <1>2 DEF Shape, Placed
  <2>2. lock' = lock BY DEF Begin
  <2> QED BY <2>1, <2>2, <1>2, <1>5 DEF Shape, LockHeld
<1> QED BY <1>6, <1>7, <1>8 DEF Shape

LEMMA AcquireShape == ASSUME Shape, NEW s \in Saves, Acquire(s) PROVE Shape'
<1> DEFINE p == save[s].proc
           f == save[s].file
           x == IF f = "flush" THEN "flush" ELSE IF f = "groups" THEN "read" ELSE "start"
           v == IF f = "thoughts" THEN cache[p][f] ELSE Empty
<1>1. save[s].step = "queued" /\ p \in Procs /\ f \in Files \cup {"flush"}
  BY DEF Acquire, Shape, Placed
<1>2. x \in Steps BY DEF Steps
<1>3. v \in [Keys -> Value] BY <1>1, FileNames, EmptyIsTyped DEF Shape, Variables
<1>4. save' = [save EXCEPT ![s].step = x, ![s].vals = v]
  BY DEF Acquire
<1>5. save \in [Saves -> SaveType] BY DEF Shape, Variables
<1> HIDE DEF x, v
<1>6. /\ save' \in [Saves -> SaveType]
      /\ \A t \in Saves :
             /\ save'[t].step = IF t = s THEN x ELSE save[t].step
             /\ save'[t].vals = IF t = s THEN v ELSE save[t].vals
             /\ save'[t].proc = save[t].proc /\ save'[t].file = save[t].file
             /\ save'[t].key = save[t].key /\ save'[t].awaited = save[t].awaited
  BY ONLY <1>2, <1>3, <1>4, <1>5, StepValsSaved
<1>7. Variables'
  BY <1>6 DEF Acquire, Shape, Variables
<1>8. ASSUME NEW t \in Saves PROVE Placed(t)'
  <2>1. Placed(t) /\ begun' = begun BY DEF Shape, Acquire
  <2> QED BY <2>1, <1>1, <1>6 DEF Placed, x
<1>9. LockHeld'
  BY <1>1, <1>6 DEF Acquire, Shape, LockHeld, x
<1> QED BY <1>7, <1>8, <1>9 DEF Shape

LEMMA ReadShape == ASSUME Shape, NEW s \in Saves, Read(s) PROVE Shape'
<1>1. PICK readable \in BOOLEAN :
          save' = [save EXCEPT ![s].step = "start",
                ![s].vals = IF readable /\ disk["groups"].is = "ok" THEN disk["groups"].vals
                            ELSE cache[save[s].proc]["groups"]]
  BY DEF Read
<1> DEFINE v == IF readable /\ disk["groups"].is = "ok" THEN disk["groups"].vals
                ELSE cache[save[s].proc]["groups"]
<1>2. save[s].step = "read" /\ save[s].proc \in Procs /\ save[s].file = "groups" /\ "groups" \in Files
  BY DEF Read, Shape, Placed
<1>3. v \in [Keys -> Value]
  BY <1>2 DEF Shape, Variables, Contents
<1>4. save' = [save EXCEPT ![s].step = "start", ![s].vals = v]
  BY <1>1
<1>5. save \in [Saves -> SaveType] /\ "start" \in Steps BY DEF Shape, Variables, Steps
<1> HIDE DEF v
<1>6. /\ save' \in [Saves -> SaveType]
      /\ \A t \in Saves :
             /\ save'[t].step = IF t = s THEN "start" ELSE save[t].step
             /\ save'[t].vals = IF t = s THEN v ELSE save[t].vals
             /\ save'[t].proc = save[t].proc /\ save'[t].file = save[t].file
             /\ save'[t].key = save[t].key /\ save'[t].awaited = save[t].awaited
  BY ONLY <1>3, <1>4, <1>5, StepValsSaved
<1>7. Variables'
  BY <1>6 DEF Read, Shape, Variables
<1>8. ASSUME NEW t \in Saves PROVE Placed(t)'
  <2>1. Placed(t) /\ begun' = begun BY DEF Shape, Read
  <2> QED BY <2>1, <1>2, <1>6 DEF Placed
<1>9. LockHeld'
  BY <1>2, <1>6 DEF Read, Shape, LockHeld
<1> QED BY <1>7, <1>8, <1>9 DEF Shape

LEMMA LockShape == ASSUME Shape, NEW s \in Saves, Lock(s) PROVE Shape'
<1> DEFINE x == IF lock = 0 THEN "locked" ELSE "failed"
<1>1. save[s].step = "start" /\ save' = [save EXCEPT ![s].step = x]
  BY DEF Lock, Goto
<1>2. save \in [Saves -> SaveType] /\ x \in Steps BY DEF Shape, Variables, Steps
<1> HIDE DEF x
<1>3. /\ save' \in [Saves -> SaveType]
      /\ \A t \in Saves :
             /\ save'[t].step = IF t = s THEN x ELSE save[t].step
             /\ save'[t].proc = save[t].proc /\ save'[t].file = save[t].file
             /\ save'[t].key = save[t].key /\ save'[t].vals = save[t].vals
             /\ save'[t].awaited = save[t].awaited
  BY ONLY <1>1, <1>2, StepSaved
<1>4. lock' = (IF lock = 0 THEN s ELSE lock)
  BY DEF Lock
<1>5. Variables'
  BY <1>3, <1>4 DEF Lock, Shape, Variables
<1>6. ASSUME NEW t \in Saves PROVE Placed(t)'
  <2>1. Placed(t) /\ Placed(s) /\ begun' = begun BY DEF Shape, Lock
  <2> QED BY <2>1, <1>1, <1>3 DEF Placed, x
<1>7. LockHeld'
  BY <1>1, <1>3, <1>4, SavesAreNumbers DEF Shape, LockHeld, x
<1> QED BY <1>5, <1>6, <1>7 DEF Shape

LEMMA WrittenIsTyped ==
    ASSUME Shape, NEW s \in Saves, save[s].file \in Files
    PROVE  ToWrite(s) \in [Keys -> Value]
<1>1. s \in Value BY SavesAreNumbers
<1>2. save[s].vals \in [Keys -> Value] /\ disk[save[s].file].vals \in [Keys -> Value]
  BY DEF Shape, Variables, SaveType, Contents
<1>3. save[s].file \in {"sessions", "config", "thoughts", "groups"}
  BY StoreAssumption
<1> QED BY <1>1, <1>2, <1>3 DEF ToWrite, WithThought

LEMMA RenameShape == ASSUME Shape, NEW s \in Saves, Rename(s) PROVE Shape'
<1> DEFINE v == ToWrite(s)
           f == save[s].file
<1>1. save[s].step = "locked" /\ save' = [save EXCEPT ![s].step = "renamed", ![s].vals = v]
  BY DEF Rename
<1>2. f \in Files BY <1>1 DEF Shape, Placed
<1>3. v \in [Keys -> Value] BY <1>2, WrittenIsTyped
<1>4. save \in [Saves -> SaveType] /\ "renamed" \in Steps BY DEF Shape, Variables, Steps
<1>5. /\ disk' = [disk EXCEPT ![f] = Holding(v)]
      /\ newest' = [newest EXCEPT ![f] = [k \in Keys |-> IF v[k] = s THEN s ELSE @[k]]]
      /\ renamed' = renamed \cup {s}
      /\ UNCHANGED <<durable, lock, cache, ok, begun>>
  BY DEF Rename
<1> HIDE DEF v
<1>6. /\ save' \in [Saves -> SaveType]
      /\ \A t \in Saves :
             /\ save'[t].step = IF t = s THEN "renamed" ELSE save[t].step
             /\ save'[t].vals = IF t = s THEN v ELSE save[t].vals
             /\ save'[t].proc = save[t].proc /\ save'[t].file = save[t].file
             /\ save'[t].key = save[t].key /\ save'[t].awaited = save[t].awaited
  BY ONLY <1>1, <1>3, <1>4, StepValsSaved
<1>7. Variables'
  <2>1. Holding(v) \in Contents BY <1>3 DEF Holding, Contents
  <2>2. disk' \in [Files -> Contents] BY <2>1, <1>5 DEF Shape, Variables
  <2>3. newest' \in [Files -> [Keys -> Value]]
    <3>1. [k \in Keys |-> IF v[k] = s THEN s ELSE newest[f][k]] \in [Keys -> Value]
      BY <1>2, <1>3, SavesAreNumbers DEF Shape, Variables
    <3> QED BY <3>1, <1>2, <1>5 DEF Shape, Variables
  <2> QED BY <2>2, <2>3, <1>5, <1>6 DEF Shape, Variables
<1>8. ASSUME NEW t \in Saves PROVE Placed(t)'
  <2>1. Placed(t) BY DEF Shape
  <2> QED BY <2>1, <1>1, <1>2, <1>5, <1>6 DEF Placed
<1>9. LockHeld'
  BY <1>1, <1>5, <1>6 DEF Shape, LockHeld
<1> QED BY <1>7, <1>8, <1>9 DEF Shape

\* The ends of a task, of a call and of a flush: one save changes its step.
LEMMA EndShape ==
    ASSUME Shape, NEW s \in Saves, NEW x \in {"synced", "failed", "done"},
           Goto(s, x), save[s].step \notin {"none"},
           lock' \in {lock, 0}, save[s].step \in {"locked", "renamed"} <=> lock' # lock,
           x \in {"synced", "failed"} => save[s].step \in {"locked", "renamed"},
           durable' \in {durable, disk}, UNCHANGED <<disk, begun, newest, renamed>>,
           cache' \in [Procs -> [Files -> [Keys -> Value]]], ok' \in [Procs -> BOOLEAN]
    PROVE  Shape'
<1>1. save \in [Saves -> SaveType] /\ x \in Steps BY DEF Shape, Variables, Steps
<1>2. save' = [save EXCEPT ![s].step = x] BY DEF Goto
<1>3. /\ save' \in [Saves -> SaveType]
      /\ \A t \in Saves :
             /\ save'[t].step = IF t = s THEN x ELSE save[t].step
             /\ save'[t].proc = save[t].proc /\ save'[t].file = save[t].file
             /\ save'[t].key = save[t].key /\ save'[t].vals = save[t].vals
             /\ save'[t].awaited = save[t].awaited
  BY ONLY <1>1, <1>2, StepSaved
<1>4. Variables' BY <1>3 DEF Shape, Variables
<1>5. ASSUME NEW t \in Saves PROVE Placed(t)'
  <2>1. Placed(t) BY DEF Shape
  <2>2. t > begun' => t > begun OBVIOUS
  <2> QED BY <2>1, <2>2, <1>3 DEF Placed
<1>6. LockHeld'
  BY <1>3, SavesAreNumbers DEF Shape, LockHeld
<1> QED BY <1>4, <1>5, <1>6 DEF Shape

LEMMA UnlockFacts ==
    ASSUME Shape, NEW s \in Saves, Unlock(s), save[s].step \in {"locked", "renamed"}
    PROVE  lock' = 0 /\ lock = s /\ lock' # lock
BY SavesAreNumbers DEF Shape, LockHeld, Unlock

LEMMA SyncShape == ASSUME Shape, NEW s \in Saves, Sync(s) PROVE Shape'
<1>1. save[s].step = "renamed" /\ Goto(s, "synced") /\ Unlock(s) BY DEF Sync
<1>2. lock' = 0 /\ lock' # lock BY <1>1, UnlockFacts
<1>3. /\ cache' \in [Procs -> [Files -> [Keys -> Value]]] /\ ok' \in [Procs -> BOOLEAN]
      /\ durable' = disk /\ UNCHANGED <<disk, begun, newest, renamed>>
  BY DEF Sync, Shape, Variables
<1> QED BY <1>1, <1>2, <1>3, EndShape

LEMMA TaskFailsShape == ASSUME Shape, NEW s \in Saves, TaskFails(s) PROVE Shape'
<1>1. save[s].step \in {"locked", "renamed"} /\ Goto(s, "failed") /\ Unlock(s) BY DEF TaskFails
<1>2. lock' = 0 /\ lock' # lock BY <1>1, UnlockFacts
<1>3. /\ cache' \in [Procs -> [Files -> [Keys -> Value]]] /\ ok' \in [Procs -> BOOLEAN]
      /\ durable' = durable /\ UNCHANGED <<disk, begun, newest, renamed>>
  BY DEF TaskFails, Shape, Variables
<1> QED BY <1>1, <1>2, <1>3, EndShape

LEMMA FinishShape == ASSUME Shape, NEW s \in Saves, Finish(s) PROVE Shape'
<1> DEFINE p == save[s].proc
           f == save[s].file
<1>1. save[s].step \in {"synced", "failed"} /\ Goto(s, "done") BY DEF Finish
<1>2. p \in Procs /\ f \in Files BY <1>1 DEF Shape, Placed
<1>3. cache' \in [Procs -> [Files -> [Keys -> Value]]]
  <2>1. save[s].vals \in [Keys -> Value] BY DEF Shape, Variables, SaveType
  <2>2. cache \in [Procs -> [Files -> [Keys -> Value]]] BY DEF Shape, Variables
  <2>3. CASE cache' = cache BY <2>2, <2>3
  <2>4. CASE cache' = [cache EXCEPT ![p][f] = save[s].vals]
    <3>1. [cache[p] EXCEPT ![f] = save[s].vals] \in [Files -> [Keys -> Value]]
      BY <2>1, <2>2, <1>2
    <3>2. cache' = [cache EXCEPT ![p] = [cache[p] EXCEPT ![f] = save[s].vals]]
      BY <2>4
    <3> QED BY ONLY <3>1, <3>2, <2>2, <1>2
  <2> QED BY <2>3, <2>4 DEF Finish
<1>4. ok' \in [Procs -> BOOLEAN]
  BY <1>2 DEF Finish, Shape, Variables, OkAfterSuccess
<1>5. lock' = lock /\ durable' = durable /\ UNCHANGED <<disk, begun, newest, renamed>>
  BY DEF Finish
<1> QED BY <1>1, <1>3, <1>4, <1>5, EndShape

LEMMA FlushShape == ASSUME Shape, NEW s \in Saves, Flush(s) PROVE Shape'
<1>1. save[s].step = "flush" /\ Goto(s, "done") BY DEF Flush
<1>2. /\ cache' \in [Procs -> [Files -> [Keys -> Value]]] /\ ok' \in [Procs -> BOOLEAN]
      /\ durable' = disk /\ lock' = lock /\ UNCHANGED <<disk, begun, newest, renamed>>
  BY DEF Flush, Shape, Variables
<1> QED BY <1>1, <1>2, EndShape

LEMMA CancelShape == ASSUME Shape, NEW s \in Saves, Cancel(s) PROVE Shape'
<1> DEFINE x == IF save[s].step \in {"queued", "read"} THEN "done" ELSE save[s].step
<1>1. save \in [Saves -> SaveType] BY DEF Shape, Variables
<1>2. /\ save' \in [Saves -> SaveType]
      /\ \A t \in Saves :
             /\ save'[t].step = IF t = s THEN x ELSE save[t].step
             /\ save'[t].proc = save[t].proc /\ save'[t].file = save[t].file
             /\ save'[t].key = save[t].key /\ save'[t].vals = save[t].vals
  <2>1. "done" \in Steps BY DEF Steps
  <2>2. /\ save[s] \in SaveType /\ save[s].step \in Steps
        /\ save' = [save EXCEPT ![s] = [save[s] EXCEPT !.awaited = FALSE, !.step = x]]
    BY <1>1 DEF Cancel, SaveType
  <2>3. PICK new : new = [save[s] EXCEPT !.awaited = FALSE, !.step = x] OBVIOUS
  <2>4. /\ new \in SaveType /\ new.step = x
        /\ new.proc = save[s].proc /\ new.file = save[s].file
        /\ new.key = save[s].key /\ new.vals = save[s].vals
    BY <2>1, <2>2, <2>3 DEF SaveType
  <2>5. save' = [save EXCEPT ![s] = new] BY <2>2, <2>3
  <2> QED BY ONLY <1>1, <2>4, <2>5, s \in Saves
<1>3. UNCHANGED <<disk, durable, lock, cache, ok, begun, newest, renamed>> BY DEF Cancel
<1>4. save[s].step # "none" BY DEF Cancel, HasWriteLock, InTask
<1>5. Variables' BY <1>2, <1>3 DEF Shape, Variables
<1>6. ASSUME NEW t \in Saves PROVE Placed(t)'
  <2>1. Placed(t) BY DEF Shape
  <2> QED BY <2>1, <1>2, <1>3, <1>4 DEF Placed
<1>7. LockHeld' BY <1>2, <1>3 DEF Shape, LockHeld
<1> QED BY <1>5, <1>6, <1>7 DEF Shape

LEMMA LoadIsTyped ==
    ASSUME Shape, NEW p \in Procs, NEW unreadable, Load(p, disk, unreadable)
    PROVE  cache' \in [Procs -> [Files -> [Keys -> Value]]] /\ ok' \in [Procs -> BOOLEAN]
<1>1. [f \in Files |-> IF f \in unreadable THEN Empty ELSE disk[f].vals] \in [Files -> [Keys -> Value]]
  BY EmptyIsTyped DEF Shape, Variables, Contents
<1>2. cache' \in [Procs -> [Files -> [Keys -> Value]]]
  BY <1>1 DEF Load, Shape, Variables
<1>3. ok' \in [Procs -> BOOLEAN]
  BY DEF Load, Shape, Variables
<1> QED BY <1>2, <1>3

LEMMA RestartShape == ASSUME Shape, NEW p \in Procs, Restart(p) PROVE Shape'
<1> DEFINE mine == {s \in Saves : save[s].proc = p}
<1>1. save \in [Saves -> SaveType] BY DEF Shape, Variables
<1>2. save' = [s \in Saves |-> IF s \in mine THEN [save[s] EXCEPT !.step = "done"] ELSE save[s]]
  BY DEF Restart
<1>3. /\ save' \in [Saves -> SaveType]
      /\ \A t \in Saves :
             /\ save'[t].step = IF save[t].proc = p THEN "done" ELSE save[t].step
             /\ save'[t].proc = save[t].proc /\ save'[t].file = save[t].file
             /\ save'[t].key = save[t].key /\ save'[t].vals = save[t].vals
  <2>1. "done" \in Steps BY DEF Steps
  <2>2. ASSUME NEW t \in Saves
        PROVE  /\ save'[t] \in SaveType
               /\ save'[t].step = IF save[t].proc = p THEN "done" ELSE save[t].step
               /\ save'[t].proc = save[t].proc /\ save'[t].file = save[t].file
               /\ save'[t].key = save[t].key /\ save'[t].vals = save[t].vals
    <3>1. save[t] \in SaveType BY <1>1
    <3>2. save'[t] = IF save[t].proc = p THEN [save[t] EXCEPT !.step = "done"] ELSE save[t]
      BY <1>2
    <3> QED BY ONLY <2>1, <3>1, <3>2 DEF SaveType
  <2>3. save' = [t \in Saves |-> save'[t]] BY <1>2
  <2> QED BY ONLY <2>2, <2>3
<1>4. /\ UNCHANGED <<disk, durable, begun, newest, renamed>>
      /\ lock' = IF lock \in mine THEN 0 ELSE lock
      /\ \E unreadable : Load(p, disk, unreadable)
  BY DEF Restart
<1>5. cache' \in [Procs -> [Files -> [Keys -> Value]]] /\ ok' \in [Procs -> BOOLEAN]
  BY <1>4, LoadIsTyped
<1>6. Variables' BY <1>3, <1>4, <1>5 DEF Shape, Variables
<1>7. ASSUME NEW t \in Saves PROVE Placed(t)'
  <2>1. Placed(t) BY DEF Shape
  <2>2. p # "none" BY StoreAssumption
  <2> QED BY <2>1, <2>2, <1>3, <1>4 DEF Placed
<1>8. LockHeld' BY <1>3, <1>4, SavesAreNumbers DEF Shape, LockHeld
<1> QED BY <1>6, <1>7, <1>8 DEF Shape

LEMMA PowerLossShape == ASSUME Shape, PowerLoss PROVE Shape'
<1>1. PICK kept \in SUBSET Files :
          disk' = [f \in Files |-> IF f \in kept THEN disk[f] ELSE durable[f]]
  BY DEF PowerLoss
<1>2. /\ durable' = disk'
      /\ newest' = [f \in Files |-> [k \in Keys |-> disk'[f].vals[k]]]
      /\ save' = [s \in Saves |-> IF save[s].step = "none" THEN NoSave
                                  ELSE [save[s] EXCEPT !.step = "done"]]
      /\ lock' = 0
      /\ cache' = [p \in Procs |-> [f \in Files |-> disk'[f].vals]]
      /\ ok' = [p \in Procs |-> loadFailed'[p] = {}]
      /\ UNCHANGED <<begun, renamed>>
  BY DEF PowerLoss
<1>3. save \in [Saves -> SaveType] /\ disk \in [Files -> Contents] /\ durable \in [Files -> Contents]
  BY DEF Shape, Variables
<1>4. disk' \in [Files -> Contents]
  BY <1>1, <1>3
<1>5. \A f \in Files : disk'[f].vals \in [Keys -> Value]
  BY <1>4 DEF Contents
<1>6. save' \in [Saves -> SaveType]
  <2>1. "done" \in Steps BY DEF Steps
  <2>2. ASSUME NEW s \in Saves PROVE save'[s] \in SaveType
    <3>1. save[s] \in SaveType BY <1>3
    <3>2. save'[s] = IF save[s].step = "none" THEN NoSave ELSE [save[s] EXCEPT !.step = "done"]
      BY <1>2
    <3>3. [save[s] EXCEPT !.step = "done"] \in SaveType BY ONLY <2>1, <3>1 DEF SaveType
    <3> QED BY <3>2, <3>3, EmptyIsTyped
  <2>3. save' = [s \in Saves |-> save'[s]] BY <1>2
  <2> QED BY ONLY <2>2, <2>3
<1>7. newest' \in [Files -> [Keys -> Value]]
  BY <1>2, <1>5
<1>8. cache' \in [Procs -> [Files -> [Keys -> Value]]]
  BY <1>2, <1>5
<1>9. ok' \in [Procs -> BOOLEAN]
  BY <1>2
<1>10. Variables' BY <1>2, <1>4, <1>6, <1>7, <1>8, <1>9 DEF Shape, Variables
<1>11. \A t \in Saves : IF save[t].step = "none" THEN save'[t] = NoSave
           ELSE /\ save'[t].step = "done" /\ save'[t].proc = save[t].proc
                /\ save'[t].file = save[t].file /\ save'[t].key = save[t].key
  BY <1>2, <1>3 DEF SaveType
<1>12. ASSUME NEW t \in Saves PROVE Placed(t)'
  <2>1. Placed(t) BY DEF Shape
  <2> QED BY <2>1, <1>2, <1>11, FileNames DEF Placed, NoSave
<1>13. LockHeld' BY <1>2, <1>11, SavesAreNumbers DEF LockHeld, NoSave
<1> QED BY <1>10, <1>12, <1>13 DEF Shape

LEMMA DamageShape == ASSUME Shape, NEW f \in Files, Damage(f) PROVE Shape'
<1>1. Corrupt \in Contents BY EmptyIsTyped DEF Corrupt, Contents
<1>2. Variables' BY <1>1 DEF Damage, Shape, Variables
<1> QED BY <1>2 DEF Damage, Shape, Placed, LockHeld

LEMMA NextShape == Shape /\ [Next]_vars => Shape'
<1> SUFFICES ASSUME Shape, [Next]_vars PROVE Shape' OBVIOUS
<1>1. CASE \E p \in Procs : Begin(p) \/ Restart(p) BY <1>1, BeginShape, RestartShape
<1>2. CASE \E s \in Saves : Step(s)
  BY <1>2, AcquireShape, ReadShape, LockShape, RenameShape, SyncShape, TaskFailsShape,
     FinishShape, FlushShape, CancelShape DEF Step
<1>3. CASE PowerLoss BY <1>3, PowerLossShape
<1>4. CASE \E f \in Files : Damage(f) BY <1>4, DamageShape
<1>5. CASE UNCHANGED vars BY <1>5 DEF vars, Shape, Variables, Placed, LockHeld
<1> QED BY <1>1, <1>2, <1>3, <1>4, <1>5 DEF Next

LEMMA ShapeAlways == Spec => []Shape
BY InitShape, NextShape, PTL DEF Spec

(***************************************************************************)
(* The variables keep their types: whoever dies and whatever fails, the    *)
(* lock file is held by exactly the save that is between its lock and its  *)
(* unlock.                                                                 *)
(***************************************************************************)
THEOREM TypeCorrect == Spec => []TypeOK
<1>1. Shape => TypeOK
  BY DEF Shape, Variables, LockHeld, TypeOK, Contents, SaveType
<1> QED BY <1>1, ShapeAlways, PTL

-----------------------------------------------------------------------------
(* No cache is ahead of the disk. *)

Was == renamed \cup {0}

\* Whatever a file, a cache or a save holds has been on disk.
Persisted ==
    /\ \A f \in Files, k \in Keys : disk[f].vals[k] \in Was /\ durable[f].vals[k] \in Was
    /\ \A p \in Procs, f \in Files, k \in Keys : cache[p][f][k] \in Was
    /\ \A s \in Saves, k \in Keys : save[s].vals[k] \in Was

LEMMA InitPersisted == Init => Persisted
BY DEF Init, Persisted, Was, Missing, Empty, NoSave

LEMMA NextPersisted == Shape /\ Persisted /\ [Next]_vars => Persisted'
<1> SUFFICES ASSUME Shape, Persisted, [Next]_vars PROVE Persisted' OBVIOUS
<1> USE DEF Was
<1>0. /\ save \in [Saves -> SaveType] /\ disk \in [Files -> Contents]
      /\ durable \in [Files -> Contents]
      /\ cache \in [Procs -> [Files -> [Keys -> Value]]]
      /\ \A s \in Saves : Placed(s)
  BY DEF Shape, Variables
<1>1. ASSUME NEW p \in Procs, Begin(p) PROVE Persisted'
  <2>1. \A t \in Saves : save'[t].vals = save[t].vals \/ save'[t].vals = Empty
    BY <1>0, <1>1 DEF Begin, SaveType
  <2> QED BY <1>1, <2>1 DEF Begin, Persisted, Empty
<1>2. ASSUME NEW p \in Procs, Restart(p) PROVE Persisted'
  <2>1. \A t \in Saves : save'[t].vals = save[t].vals
    BY <1>0, <1>2 DEF Restart, SaveType
  <2>2. ASSUME NEW q \in Procs, NEW f \in Files, NEW k \in Keys PROVE cache'[q][f][k] \in Was
    BY <1>0, <1>2 DEF Restart, Load, Persisted, Empty
  <2> QED BY <1>2, <2>1, <2>2 DEF Restart, Persisted
<1>3. ASSUME NEW s \in Saves, Acquire(s) PROVE Persisted'
  <2>1. \A t \in Saves : \/ save'[t].vals = save[t].vals \/ save'[t].vals = Empty
                         \/ save[s].file = "thoughts" /\ save'[t].vals = cache[save[s].proc][save[s].file]
    BY <1>0, <1>3 DEF Acquire, SaveType
  <2>2. save[s].proc \in Procs /\ save[s].file \in Files \cup {"flush"}
    BY <1>0, <1>3 DEF Acquire, Placed
  <2>3. save[s].file = "thoughts" =>
            \A k \in Keys : cache[save[s].proc][save[s].file][k] \in Was
    BY <2>2 DEF Persisted
  <2>4. \A t \in Saves, k \in Keys : save'[t].vals[k] \in Was
    BY <2>1, <2>3 DEF Persisted, Empty
  <2> QED BY <1>3, <2>4 DEF Acquire, Persisted
<1>4. ASSUME NEW s \in Saves, Read(s) PROVE Persisted'
  <2>1. \A t \in Saves : \/ save'[t].vals = save[t].vals
                         \/ save'[t].vals = disk["groups"].vals
                         \/ save'[t].vals = cache[save[s].proc]["groups"]
    BY <1>0, <1>4 DEF Read, SaveType
  <2>2. save[s].proc \in Procs /\ "groups" \in Files
    BY <1>0, <1>4 DEF Read, Placed
  <2> QED BY <1>4, <2>1, <2>2 DEF Read, Persisted
<1>5. ASSUME NEW s \in Saves, Lock(s) \/ Sync(s) \/ TaskFails(s) \/ Flush(s) \/ Cancel(s) PROVE Persisted'
  <2>1. \A t \in Saves : save'[t].vals = save[t].vals
    <3>1. CASE Cancel(s) BY <1>0, <3>1 DEF Cancel, SaveType
    <3>2. CASE \E x \in Steps : Goto(s, x) BY <1>0, <3>2 DEF Goto, SaveType
    <3>3. CASE Lock(s) BY <3>2, <3>3 DEF Lock, Steps
    <3>4. CASE Sync(s) \/ TaskFails(s) \/ Flush(s) BY <3>2, <3>4 DEF Sync, TaskFails, Flush, Steps
    <3> QED BY <1>5, <3>1, <3>3, <3>4
  <2>2. UNCHANGED <<disk, cache, renamed>> /\ durable' \in {durable, disk}
    BY <1>5 DEF Lock, Sync, TaskFails, Flush, Cancel
  <2> QED BY <2>1, <2>2 DEF Persisted
<1>6. ASSUME NEW s \in Saves, Rename(s) PROVE Persisted'
  <2> DEFINE f == save[s].file
             v == ToWrite(s)
  <2>1. f \in Files BY <1>0, <1>6 DEF Rename, Placed
  <2>2. \A k \in Keys : v[k] \in Was \cup {s}
    <3>1. f \in {"sessions", "config", "thoughts", "groups"} BY <2>1, StoreAssumption
    <3>2. /\ save[s].vals \in [Keys -> Value] /\ disk[f].vals \in [Keys -> Value]
          /\ \A k \in Keys : save[s].vals[k] \in Was /\ disk[f].vals[k] \in Was
      BY <1>0, <2>1 DEF SaveType, Contents, Persisted
    <3>3. CASE f \in {"sessions", "config"} BY <3>3 DEF ToWrite
    <3>4. CASE f = "groups" BY <3>2, <3>4 DEF ToWrite
    <3>5. CASE f = "thoughts"
      <4>1. v = WithThought(disk[f].vals, s) \/ v = WithThought(save[s].vals, s)
        BY <3>5 DEF ToWrite
      <4> QED BY <3>2, <4>1 DEF WithThought
    <3> QED BY <3>1, <3>3, <3>4, <3>5
  <2>3. save' = [save EXCEPT ![s].step = "renamed", ![s].vals = v] BY <1>6 DEF Rename
  <2>4. disk' = [disk EXCEPT ![f] = Holding(v)] /\ renamed' = renamed \cup {s}
        /\ UNCHANGED <<durable, cache>>
    BY <1>6 DEF Rename
  <2> HIDE DEF v
  <2>5. \A t \in Saves : save'[t].vals = IF t = s THEN v ELSE save[t].vals
    BY <1>0, <2>3 DEF SaveType
  <2>6. \A g \in Files : disk'[g].vals = IF g = f THEN v ELSE disk[g].vals
    BY <1>0, <2>1, <2>4 DEF Holding, Contents
  <2> QED BY <2>2, <2>4, <2>5, <2>6 DEF Persisted
<1>7. ASSUME NEW s \in Saves, Finish(s) PROVE Persisted'
  <2>1. \A t \in Saves : save'[t].vals = save[t].vals
    BY <1>0, <1>7 DEF Finish, Goto, SaveType
  <2>2. save[s].proc \in Procs /\ save[s].file \in Files
    BY <1>0, <1>7 DEF Finish, Placed
  <2>3. cache' = cache \/ cache' = [cache EXCEPT ![save[s].proc][save[s].file] = save[s].vals]
    BY <1>7 DEF Finish
  <2>4. \A q \in Procs, g \in Files : cache'[q][g] \in {cache[q][g], save[s].vals}
    <3>1. CASE cache' = cache BY <3>1
    <3>2. CASE cache' = [cache EXCEPT ![save[s].proc][save[s].file] = save[s].vals]
      BY ONLY <1>0, <2>2, <3>2
    <3> QED BY <2>3, <3>1, <3>2
  <2> QED BY <1>7, <2>1, <2>4 DEF Finish, Persisted
<1>8. CASE PowerLoss
  <2>1. \A g \in Files : disk'[g] \in {disk[g], durable[g]} /\ durable' = disk'
    BY <1>8 DEF PowerLoss
  <2>2. \A t \in Saves : save'[t].vals = save[t].vals \/ save'[t].vals = Empty
    BY <1>0, <1>8 DEF PowerLoss, SaveType, NoSave
  <2>3. \A q \in Procs, g \in Files : cache'[q][g] = disk'[g].vals
    BY <1>8 DEF PowerLoss
  <2> QED BY <1>8, <2>1, <2>2, <2>3 DEF PowerLoss, Persisted, Empty
<1>9. ASSUME NEW g \in Files, Damage(g) PROVE Persisted'
  BY <1>0, <1>9 DEF Damage, Persisted, Corrupt, Empty, Contents
<1>10. CASE UNCHANGED vars BY <1>10 DEF vars, Persisted
<1> QED BY <1>1, <1>2, <1>3, <1>4, <1>5, <1>6, <1>7, <1>8, <1>9, <1>10 DEF Next, Step

(***************************************************************************)
(* What a process answers from has been on disk, although calls fail, are  *)
(* cancelled while their task goes on, and other processes write the same  *)
(* files.                                                                  *)
(***************************************************************************)
THEOREM CachesHavePersisted == Spec => []CacheHasPersisted
<1>1. Persisted => CacheHasPersisted BY DEF Persisted, Was, CacheHasPersisted
<1>2. Spec => []Persisted BY InitPersisted, NextPersisted, ShapeAlways, PTL DEF Spec
<1> QED BY <1>1, <1>2, PTL

-----------------------------------------------------------------------------
(* What one action does to the saves, for the proofs that follow. *)

Moved(s, x) ==
    /\ \A t \in Saves \ {s} : save'[t] = save[t]
    /\ save'[s].step = x
    /\ save'[s].proc = save[s].proc /\ save'[s].file = save[s].file /\ save'[s].key = save[s].key

LEMMA Moves ==
    ASSUME Shape, NEW s \in Saves
    PROVE  /\ Acquire(s) =>
                  /\ \E x \in {"flush", "read", "start"} : Moved(s, x) /\ (x = "start" => save[s].file # "groups")
                  /\ save'[s].vals = (IF save[s].file = "thoughts" THEN cache[save[s].proc][save[s].file] ELSE Empty)
                  /\ save'[s].awaited = save[s].awaited
           /\ Read(s) =>
                  /\ Moved(s, "start") /\ save'[s].awaited = save[s].awaited
                  /\ \/ save'[s].vals = disk["groups"].vals /\ disk["groups"].is = "ok"
                     \/ /\ save'[s].vals = cache[save[s].proc]["groups"]
                        /\ disk["groups"].is # "ok" \/ "groups" \in damaged'
           /\ Rename(s) =>
                  /\ Moved(s, "renamed") /\ save'[s].vals = ToWrite(s)
                  /\ save'[s].awaited = save[s].awaited
           /\ \A x \in Steps : Goto(s, x) =>
                  /\ Moved(s, x) /\ save'[s].vals = save[s].vals
                  /\ save'[s].awaited = save[s].awaited
           /\ Cancel(s) =>
                  /\ Moved(s, IF save[s].step \in {"queued", "read"} THEN "done" ELSE save[s].step)
                  /\ save'[s].vals = save[s].vals /\ ~ save'[s].awaited
<1>1. save \in [Saves -> SaveType] BY DEF Shape, Variables
<1>2. Acquire(s) =>
          /\ \E x \in {"flush", "read", "start"} : Moved(s, x) /\ (x = "start" => save[s].file # "groups")
          /\ save'[s].vals = (IF save[s].file = "thoughts" THEN cache[save[s].proc][save[s].file] ELSE Empty)
          /\ save'[s].awaited = save[s].awaited
  BY <1>1 DEF Acquire, Moved, SaveType
<1>3. Read(s) =>
          /\ Moved(s, "start") /\ save'[s].awaited = save[s].awaited
          /\ \/ save'[s].vals = disk["groups"].vals /\ disk["groups"].is = "ok"
             \/ /\ save'[s].vals = cache[save[s].proc]["groups"]
                /\ disk["groups"].is # "ok" \/ "groups" \in damaged'
  BY <1>1 DEF Read, Moved, SaveType
<1>4. Rename(s) =>
          /\ Moved(s, "renamed") /\ save'[s].vals = ToWrite(s)
          /\ save'[s].awaited = save[s].awaited
  <2> DEFINE v == ToWrite(s)
  <2>1. Rename(s) => save' = [save EXCEPT ![s].step = "renamed", ![s].vals = v] BY DEF Rename
  <2> HIDE DEF v
  <2>2. Rename(s) => Moved(s, "renamed") /\ save'[s].vals = v /\ save'[s].awaited = save[s].awaited
    BY <1>1, <2>1 DEF Moved, SaveType
  <2> QED BY <2>2 DEF v
<1>5. \A x \in Steps : Goto(s, x) =>
          /\ Moved(s, x) /\ save'[s].vals = save[s].vals
          /\ save'[s].awaited = save[s].awaited
  BY <1>1 DEF Goto, Moved, SaveType
<1>6. Cancel(s) =>
          /\ Moved(s, IF save[s].step \in {"queued", "read"} THEN "done" ELSE save[s].step)
          /\ save'[s].vals = save[s].vals /\ ~ save'[s].awaited
  BY <1>1 DEF Cancel, Moved, SaveType
<1> QED BY <1>2, <1>3, <1>4, <1>5, <1>6

LEMMA BeginMoves ==
    ASSUME Shape, NEW p \in Procs, Begin(p)
    PROVE  \E n \in Saves :
               /\ save[n].step = "none" /\ save'[n].step = "queued" /\ save'[n].vals = Empty
               /\ save'[n].awaited
               /\ \A t \in Saves \ {n} : save'[t] = save[t]
<1>1. begun + 1 \in Saves /\ save[begun + 1].step = "none"
  BY StoreAssumption DEF Begin, Shape, Variables, Saves, Placed
<1>2. save \in [Saves -> SaveType] BY DEF Shape, Variables
<1>3. /\ save'[begun + 1].step = "queued" /\ save'[begun + 1].vals = Empty
      /\ save'[begun + 1].awaited
      /\ \A t \in Saves \ {begun + 1} : save'[t] = save[t]
  BY <1>1, <1>2 DEF Begin
<1> QED BY <1>1, <1>3

LEMMA RestartMoves ==
    ASSUME Shape, NEW p \in Procs, Restart(p), NEW t \in Saves
    PROVE  /\ save[t].proc # p => save'[t] = save[t]
           /\ save[t].proc = p => save'[t].step = "done"
           /\ save'[t].proc = save[t].proc /\ save'[t].file = save[t].file
           /\ save'[t].vals = save[t].vals /\ save'[t].awaited = save[t].awaited
BY DEF Restart, Shape, Variables, SaveType

LEMMA PowerLossMoves ==
    ASSUME Shape, PowerLoss, NEW t \in Saves
    PROVE  IF save[t].step = "none" THEN save'[t] = NoSave
           ELSE /\ save'[t].step = "done"
                /\ save'[t].proc = save[t].proc /\ save'[t].file = save[t].file
                /\ save'[t].vals = save[t].vals /\ save'[t].awaited = save[t].awaited
BY DEF PowerLoss, Shape, Variables, SaveType

-----------------------------------------------------------------------------
(* The files whose updates are merged only become fewer. *)

LEMMA MergedShrinks == ASSUME Shape, [Next]_vars PROVE Merged' \subseteq Merged
<1>1. \A t \in Saves : save[t].file = "groups" =>
          /\ save'[t].file = "groups" /\ save'[t].proc = save[t].proc
          /\ save'[t].awaited => save[t].awaited
  <2> SUFFICES ASSUME NEW t \in Saves, save[t].file = "groups"
               PROVE  /\ save'[t].file = "groups" /\ save'[t].proc = save[t].proc
                      /\ save'[t].awaited => save[t].awaited
    OBVIOUS
  <2>0. save[t].step # "none" BY DEF Shape, Placed
  <2>1. ASSUME NEW p \in Procs, Begin(p) PROVE save'[t] = save[t]
    BY <2>0, <2>1, BeginMoves
  <2>2. CASE \E p \in Procs : Restart(p) BY <2>2, RestartMoves
  <2>3. CASE PowerLoss BY <2>0, <2>3, PowerLossMoves
  <2>4. ASSUME NEW s \in Saves, Step(s) PROVE
            /\ save'[t].file = "groups" /\ save'[t].proc = save[t].proc
            /\ save'[t].awaited => save[t].awaited
    <3>1. CASE \E x \in Steps : Goto(s, x) BY <3>1, Moves DEF Moved
    <3>2. CASE Lock(s) BY <3>1, <3>2 DEF Lock, Steps
    <3>3. CASE Sync(s) \/ TaskFails(s) \/ Flush(s) \/ Finish(s)
      BY <3>1, <3>3 DEF Sync, TaskFails, Flush, Finish, Steps
    <3>4. CASE Acquire(s) \/ Read(s) \/ Rename(s) BY <3>4, Moves DEF Moved
    <3>5. CASE Cancel(s) BY <3>5, Moves DEF Moved
    <3> QED BY <2>4, <3>2, <3>3, <3>4, <3>5 DEF Step
  <2>5. CASE \E f \in Files : Damage(f) BY <2>5 DEF Damage
  <2>6. CASE UNCHANGED vars BY <2>6 DEF vars
  <2> QED BY <2>1, <2>2, <2>3, <2>4, <2>5, <2>6 DEF Next
<1>2. damaged \subseteq damaged'
  <2>1. ASSUME NEW s \in Saves, Step(s) PROVE damaged \subseteq damaged'
    <3>1. Acquire(s) \/ Lock(s) \/ Rename(s) \/ Sync(s) \/ TaskFails(s) => damaged' = damaged
      BY DEF Acquire, Lock, Rename, Sync, TaskFails
    <3>2. Finish(s) \/ Flush(s) \/ Cancel(s) => damaged' = damaged
      BY DEF Finish, Flush, Cancel
    <3>3. Read(s) => damaged \subseteq damaged' BY DEF Read
    <3> QED BY <2>1, <3>1, <3>2, <3>3 DEF Step
  <2>2. ASSUME NEW p \in Procs, Begin(p) \/ Restart(p) PROVE damaged' = damaged
    BY <2>2 DEF Begin, Restart
  <2>3. PowerLoss \/ UNCHANGED vars => damaged' = damaged BY DEF PowerLoss, vars
  <2>4. ASSUME NEW f \in Files, Damage(f) PROVE damaged \subseteq damaged' BY <2>4 DEF Damage
  <2> QED BY <2>1, <2>2, <2>3, <2>4 DEF Next
<1> QED BY <1>1, <1>2 DEF Merged, OneProcess, AllAwaited, Groups

-----------------------------------------------------------------------------
(* What is merged is kept. *)

\* Two saves of a process are not both inside its write lock.
Exclusive ==
    \A s, t \in Saves :
        HasWriteLock(s) /\ HasWriteLock(t) /\ save[s].proc = save[t].proc => s = t

\* Only a damaged file is corrupt.
OnlyDamage ==
    \A f \in Files : disk[f].is = "corrupt" \/ durable[f].is = "corrupt" => f \in damaged

\* As long as a file is missing and undamaged nobody has any of its values.
Untouched ==
    \A f \in Files :
        /\ durable[f].is = "missing" => durable[f].vals = Empty
        /\ disk[f].is = "missing" => disk[f].vals = Empty
        /\ disk[f].is = "missing" /\ f \notin damaged =>
               /\ \A p \in Procs : cache[p][f] = Empty
               /\ \A s \in Saves : save[s].file = f /\ save[s].step # "done" => save[s].vals = Empty

\* What a change of a group is based on is what the file still holds.
Current ==
    "groups" \in Merged =>
        \A s \in Groups : save[s].step \in {"start", "locked"} =>
            save[s].vals = disk["groups"].vals

Latest == \A f \in Merged : newest[f] = disk[f].vals

Merging == Exclusive /\ OnlyDamage /\ Untouched /\ Current /\ Latest

LEMMA InitMerging == Init => Merging
<1> SUFFICES ASSUME Init PROVE Merging OBVIOUS
<1>1. \A s \in Saves : save[s] = NoSave BY DEF Init
<1>2. Exclusive BY <1>1 DEF Exclusive, HasWriteLock, NoSave
<1>3. OnlyDamage BY DEF Init, OnlyDamage, Missing
<1>4. Untouched BY <1>1 DEF Init, Untouched, Missing, NoSave
<1>5. Current BY <1>1 DEF Current, Groups, NoSave
<1>6. Latest BY DEF Init, Latest, Missing, Merged, Empty
<1> QED BY <1>2, <1>3, <1>4, <1>5, <1>6 DEF Merging

LEMMA NextExclusive == ASSUME Shape, Exclusive, [Next]_vars PROVE Exclusive'
<1>1. CASE \A t \in Saves : HasWriteLock(t)' => HasWriteLock(t) /\ save'[t].proc = save[t].proc
  BY <1>1 DEF Exclusive
<1>2. ASSUME NEW p \in Procs, Begin(p) PROVE Exclusive'
  BY <1>1, <1>2, BeginMoves DEF HasWriteLock, InTask
<1>3. ASSUME NEW p \in Procs, Restart(p) PROVE Exclusive'
  BY <1>1, <1>3, RestartMoves DEF HasWriteLock, InTask
<1>4. CASE PowerLoss
  BY <1>1, <1>4, PowerLossMoves DEF HasWriteLock, InTask, NoSave
<1>5. ASSUME NEW s \in Saves, Acquire(s) PROVE Exclusive'
  <2>1. \A t \in Saves \ {s} : save'[t] = save[t] /\ save'[s].proc = save[s].proc
    BY <1>5, Moves DEF Moved
  <2>2. \A t \in Saves : save[t].proc = save[s].proc => ~ HasWriteLock(t)
    BY <1>5 DEF Acquire
  <2>3. \A t \in Saves \ {s} : HasWriteLock(t)' <=> HasWriteLock(t)
    BY <2>1 DEF HasWriteLock, InTask
  <2> QED BY <2>1, <2>2, <2>3 DEF Exclusive
<1>6. ASSUME NEW s \in Saves, NEW x, Moved(s, x), save'[s].awaited => save[s].awaited,
             x \in {"done", "flush", "queued"} \/ InTask(s) \/ save[s].step = "read" \/ ~ save'[s].awaited
      PROVE Exclusive'
  <2>1. \A t \in Saves \ {s} : HasWriteLock(t)' <=> HasWriteLock(t)
    BY <1>6 DEF Moved, HasWriteLock, InTask
  <2>2. HasWriteLock(s)' => HasWriteLock(s)
    BY <1>6 DEF Moved, HasWriteLock, InTask
  <2> QED BY <1>1, <1>6, <2>1, <2>2 DEF Moved
<1>7. ASSUME NEW s \in Saves, NEW x \in Steps, Goto(s, x), x = "done" \/ InTask(s) PROVE Exclusive'
  BY <1>6, <1>7, Moves
<1>8. ASSUME NEW s \in Saves, Read(s) PROVE Exclusive'
  <2>1. save[s].step = "read" BY <1>8 DEF Read
  <2>2. Moved(s, "start") /\ save'[s].awaited = save[s].awaited BY <1>8, Moves
  <2> QED BY <1>6, <2>1, <2>2
<1>9. ASSUME NEW s \in Saves, Lock(s) PROVE Exclusive'
  <2>1. Goto(s, "locked") \/ Goto(s, "failed") BY <1>9 DEF Lock
  <2>2. InTask(s) BY <1>9 DEF Lock, InTask
  <2> QED BY <1>7, <2>1, <2>2 DEF Steps
<1>10. ASSUME NEW s \in Saves, Rename(s) PROVE Exclusive'
  <2>1. InTask(s) BY <1>10 DEF Rename, InTask
  <2>2. Moved(s, "renamed") /\ save'[s].awaited = save[s].awaited BY <1>10, Moves
  <2> QED BY <1>6, <2>1, <2>2
<1>11. ASSUME NEW s \in Saves, Sync(s) \/ TaskFails(s) \/ Finish(s) \/ Flush(s) PROVE Exclusive'
  <2>1. Sync(s) => Goto(s, "synced") /\ InTask(s) BY DEF Sync, InTask
  <2>2. TaskFails(s) => Goto(s, "failed") /\ InTask(s) BY DEF TaskFails, InTask
  <2>3. Finish(s) \/ Flush(s) => Goto(s, "done") BY DEF Finish, Flush
  <2> QED BY <1>7, <1>11, <2>1, <2>2, <2>3 DEF Steps
<1>12. ASSUME NEW s \in Saves, Cancel(s) PROVE Exclusive'
  <2>1. \E x : Moved(s, x) /\ ~ save'[s].awaited BY <1>12, Moves
  <2> QED BY <1>6, <2>1
<1>13. CASE (\E f \in Files : Damage(f)) \/ UNCHANGED vars
  BY <1>1, <1>13 DEF Damage, vars, HasWriteLock, InTask
<1> QED BY <1>2, <1>3, <1>4, <1>5, <1>8, <1>9, <1>10, <1>11, <1>12, <1>13 DEF Next, Step

LEMMA DiskMoves ==
    ASSUME Shape, [Next]_vars, NEW f \in Files
    PROVE  /\ \/ disk'[f] = disk[f] \/ (PowerLoss /\ disk'[f] = durable[f])
              \/ \E s \in Saves : Rename(s) /\ save[s].file = f /\ disk'[f] = Holding(ToWrite(s))
              \/ disk'[f] = Corrupt /\ f \in damaged'
           /\ \/ durable'[f] \in {durable[f], disk[f]}
              \/ durable'[f] = Corrupt /\ f \in damaged'
           /\ f \in damaged => f \in damaged'
<1> DEFINE Goal == /\ \/ disk'[f] = disk[f] \/ (PowerLoss /\ disk'[f] = durable[f])
                      \/ \E s \in Saves : Rename(s) /\ save[s].file = f /\ disk'[f] = Holding(ToWrite(s))
                      \/ disk'[f] = Corrupt /\ f \in damaged'
                   /\ \/ durable'[f] \in {durable[f], disk[f]}
                      \/ durable'[f] = Corrupt /\ f \in damaged'
                   /\ f \in damaged => f \in damaged'
<1>0. disk \in [Files -> Contents] /\ durable \in [Files -> Contents]
  BY DEF Shape, Variables
<1>1. ASSUME NEW p \in Procs, Begin(p) \/ Restart(p) PROVE Goal BY <1>1 DEF Begin, Restart
<1>2. CASE PowerLoss BY <1>2 DEF PowerLoss
<1>3. ASSUME NEW g \in Files, Damage(g) PROVE Goal BY <1>0, <1>3 DEF Damage
<1>4. CASE UNCHANGED vars BY <1>4 DEF vars
<1>5. ASSUME NEW s \in Saves, Step(s) PROVE Goal
  <2>1. CASE Acquire(s) \/ Lock(s) \/ Read(s) BY <2>1 DEF Acquire, Lock, Read
  <2>2. CASE TaskFails(s) \/ Finish(s) \/ Cancel(s) BY <2>2 DEF TaskFails, Finish, Cancel
  <2>3. CASE Sync(s) \/ Flush(s) BY <2>3 DEF Sync, Flush
  <2>4. CASE Rename(s)
    <3> DEFINE v == ToWrite(s)
    <3>1. disk' = [disk EXCEPT ![save[s].file] = Holding(v)] /\ UNCHANGED <<durable, damaged>>
      BY <2>4 DEF Rename
    <3> HIDE DEF v
    <3>2. IF f = save[s].file THEN disk'[f] = Holding(v) ELSE disk'[f] = disk[f]
      BY <1>0, <3>1
    <3> QED BY <2>4, <3>1, <3>2 DEF v
  <2> QED BY <1>5, <2>1, <2>2, <2>3, <2>4 DEF Step
<1> QED BY <1>1, <1>2, <1>3, <1>4, <1>5 DEF Next

LEMMA NextOnlyDamage == ASSUME Shape, OnlyDamage, [Next]_vars PROVE OnlyDamage'
<1> SUFFICES ASSUME NEW f \in Files, disk'[f].is = "corrupt" \/ durable'[f].is = "corrupt"
             PROVE  f \in damaged'
  BY DEF OnlyDamage
<1>1. disk[f].is = "corrupt" \/ durable[f].is = "corrupt" => f \in damaged'
  BY DiskMoves DEF OnlyDamage
<1>2. \A v : Holding(v).is = "ok" BY DEF Holding
<1>3. disk'[f].is = "corrupt" => f \in damaged' BY <1>1, <1>2, DiskMoves
<1>4. durable'[f].is = "corrupt" => f \in damaged' BY <1>1, DiskMoves
<1> QED BY <1>3, <1>4

\* The caches and the saves, as far as the untouched files are concerned.
LEMMA CacheMoves ==
    ASSUME Shape, [Next]_vars, NEW p \in Procs, NEW f \in Files
    PROVE  \/ cache'[p][f] \in {cache[p][f], Empty, disk'[f].vals}
           \/ \E s \in Saves : save[s].file = f /\ save[s].step = "synced" /\ cache'[p][f] = save[s].vals
<1> DEFINE Goal == \/ cache'[p][f] \in {cache[p][f], Empty, disk'[f].vals}
                   \/ \E s \in Saves : save[s].file = f /\ save[s].step = "synced" /\ cache'[p][f] = save[s].vals
<1>0. cache \in [Procs -> [Files -> [Keys -> Value]]] BY DEF Shape, Variables
<1>1. ASSUME NEW q \in Procs, Begin(q) PROVE Goal BY <1>1 DEF Begin
<1>2. ASSUME NEW q \in Procs, Restart(q) PROVE Goal
  BY <1>0, <1>2 DEF Restart, Load
<1>3. CASE PowerLoss BY <1>3 DEF PowerLoss
<1>4. CASE (\E g \in Files : Damage(g)) \/ UNCHANGED vars BY <1>4 DEF Damage, vars
<1>5. ASSUME NEW s \in Saves, Step(s) PROVE Goal
  <2>1. CASE Acquire(s) \/ Lock(s) \/ Read(s) BY <2>1 DEF Acquire, Lock, Read
  <2>2. CASE TaskFails(s) \/ Cancel(s) BY <2>2 DEF TaskFails, Cancel
  <2>3. CASE Sync(s) \/ Flush(s) BY <2>3 DEF Sync, Flush
  <2>4. CASE Rename(s) BY <2>4 DEF Rename
  <2>5. CASE Finish(s)
    <3>1. save[s].proc \in Procs /\ save[s].file \in Files BY <2>5 DEF Finish, Shape, Placed
    <3>2. \/ cache' = cache
          \/ save[s].step = "synced" /\ cache' = [cache EXCEPT ![save[s].proc][save[s].file] = save[s].vals]
      BY <2>5 DEF Finish
    <3>3. CASE cache' = cache BY <3>3
    <3>4. CASE save[s].step = "synced" /\ cache' = [cache EXCEPT ![save[s].proc][save[s].file] = save[s].vals]
      BY ONLY <1>0, <3>1, <3>4
    <3> QED BY <3>2, <3>3, <3>4
  <2> QED BY <1>5, <2>1, <2>2, <2>3, <2>4, <2>5 DEF Step
<1> QED BY <1>1, <1>2, <1>3, <1>4, <1>5 DEF Next

LEMMA SaveMoves ==
    ASSUME Shape, [Next]_vars, NEW t \in Saves, save'[t].step # "done"
    PROVE  \/ save'[t].vals = Empty
           \/ /\ save'[t].file = save[t].file
              /\ \/ save'[t].vals = save[t].vals /\ save[t].step # "done"
                 \/ save[t].file \in Files /\ save'[t].vals = disk'[save[t].file].vals
                 \/ save[t].proc \in Procs /\ save[t].file \in Files /\ save'[t].vals = cache[save[t].proc][save[t].file]
<1> DEFINE Goal == \/ save'[t].vals = Empty
                   \/ /\ save'[t].file = save[t].file
                      /\ \/ save'[t].vals = save[t].vals /\ save[t].step # "done"
                         \/ save[t].file \in Files /\ save'[t].vals = disk'[save[t].file].vals
                         \/ save[t].proc \in Procs /\ save[t].file \in Files /\ save'[t].vals = cache[save[t].proc][save[t].file]
<1>1. ASSUME NEW p \in Procs, Begin(p) PROVE Goal BY <1>1, BeginMoves
<1>2. ASSUME NEW p \in Procs, Restart(p) PROVE Goal BY <1>2, RestartMoves
<1>3. CASE PowerLoss BY <1>3, PowerLossMoves DEF NoSave
<1>4. CASE (\E f \in Files : Damage(f)) \/ UNCHANGED vars BY <1>4 DEF Damage, vars
<1>5. ASSUME NEW s \in Saves, Step(s) PROVE Goal
  <2>1. CASE t # s
    <3>1. \A x \in Steps : Goto(s, x) => save'[t] = save[t] BY <2>1, Moves DEF Moved
    <3>2. Acquire(s) \/ Read(s) \/ Rename(s) \/ Cancel(s) => save'[t] = save[t]
      BY <2>1, Moves DEF Moved
    <3>3. Lock(s) \/ Sync(s) \/ TaskFails(s) \/ Finish(s) \/ Flush(s) => \E x \in Steps : Goto(s, x)
      BY DEF Lock, Sync, TaskFails, Finish, Flush, Steps
    <3>4. save'[t] = save[t] BY <1>5, <3>1, <3>2, <3>3 DEF Step
    <3> QED BY <3>4
  <2>2. CASE t = s
    <3>1. Placed(s) BY DEF Shape
    <3>2. CASE Acquire(s)
      <4>1. save[s].step = "queued" BY <3>2 DEF Acquire
      <4>2. save[s].file = "thoughts" => save[s].file \in Files BY <3>1, <4>1 DEF Placed
      <4> QED BY <2>2, <3>1, <3>2, <4>1, <4>2, Moves DEF Moved, Placed
    <3>3. CASE Read(s)
      <4>1. save[s].step = "read" /\ disk' = disk BY <3>3 DEF Read
      <4> QED BY <2>2, <3>1, <3>3, <4>1, Moves DEF Moved, Placed
    <3>4. CASE Rename(s)
      <4> DEFINE v == ToWrite(s)
                 f == save[s].file
      <4>1. f \in Files /\ disk \in [Files -> Contents] BY <3>1, <3>4 DEF Rename, Placed, Shape, Variables
      <4>2. disk' = [disk EXCEPT ![f] = Holding(v)] BY <3>4 DEF Rename
      <4>3. save'[s].file = f /\ save'[s].vals = v BY <3>4, Moves DEF Moved
      <4> HIDE DEF v
      <4>4. disk'[f].vals = v BY <4>1, <4>2 DEF Holding
      <4> QED BY <2>2, <4>1, <4>3, <4>4
    <3>5. CASE Cancel(s)
      <4>1. save[s].step # "done" BY <3>5 DEF Cancel, HasWriteLock, InTask
      <4> QED BY <2>2, <3>5, <4>1, Moves DEF Moved
    <3>6. CASE \E x \in Steps : Goto(s, x) /\ save[s].step # "done"
      BY <2>2, <3>6, Moves DEF Moved
    <3>7. CASE Lock(s) BY <3>6, <3>7 DEF Lock, Steps
    <3>8. CASE Sync(s) \/ TaskFails(s) \/ Finish(s) \/ Flush(s)
      BY <3>6, <3>8 DEF Sync, TaskFails, Finish, Flush, Steps
    <3> QED BY <1>5, <3>2, <3>3, <3>4, <3>5, <3>7, <3>8 DEF Step
  <2> QED BY <2>1, <2>2
<1> QED BY <1>1, <1>2, <1>3, <1>4, <1>5 DEF Next

LEMMA NextUntouched == ASSUME Shape, OnlyDamage, Untouched, [Next]_vars PROVE Untouched'
<1> SUFFICES ASSUME NEW f \in Files
             PROVE  /\ durable'[f].is = "missing" => durable'[f].vals = Empty
                    /\ disk'[f].is = "missing" => disk'[f].vals = Empty
                    /\ disk'[f].is = "missing" /\ f \notin damaged' =>
                           /\ \A p \in Procs : cache'[p][f] = Empty
                           /\ \A s \in Saves : save'[s].file = f /\ save'[s].step # "done" =>
                                  save'[s].vals = Empty
  BY DEF Untouched, Empty
<1>1. Corrupt.is # "missing" /\ \A v : Holding(v).is # "missing" BY DEF Corrupt, Holding
<1>2. durable'[f].is = "missing" => durable'[f].vals = Empty
  BY <1>1, DiskMoves DEF Untouched
<1>3. disk'[f].is = "missing" => disk'[f].vals = Empty
  BY <1>1, DiskMoves DEF Untouched
<1>4. ASSUME PowerLoss, disk'[f].is = "missing"
      PROVE  /\ \A p \in Procs : cache'[p][f] = Empty
             /\ \A s \in Saves : save'[s].file = f /\ save'[s].step # "done" => save'[s].vals = Empty
  <2>1. \A p \in Procs : cache'[p][f] = disk'[f].vals BY <1>4 DEF PowerLoss
  <2>2. \A s \in Saves : save'[s] = NoSave \/ save'[s].step = "done"
    BY <1>4, PowerLossMoves
  <2> QED BY <1>3, <1>4, <2>1, <2>2 DEF NoSave
<1>5. ASSUME disk'[f] = disk[f], disk'[f].is = "missing", f \notin damaged'
      PROVE  /\ \A p \in Procs : cache'[p][f] = Empty
             /\ \A s \in Saves : save'[s].file = f /\ save'[s].step # "done" => save'[s].vals = Empty
  <2>1. f \notin damaged BY <1>5, DiskMoves
  <2>2. /\ \A p \in Procs : cache[p][f] = Empty
        /\ \A s \in Saves : save[s].file = f /\ save[s].step # "done" => save[s].vals = Empty
        /\ disk'[f].vals = Empty
    BY <1>5, <2>1 DEF Untouched
  <2>3. ASSUME NEW p \in Procs PROVE cache'[p][f] = Empty
    BY <2>2, CacheMoves
  <2>4. ASSUME NEW t \in Saves, save'[t].file = f, save'[t].step # "done" PROVE save'[t].vals = Empty
    BY <2>2, <2>4, SaveMoves
  <2> QED BY <2>3, <2>4
<1> QED BY <1>1, <1>2, <1>3, <1>4, <1>5, DiskMoves

-----------------------------------------------------------------------------
\* What a save writes is what the file held, but for what the save changes.
LEMMA WritesMerge ==
    ASSUME Shape, OnlyDamage, Untouched, Current, NEW s \in Saves, save[s].step = "locked",
           save[s].file \in Merged
    PROVE  \A k \in Keys : ToWrite(s)[k] \in {disk[save[s].file].vals[k], s}
<1> DEFINE f == save[s].file
<1>1. f \in Files /\ f \notin damaged /\ f \in {"sessions", "config", "thoughts", "groups"}
  BY StoreAssumption DEF Merged
<1>2. /\ save[s].vals \in [Keys -> Value] /\ disk[f] \in Contents /\ disk[f].vals \in [Keys -> Value]
  BY <1>1 DEF Shape, Variables, SaveType, Contents
<1>3. CASE f \in {"sessions", "config"} BY <1>3 DEF ToWrite
<1>4. CASE f = "groups"
  <2>1. save[s].vals = disk["groups"].vals
    BY <1>4 DEF Current, Groups
  <2>2. ToWrite(s) = [save[s].vals EXCEPT ![save[s].key] = s]
    BY <1>4 DEF ToWrite
  <2> QED BY ONLY <1>2, <1>4, <2>1, <2>2
<1>5. CASE f = "thoughts"
  <2>1. CASE disk[f].is = "ok"
    <3>1. ToWrite(s) = [disk[f].vals EXCEPT ![save[s].key] = s]
      BY <1>5, <2>1 DEF ToWrite, WithThought
    <3> QED BY ONLY <1>2, <1>5, <3>1
  <2>2. CASE disk[f].is # "ok"
    <3>1. disk[f].is = "missing"
      BY <1>1, <1>2, <2>2 DEF OnlyDamage, Contents
    <3>2. save[s].vals = disk[f].vals
      BY <1>1, <3>1 DEF Untouched
    <3>3. ToWrite(s) = [save[s].vals EXCEPT ![save[s].key] = s]
      BY <1>5, <2>2 DEF ToWrite, WithThought
    <3> QED BY ONLY <1>2, <1>5, <3>2, <3>3
  <2> QED BY <2>1, <2>2
<1> QED BY <1>1, <1>3, <1>4, <1>5

LEMMA NextCurrent ==
    ASSUME Shape, Exclusive, OnlyDamage, Untouched, Current, [Next]_vars PROVE Current'
<1> SUFFICES ASSUME "groups" \in Merged', NEW t \in Saves, save'[t].file = "groups",
                    save'[t].step \in {"start", "locked"}
             PROVE  save'[t].vals = disk'["groups"].vals
  BY DEF Current, Groups
<1>1. "groups" \in Merged BY MergedShrinks
<1>2. "groups" \in Files /\ "groups" \notin damaged /\ "groups" \notin damaged'
  BY <1>1 DEF Merged
<1>3. \A u \in Saves : save[u].file = "groups" /\ save[u].step \in {"start", "locked"} =>
          save[u].vals = disk["groups"].vals
  BY <1>1 DEF Current, Groups
<1>4. CASE save'[t] = save[t] /\ disk' = disk BY <1>3, <1>4
<1>5. ASSUME NEW p \in Procs, Begin(p) PROVE save'[t] = save[t] /\ disk' = disk
  BY <1>5, BeginMoves DEF Begin
<1>6. ASSUME NEW p \in Procs, Restart(p) PROVE save'[t] = save[t] /\ disk' = disk
  BY <1>6, RestartMoves DEF Restart
<1>7. CASE PowerLoss BY <1>7, PowerLossMoves DEF NoSave
<1>8. ASSUME NEW f \in Files, Damage(f) PROVE save'[t].vals = disk'["groups"].vals
  <2>1. f # "groups" BY <1>2, <1>8 DEF Damage
  <2>2. disk'["groups"] = disk["groups"] /\ save' = save
    BY <2>1, <1>2, <1>8 DEF Damage, Shape, Variables
  <2> QED BY <1>3, <2>2
<1>9. CASE UNCHANGED vars BY <1>4, <1>9 DEF vars
<1>10. ASSUME NEW s \in Saves, Step(s) PROVE save'[t].vals = disk'["groups"].vals
  <2>1. CASE Acquire(s)
    <3>1. t # s BY <2>1, Moves DEF Moved
    <3>2. save'[t] = save[t] BY <2>1, <3>1, Moves DEF Moved
    <3>3. disk' = disk BY <2>1 DEF Acquire
    <3> QED BY <1>4, <3>2, <3>3
  <2>2. CASE Read(s)
    <3>1. disk' = disk /\ save[s].step = "read" BY <2>2 DEF Read
    <3>2. CASE t # s BY <1>4, <2>2, <3>1, <3>2, Moves DEF Moved
    <3>3. CASE t = s
      <4>1. save[s].proc \in Procs BY <3>1 DEF Shape, Placed
      <4>2. disk["groups"].is # "ok" => cache[save[s].proc]["groups"] = disk["groups"].vals
        BY <1>2, <4>1 DEF Untouched, OnlyDamage, Shape, Variables, Contents
      <4> QED BY <1>2, <2>2, <3>1, <3>3, <4>2, Moves
    <3> QED BY <3>2, <3>3
  <2>3. CASE Rename(s)
    <3>1. save[s].step = "locked" BY <2>3 DEF Rename
    <3>2. t # s /\ save'[t] = save[t] BY <2>3, Moves DEF Moved
    <3>3. save[s].file # "groups"
      <4> SUFFICES ASSUME save[s].file = "groups" PROVE FALSE OBVIOUS
      <4>1. s \in Groups /\ t \in Groups BY <3>2 DEF Groups
      <4>2. save[s].proc = save[t].proc /\ save[s].awaited /\ save[t].awaited
        BY <1>1, <4>1 DEF Merged, OneProcess, AllAwaited
      <4>3. HasWriteLock(s) /\ HasWriteLock(t)
        BY <3>1, <3>2, <4>2 DEF HasWriteLock, InTask
      <4> QED BY <3>2, <4>2, <4>3 DEF Exclusive
    <3>4. disk'["groups"] = disk["groups"]
      <4>1. disk' = [disk EXCEPT ![save[s].file] = Holding(ToWrite(s))] BY <2>3 DEF Rename
      <4> QED BY <1>2, <3>3, <4>1 DEF Shape, Variables
    <3> QED BY <1>3, <3>2, <3>4
  <2>4. CASE Lock(s)
    <3>1. disk' = disk /\ save[s].step = "start" BY <2>4 DEF Lock
    <3>2. Goto(s, "locked") \/ Goto(s, "failed") BY <2>4 DEF Lock
    <3>3. \/ t # s /\ save'[t] = save[t]
          \/ t = s /\ save'[s].vals = save[s].vals /\ save'[s].file = save[s].file
      BY <3>2, Moves DEF Moved, Steps
    <3> QED BY <1>3, <3>1, <3>3
  <2>5. CASE Sync(s) \/ TaskFails(s) \/ Finish(s) \/ Flush(s)
    <3>1. disk' = disk BY <2>5 DEF Sync, TaskFails, Finish, Flush
    <3>2. \E x \in {"synced", "failed", "done"} : Goto(s, x)
      BY <2>5 DEF Sync, TaskFails, Finish, Flush
    <3>3. t # s /\ save'[t] = save[t] BY <3>2, Moves DEF Moved, Steps
    <3> QED BY <1>4, <3>1, <3>3
  <2>6. CASE Cancel(s)
    <3>1. disk' = disk BY <2>6 DEF Cancel
    <3>2. CASE t # s BY <1>4, <2>6, <3>1, <3>2, Moves DEF Moved
    <3>3. CASE t = s
      <4>1. ~ save'[t].awaited BY <2>6, <3>3, Moves
      <4> QED BY <4>1 DEF Merged, AllAwaited, Groups
    <3> QED BY <3>2, <3>3
  <2> QED BY <1>10, <2>1, <2>2, <2>3, <2>4, <2>5, <2>6 DEF Step
<1> QED BY <1>4, <1>5, <1>6, <1>7, <1>8, <1>9, <1>10 DEF Next

LEMMA NextLatest ==
    ASSUME Shape, OnlyDamage, Untouched, Current, Latest, [Next]_vars PROVE Latest'
<1> SUFFICES ASSUME NEW f \in Merged' PROVE newest'[f] = disk'[f].vals
  BY DEF Latest
<1>1. f \in Merged /\ f \in Files /\ f \notin damaged' /\ newest[f] = disk[f].vals
  BY MergedShrinks DEF Latest, Merged
<1>2. /\ disk \in [Files -> Contents] /\ disk' \in [Files -> Contents]
      /\ newest \in [Files -> [Keys -> Value]]
  BY NextShape DEF Shape, Variables
<1>3. CASE PowerLoss
  <2>1. newest'[f] = [k \in Keys |-> disk'[f].vals[k]] BY <1>1, <1>3 DEF PowerLoss
  <2>2. disk'[f].vals \in [Keys -> Value] BY <1>1, <1>2 DEF Contents
  <2> QED BY ONLY <2>1, <2>2
<1>4. ASSUME NEW s \in Saves, Rename(s) PROVE newest'[f] = disk'[f].vals
  <2> DEFINE v == ToWrite(s)
             g == save[s].file
  <2>1. g \in Files /\ save[s].step = "locked" BY <1>4 DEF Rename, Shape, Placed
  <2>2. /\ disk' = [disk EXCEPT ![g] = Holding(v)]
        /\ newest' = [newest EXCEPT ![g] = [k \in Keys |-> IF v[k] = s THEN s ELSE @[k]]]
    BY <1>4 DEF Rename
  <2>3. v \in [Keys -> Value] BY <2>1, WrittenIsTyped
  <2>4. g = f => \A k \in Keys : v[k] \in {disk[f].vals[k], s}
    BY <1>1, <2>1, WritesMerge
  <2> HIDE DEF v, g
  <2>5. CASE g # f BY <1>1, <1>2, <2>2, <2>5
  <2>6. CASE g = f
    <3>1. disk'[f].vals = v BY <1>1, <1>2, <2>2, <2>6 DEF Holding
    <3>2. newest'[f] = [k \in Keys |-> IF v[k] = s THEN s ELSE newest[f][k]]
      BY <1>1, <1>2, <2>2, <2>6
    <3>3. \A k \in Keys : v[k] = (IF v[k] = s THEN s ELSE newest[f][k])
      BY <1>1, <2>4, <2>6
    <3> QED BY ONLY <3>1, <3>2, <3>3, <2>3
  <2> QED BY <2>5, <2>6
<1>5. ASSUME ~ PowerLoss, \A s \in Saves : ~ Rename(s) PROVE newest'[f] = disk'[f].vals
  <2>1. disk'[f] = disk[f] BY <1>1, <1>5, DiskMoves
  <2>2. newest' = newest
    <3>1. ASSUME NEW s \in Saves, Step(s) PROVE newest' = newest
      <4>1. Acquire(s) \/ Read(s) \/ Lock(s) \/ Sync(s) \/ TaskFails(s) => newest' = newest
        BY DEF Acquire, Read, Lock, Sync, TaskFails
      <4>2. Finish(s) \/ Flush(s) \/ Cancel(s) => newest' = newest
        BY DEF Finish, Flush, Cancel
      <4> QED BY <1>5, <3>1, <4>1, <4>2 DEF Step
    <3>2. ASSUME NEW p \in Procs, Begin(p) \/ Restart(p) PROVE newest' = newest
      BY <3>2 DEF Begin, Restart
    <3>3. (\E g \in Files : Damage(g)) \/ UNCHANGED vars => newest' = newest BY DEF Damage, vars
    <3> QED BY <1>5, <3>1, <3>2, <3>3 DEF Next
  <2> QED BY <1>1, <2>1, <2>2
<1> QED BY <1>3, <1>4, <1>5

LEMMA MergingAlways == Spec => []Merging
<1>1. Shape /\ Merging /\ [Next]_vars => Merging'
  BY NextExclusive, NextOnlyDamage, NextUntouched, NextCurrent, NextLatest DEF Merging
<1> QED BY <1>1, InitMerging, ShapeAlways, PTL DEF Spec

(***************************************************************************)
(* save_thought: a thought that was renamed stays in the file until a newer*)
(* one of its session replaces it, whichever processes save at the same    *)
(* time, and whoever fails, is cancelled, dies or restarts in between.  Of *)
(* update_dir_group_memberships, which reads before it has the lock, this  *)
(* holds only while one process changes the groups and none of its requests*)
(* is cancelled.                                                           *)
(***************************************************************************)
THEOREM MergesAreKept == Spec => []MergesKept
<1>1. Latest => NoThoughtLost BY DEF Latest, Merged, NoThoughtLost
<1>2. Latest => GroupsKeptInProcess BY DEF Latest, Merged, GroupsKeptInProcess, GroupWritesMerge
<1> QED BY <1>1, <1>2, MergingAlways, PTL DEF Merging, MergesKept

-----------------------------------------------------------------------------
(* What is acknowledged is durable. *)

\* The saves that have reached the disk are those past their rename.
PastRename ==
    /\ settled \subseteq renamed
    /\ \A s \in renamed : save[s].step \in {"renamed", "synced", "failed", "done"}
    /\ \A s \in Saves : save[s].step \in {"renamed", "synced"} => s \in renamed

\* What is settled, or about to be, and still on disk is on disk durably.
Safe ==
    \A f \in Merged, k \in Keys :
        LET v == disk[f].vals[k] IN
        v \in settled \/ (v \in Saves /\ save[v].step = "synced") => durable[f].vals[k] = v

LEMMA InitSafe == Init => PastRename /\ Safe
BY DEF Init, PastRename, Safe, Missing, NoSave

LEMMA SettledMoves ==
    ASSUME Shape, Persisted, PastRename, [Next]_vars
    PROVE  /\ settled' \subseteq renamed /\ renamed \subseteq renamed'
           /\ \A x \in settled' \ settled :
                  \/ \E s \in Saves : Finish(s) /\ save[s].step = "synced" /\ x = s
                  \/ \E s \in Saves : Flush(s)
<1> DEFINE Goal == /\ settled' \subseteq renamed /\ renamed \subseteq renamed'
                   /\ \A x \in settled' \ settled :
                          \/ \E s \in Saves : Finish(s) /\ save[s].step = "synced" /\ x = s
                          \/ \E s \in Saves : Flush(s)
<1>1. ASSUME NEW s \in Saves, Step(s) PROVE Goal
  <2>1. CASE Acquire(s) \/ Lock(s) \/ Read(s) BY <2>1 DEF Acquire, Lock, Read, PastRename
  <2>2. CASE TaskFails(s) \/ Sync(s) \/ Cancel(s) BY <2>2 DEF TaskFails, Sync, Cancel, PastRename
  <2>3. CASE Rename(s) BY <2>3 DEF Rename, PastRename
  <2>4. CASE Finish(s)
    <3>1. renamed' = renamed /\ (settled' = settled \/ (save[s].step = "synced" /\ settled' = settled \cup {s}))
      BY <2>4 DEF Finish
    <3> QED BY <2>4, <3>1 DEF PastRename
  <2>5. CASE Flush(s)
    <3>1. /\ renamed' = renamed
          /\ settled' = settled \cup ({disk[f].vals[k] : f \in Files, k \in Keys} \ {0})
      BY <2>5 DEF Flush
    <3> QED BY <2>5, <3>1 DEF PastRename, Persisted, Was
  <2> QED BY <1>1, <2>1, <2>2, <2>3, <2>4, <2>5 DEF Step
<1>2. ASSUME NEW p \in Procs, Begin(p) \/ Restart(p) PROVE Goal
  BY <1>2 DEF Begin, Restart, PastRename
<1>3. PowerLoss \/ (\E g \in Files : Damage(g)) \/ UNCHANGED vars => Goal
  BY DEF PowerLoss, Damage, vars, PastRename
<1> QED BY <1>1, <1>2, <1>3 DEF Next

LEMMA NextPastRename == ASSUME Shape, Persisted, PastRename, [Next]_vars PROVE PastRename'
<1>1. settled' \subseteq renamed /\ renamed \subseteq renamed' BY SettledMoves
<1> SUFFICES ASSUME NEW t \in Saves
             PROVE  /\ t \in renamed' => save'[t].step \in {"renamed", "synced", "failed", "done"}
                    /\ save'[t].step \in {"renamed", "synced"} => t \in renamed'
  <2>1. renamed' \subseteq Saves BY NextShape DEF Shape, Variables
  <2> QED BY <1>1, <2>1 DEF PastRename
<1> DEFINE Goal == /\ t \in renamed' => save'[t].step \in {"renamed", "synced", "failed", "done"}
                   /\ save'[t].step \in {"renamed", "synced"} => t \in renamed'
<1>2. CASE renamed' = renamed /\ save'[t].step \in {save[t].step, "done"}
  BY <1>2 DEF PastRename
<1>3. ASSUME NEW p \in Procs, Begin(p) PROVE Goal
  <2>1. renamed' = renamed BY <1>3 DEF Begin
  <2>2. save'[t] = save[t] \/ (save[t].step = "none" /\ save'[t].step = "queued")
    BY <1>3, BeginMoves
  <2> QED BY <2>1, <2>2, <1>2 DEF PastRename
<1>4. ASSUME NEW p \in Procs, Restart(p) PROVE Goal
  BY <1>2, <1>4, RestartMoves DEF Restart
<1>5. CASE PowerLoss
  BY <1>2, <1>5, PowerLossMoves DEF PowerLoss, NoSave
<1>6. CASE (\E g \in Files : Damage(g)) \/ UNCHANGED vars
  BY <1>2, <1>6 DEF Damage, vars
<1>7. ASSUME NEW s \in Saves, Step(s) PROVE Goal
  <2>1. CASE Acquire(s)
    <3>1. save[s].step = "queued" /\ renamed' = renamed BY <2>1 DEF Acquire
    <3> QED BY <1>2, <2>1, <3>1, Moves DEF Moved, PastRename
  <2>2. CASE Read(s)
    <3>1. save[s].step = "read" /\ renamed' = renamed BY <2>2 DEF Read
    <3> QED BY <1>2, <2>2, <3>1, Moves DEF Moved, PastRename
  <2>3. CASE Lock(s)
    <3>1. save[s].step = "start" /\ renamed' = renamed BY <2>3 DEF Lock
    <3>2. Goto(s, "locked") \/ Goto(s, "failed") BY <2>3 DEF Lock
    <3>3. t # s => save'[t] = save[t] BY <3>2, Moves DEF Moved, Steps
    <3>4. save'[s].step \in {"locked", "failed"} BY <3>2, Moves DEF Moved, Steps
    <3> QED BY <1>2, <3>1, <3>3, <3>4 DEF PastRename
  <2>4. CASE Rename(s)
    <3>1. renamed' = renamed \cup {s} BY <2>4 DEF Rename
    <3>2. t # s => save'[t] = save[t] BY <2>4, Moves DEF Moved
    <3>3. save'[s].step = "renamed" BY <2>4, Moves DEF Moved
    <3> QED BY <3>1, <3>2, <3>3 DEF PastRename
  <2>5. CASE Sync(s)
    <3>1. save[s].step = "renamed" /\ renamed' = renamed /\ Goto(s, "synced") BY <2>5 DEF Sync
    <3>2. t # s => save'[t] = save[t] BY <3>1, Moves DEF Moved, Steps
    <3>3. save'[s].step = "synced" BY <3>1, Moves DEF Moved, Steps
    <3> QED BY <3>1, <3>2, <3>3 DEF PastRename
  <2>6. CASE TaskFails(s)
    <3>1. renamed' = renamed /\ Goto(s, "failed") BY <2>6 DEF TaskFails
    <3>2. t # s => save'[t] = save[t] BY <3>1, Moves DEF Moved, Steps
    <3>3. save'[s].step = "failed" BY <3>1, Moves DEF Moved, Steps
    <3> QED BY <3>1, <3>2, <3>3 DEF PastRename
  <2>7. CASE Finish(s) \/ Flush(s)
    <3>1. renamed' = renamed /\ Goto(s, "done") BY <2>7 DEF Finish, Flush
    <3>2. t # s => save'[t] = save[t] BY <3>1, Moves DEF Moved, Steps
    <3>3. save'[s].step = "done" BY <3>1, Moves DEF Moved, Steps
    <3> QED BY <1>2, <3>1, <3>2, <3>3
  <2>8. CASE Cancel(s)
    <3>1. renamed' = renamed BY <2>8 DEF Cancel
    <3>2. t # s => save'[t] = save[t] BY <2>8, Moves DEF Moved
    <3>3. save'[s].step \in {"done", save[s].step} BY <2>8, Moves DEF Moved
    <3> QED BY <1>2, <3>1, <3>2, <3>3
  <2> QED BY <1>7, <2>1, <2>2, <2>3, <2>4, <2>5, <2>6, <2>7, <2>8 DEF Step
<1> QED BY <1>3, <1>4, <1>5, <1>6, <1>7 DEF Next

LEMMA SyncedMoves ==
    ASSUME Shape, [Next]_vars, NEW t \in Saves, save'[t].step = "synced"
    PROVE  save[t].step = "synced" \/ Sync(t)
<1>1. ASSUME NEW p \in Procs, Begin(p) \/ Restart(p) PROVE save[t].step = "synced"
  BY <1>1, BeginMoves, RestartMoves
<1>2. PowerLoss => save[t].step = "synced" BY PowerLossMoves DEF NoSave
<1>3. (\E g \in Files : Damage(g)) \/ UNCHANGED vars => save[t].step = "synced"
  BY DEF Damage, vars
<1>4. ASSUME NEW s \in Saves, Step(s) PROVE save[t].step = "synced" \/ Sync(t)
  <2>1. CASE Acquire(s) \/ Read(s) \/ Rename(s) BY <2>1, Moves DEF Moved
  <2>2. CASE Cancel(s) BY <2>2, Moves DEF Moved
  <2>3. ASSUME NEW x \in Steps \ {"synced"}, Goto(s, x) PROVE save[t].step = "synced"
    BY <2>3, Moves DEF Moved
  <2>4. CASE Lock(s) BY <2>3, <2>4 DEF Lock, Steps
  <2>5. CASE TaskFails(s) \/ Finish(s) \/ Flush(s) BY <2>3, <2>5 DEF TaskFails, Finish, Flush, Steps
  <2>6. CASE Sync(s)
    <3>1. t # s => save'[t] = save[t] BY <2>6, Moves DEF Moved, Sync, Steps
    <3> QED BY <2>6, <3>1
  <2> QED BY <1>4, <2>1, <2>2, <2>4, <2>5, <2>6 DEF Step
<1> QED BY <1>1, <1>2, <1>3, <1>4 DEF Next

LEMMA NextSafe ==
    ASSUME Shape, Persisted, Merging, PastRename, Safe, [Next]_vars PROVE Safe'
<1> SUFFICES ASSUME NEW f \in Merged', NEW k \in Keys, NEW v, v = disk'[f].vals[k],
                    v \in settled' \/ (v \in Saves /\ save'[v].step = "synced")
             PROVE  durable'[f].vals[k] = v
  BY DEF Safe
<1>1. f \in Merged /\ f \in Files /\ f \notin damaged' BY MergedShrinks DEF Merged
<1>2. disk \in [Files -> Contents] BY DEF Shape, Variables
<1>3. CASE durable' = disk' BY <1>3
<1>4. CASE PowerLoss \/ \E s \in Saves : Sync(s) \/ Flush(s)
  BY <1>3, <1>4 DEF PowerLoss, Sync, Flush
<1>5. ASSUME ~ PowerLoss, \A s \in Saves : ~ Sync(s) /\ ~ Flush(s), disk'[f].vals[k] = disk[f].vals[k],
             durable'[f] = durable[f]
      PROVE  durable'[f].vals[k] = v
  <2>1. v = disk[f].vals[k] BY <1>5
  <2>2. v \in settled \/ (v \in Saves /\ save[v].step = "synced")
    <3>1. CASE v \in settled'
      <4>1. v \in settled \/ \E s \in Saves : save[s].step = "synced" /\ v = s
        BY <1>5, <3>1, SettledMoves
      <4> QED BY <4>1
    <3>2. CASE v \in Saves /\ save'[v].step = "synced" BY <1>5, <3>2, SyncedMoves
    <3> QED BY <3>1, <3>2
  <2> QED BY <1>1, <1>5, <2>1, <2>2 DEF Safe
<1>6. ASSUME NEW s \in Saves, Rename(s) PROVE durable'[f].vals[k] = v
  <2> DEFINE w == ToWrite(s)
             g == save[s].file
  <2>1. g \in Files /\ save[s].step = "locked" BY <1>6 DEF Rename, Shape, Placed
  <2>2. disk' = [disk EXCEPT ![g] = Holding(w)] /\ UNCHANGED <<durable, settled>>
    BY <1>6 DEF Rename
  <2>3. g = f => w[k] \in {disk[f].vals[k], s}
    BY <1>1, <2>1, WritesMerge DEF Merging
  <2>4. save'[s].step = "renamed" BY <1>6, Moves DEF Moved
  <2>5. s \notin settled
    BY <2>1 DEF PastRename
  <2> HIDE DEF w, g
  <2>6. disk'[f].vals[k] = disk[f].vals[k] \/ disk'[f].vals[k] = s
    BY <1>1, <1>2, <2>2, <2>3 DEF Holding
  <2>7. CASE v = s BY <2>2, <2>4, <2>5, <2>7
  <2>8. CASE v = disk[f].vals[k] /\ v # s
    <3>1. \A t \in Saves \ {s} : save'[t] = save[t] BY <1>6, Moves DEF Moved
    <3>2. v \in settled \/ (v \in Saves /\ save[v].step = "synced") BY <2>2, <2>8, <3>1
    <3> QED BY <1>1, <2>2, <2>8, <3>2 DEF Safe
  <2> QED BY <2>6, <2>7, <2>8
<1>7. ASSUME ~ PowerLoss, \A s \in Saves : ~ Sync(s) /\ ~ Flush(s) /\ ~ Rename(s)
      PROVE  durable'[f].vals[k] = v
  <2>1. disk'[f] = disk[f] BY <1>1, <1>7, DiskMoves
  <2>2. durable'[f] = durable[f]
    <3>1. ASSUME NEW s \in Saves, Step(s) PROVE durable' = durable
      <4>1. Acquire(s) \/ Read(s) \/ Lock(s) \/ TaskFails(s) => durable' = durable
        BY DEF Acquire, Read, Lock, TaskFails
      <4>2. Finish(s) \/ Cancel(s) => durable' = durable BY DEF Finish, Cancel
      <4> QED BY <1>7, <3>1, <4>1, <4>2 DEF Step
    <3>2. ASSUME NEW p \in Procs, Begin(p) \/ Restart(p) PROVE durable' = durable
      BY <3>2 DEF Begin, Restart
    <3>3. ASSUME NEW g \in Files, Damage(g) PROVE durable'[f] = durable[f]
      <4>1. f # g BY <1>1, <3>3 DEF Damage
      <4> QED BY <1>1, <3>3, <4>1 DEF Damage, Shape, Variables
    <3>4. UNCHANGED vars => durable' = durable BY DEF vars
    <3> QED BY <1>7, <3>1, <3>2, <3>3, <3>4 DEF Next
  <2> QED BY <1>5, <1>7, <2>1, <2>2
<1> QED BY <1>4, <1>6, <1>7

(***************************************************************************)
(* A save that was acknowledged, or was on disk when a shutdown flushed,   *)
(* is durable for as long as it is on disk: no power loss undoes it.       *)
(***************************************************************************)
THEOREM SettledIsDurable == Spec => []SettledSurvives
<1>1. Spec => []Persisted BY InitPersisted, NextPersisted, ShapeAlways, PTL DEF Spec
<1>2. Shape /\ Persisted /\ Merging /\ PastRename /\ Safe /\ [Next]_vars => PastRename' /\ Safe'
  BY NextPastRename, NextSafe
<1>3. Spec => [](PastRename /\ Safe)
  BY <1>1, <1>2, InitSafe, ShapeAlways, MergingAlways, PTL DEF Spec
<1>4. Safe => SettledSurvives BY DEF Safe, SettledSurvives
<1> QED BY <1>3, <1>4, PTL

-----------------------------------------------------------------------------
(* A file that could not be loaded stays visible. *)

Reported == loadFailed \in [Procs -> SUBSET Files] /\ FailedLoadShows

LEMMA NextReported == ASSUME Shape, Reported, [Next]_vars PROVE Reported'
<1>0. ok \in [Procs -> BOOLEAN] /\ loadFailed \in [Procs -> SUBSET Files]
  BY DEF Shape, Variables, Reported
<1>1. CASE UNCHANGED <<ok, loadFailed>>
  BY <1>1 DEF Reported, FailedLoadShows
<1>2. ASSUME NEW p \in Procs, Begin(p) PROVE Reported' BY <1>1, <1>2 DEF Begin
<1>3. ASSUME NEW p \in Procs, Restart(p) PROVE Reported'
  <2>1. PICK unreadable \in {{}} \cup {{f} : f \in Files} : Load(p, disk, unreadable)
    BY <1>3 DEF Restart
  <2> DEFINE lost == unreadable \cup {f \in Files : disk[f].is = "corrupt"}
  <2>2. lost \in SUBSET Files OBVIOUS
  <2>3. /\ loadFailed' = [loadFailed EXCEPT ![p] = lost]
        /\ ok' = [ok EXCEPT ![p] = loadFailed'[p] = {}]
    BY <2>1 DEF Load
  <2> HIDE DEF lost
  <2>4. loadFailed' \in [Procs -> SUBSET Files] BY <1>0, <2>2, <2>3
  <2>5. ASSUME NEW q \in Procs, loadFailed'[q] # {} PROVE ~ ok'[q]
    <3>1. CASE q = p BY <1>0, <2>3, <2>5, <3>1, Zenon
    <3>2. CASE q # p BY <1>0, <2>3, <2>5, <3>2 DEF Reported, FailedLoadShows
    <3> QED BY <3>1, <3>2
  <2> QED BY <2>4, <2>5 DEF Reported, FailedLoadShows
<1>4. CASE PowerLoss
  <2>1. /\ loadFailed' = [p \in Procs |-> {f \in Files : disk'[f].is = "corrupt"}]
        /\ ok' = [p \in Procs |-> loadFailed'[p] = {}]
    BY <1>4 DEF PowerLoss
  <2>2. \A p \in Procs : ok'[p] = (loadFailed'[p] = {}) BY <2>1, Zenon
  <2> QED BY <2>1, <2>2 DEF Reported, FailedLoadShows
<1>5. CASE (\E g \in Files : Damage(g)) \/ UNCHANGED vars
  BY <1>1, <1>5 DEF Damage, vars
<1>6. ASSUME NEW s \in Saves, Step(s) PROVE Reported'
  <2>1. CASE Acquire(s) \/ Read(s) \/ Lock(s) \/ Rename(s) BY <1>1, <2>1 DEF Acquire, Read, Lock, Rename
  <2>2. CASE Sync(s) \/ TaskFails(s) \/ Flush(s) \/ Cancel(s)
    BY <1>1, <2>2 DEF Sync, TaskFails, Flush, Cancel
  <2>3. CASE Finish(s)
    <3> DEFINE p == save[s].proc
    <3>1. /\ loadFailed' = loadFailed
          /\ ok' = [ok EXCEPT ![p] = OkAfterSuccess(p)] \/ ok' = [ok EXCEPT ![p] = FALSE]
      BY <2>3 DEF Finish
    <3>2. ASSUME NEW q \in Procs, loadFailed[q] # {} PROVE ~ ok'[q]
      <4>1. ~ ok[q] BY <3>2 DEF Reported, FailedLoadShows
      <4>2. CASE ok' = [ok EXCEPT ![p] = FALSE] BY <1>0, <4>1, <4>2
      <4>3. CASE ok' = [ok EXCEPT ![p] = OkAfterSuccess(p)]
        <5>1. p = q => ~ OkAfterSuccess(p) BY <3>2 DEF OkAfterSuccess
        <5>2. p # q => ok'[q] = ok[q] BY <1>0, <4>3
        <5>3. p = q => ok'[q] = OkAfterSuccess(p) BY <1>0, <4>3, Zenon
        <5> QED BY <4>1, <5>1, <5>2, <5>3
      <4> QED BY <3>1, <4>2, <4>3
    <3> QED BY <1>0, <3>1, <3>2 DEF Reported, FailedLoadShows
  <2> QED BY <1>6, <2>1, <2>2, <2>3 DEF Step
<1> QED BY <1>2, <1>3, <1>4, <1>5, <1>6 DEF Next

(***************************************************************************)
(* A process that could not load a file says so until it is restarted: no  *)
(* successful write, of this file or another, makes its health good again. *)
(***************************************************************************)
THEOREM FailedLoadsShow == Spec => []FailedLoadShows
<1>1. Init => Reported BY DEF Init, Reported, FailedLoadShows
<1>2. Spec => []Reported BY <1>1, NextReported, ShapeAlways, PTL DEF Spec
<1> QED BY <1>2, PTL DEF Reported
=============================================================================
