----------------------------- MODULE FileStore -----------------------------
(***************************************************************************)
(* The flat-file store (src/persistence/file_store.rs).  Several server    *)
(* processes may share a data directory.  A save takes the write lock of   *)
(* its process, hands a blocking task to another thread, and updates the   *)
(* cache and the health when that task is done.  The task takes the lock   *)
(* file of the directory, which all processes share, writes a temporary    *)
(* file and syncs it, renames it, and syncs the directory.  A cancelled    *)
(* request drops its write lock, but its task goes on.                     *)
(*                                                                         *)
(* A file holds values by key, each named by the save that wrote it.  The  *)
(* registry and the runtime configuration are saved whole; a thought is    *)
(* merged into its file under that lock; a change of a directory group is  *)
(* applied to a file read before the lock is taken.                        *)
(***************************************************************************)
EXTENDS Integers, FiniteSets

CONSTANTS
    Procs,       \* processes that share the directory
    Keys,        \* sessions, or directory groups
    Files,       \* the files saved in this instance
    MaxSaves,    \* bounds of the model: saves,
    MaxFaults    \* and failed calls, cancelled requests, crashes, damaged files

ASSUME StoreAssumption ==
    /\ Files \subseteq {"sessions", "config", "thoughts", "groups"}
    /\ "none" \notin Procs \cup Keys
    /\ MaxSaves \in Nat /\ MaxFaults \in Nat

VARIABLES
    disk,        \* what each file holds
    durable,     \* what it would hold after a power loss
    lock,        \* the save that has the lock file, 0 if none
    cache,       \* of each process and file, what the process answers from
    ok,          \* health.ok of each process
    loadFailed,  \* the files whose load has failed, of each process
    begun,       \* saves so far
    save,        \* the saves: what each is, and how far
    faults,
    newest,      \* the last save renamed for each file and key (history)
    renamed,     \* the saves that reached the disk (history)
    settled,     \* saves acknowledged, or on disk at the end of a flush (history)
    damaged      \* files ever damaged or unreadable (history)

vars == <<disk, durable, lock, cache, ok, loadFailed, begun, save, faults,
          newest, renamed, settled, damaged>>

Saves   == 1 .. MaxSaves
Empty   == [k \in Keys |-> 0]
Missing == [is |-> "missing", vals |-> Empty]
Corrupt == [is |-> "corrupt", vals |-> Empty]
Holding(vals) == [is |-> "ok", vals |-> vals]
NoSave  == [proc |-> "none", file |-> "none", key |-> "none", vals |-> Empty,
            step |-> "none", awaited |-> FALSE]

Init ==
    /\ disk = [f \in Files |-> Missing] /\ durable = disk
    /\ lock = 0
    /\ cache = [p \in Procs |-> [f \in Files |-> Empty]]
    /\ ok = [p \in Procs |-> TRUE] /\ loadFailed = [p \in Procs |-> {}]
    /\ begun = 0 /\ save = [s \in Saves |-> NoSave]
    /\ faults = 0
    /\ newest = [f \in Files |-> [k \in Keys |-> 0]]
    /\ renamed = {} /\ settled = {} /\ damaged = {}

-----------------------------------------------------------------------------
Fault == faults < MaxFaults /\ faults' = faults + 1
NoFault == UNCHANGED faults

Goto(s, step) == save' = [save EXCEPT ![s].step = step]
InTask(s) == save[s].step \in {"start", "locked", "renamed", "synced", "failed"}

(* The guard of write_lock lives as long as the call that awaits. *)
HasWriteLock(s) == save[s].awaited /\ (InTask(s) \/ save[s].step = "read")

Unlock(s) == lock' = IF lock = s THEN 0 ELSE lock

(* A call: save_sessions, save_thought_config, save_thought,                *)
(* update_dir_group_memberships, flush_barrier.                             *)
Begin(p) ==
    /\ begun < MaxSaves /\ begun' = begun + 1
    /\ \E f \in Files \cup {"flush"}, k \in Keys \cup {"none"} :
          /\ (k = "none") <=> f \in {"sessions", "config", "flush"}
          /\ save' = [save EXCEPT ![begun + 1] =
                         [proc |-> p, file |-> f, key |-> k, vals |-> Empty, step |-> "queued", awaited |-> TRUE]]
    /\ UNCHANGED <<disk, durable, lock, cache, ok, loadFailed, faults, newest, renamed, settled, damaged>>

AcquireAndCache(s) ==   \* mutant: the cache is updated before the write
    LET p == save[s].proc  f == save[s].file IN
    /\ save[s].step = "queued"
    /\ \A t \in Saves : save[t].proc = p =>
          ~ HasWriteLock(t) /\ (t < s => save[t].step # "queued")
    /\ IF f = "flush" THEN Goto(s, "flush") /\ UNCHANGED cache
       ELSE /\ Goto(s, IF f = "groups" THEN "read" ELSE "start")
            /\ cache' = [cache EXCEPT ![p][f] = [k \in Keys |-> s]]
    /\ UNCHANGED <<disk, durable, lock, ok, loadFailed, begun, faults, newest, renamed, settled,
                   damaged>>

(* The write lock of the process, a fair mutex.  save_thought copies its    *)
(* cache as a fallback.                                                     *)
Acquire(s) ==
    LET p == save[s].proc  f == save[s].file IN
    /\ save[s].step = "queued"
    /\ \A t \in Saves : save[t].proc = p =>
          ~ HasWriteLock(t) /\ (t < s => save[t].step # "queued")
    /\ save' = [save EXCEPT
          ![s].step = IF f = "flush" THEN "flush" ELSE IF f = "groups" THEN "read" ELSE "start",
          ![s].vals = IF f = "thoughts" THEN cache[p][f] ELSE Empty]
    /\ UNCHANGED <<disk, durable, lock, cache, ok, loadFailed, begun, faults, newest, renamed, settled,
                   damaged>>

(* update_dir_group_memberships reads the file; its cache, if the file is   *)
(* missing, is corrupt or cannot be read.                                   *)
Read(s) ==
    /\ save[s].step = "read"
    /\ \E readable \in BOOLEAN :
          /\ IF readable THEN NoFault /\ UNCHANGED damaged
                         ELSE Fault /\ damaged' = damaged \cup {"groups"}
          /\ save' = [save EXCEPT ![s].step = "start",
                ![s].vals = IF readable /\ disk["groups"].is = "ok" THEN disk["groups"].vals
                            ELSE cache[save[s].proc]["groups"]]
    /\ UNCHANGED <<disk, durable, lock, cache, ok, loadFailed, begun, newest, renamed, settled>>

-----------------------------------------------------------------------------
(* The blocking task. *)

(* lock_exclusive_with_retry: four tries, a millisecond apart. *)
Lock(s) ==
    /\ save[s].step = "start"
    /\ IF lock = 0 THEN lock' = s /\ Goto(s, "locked")
                   ELSE Goto(s, "failed") /\ UNCHANGED lock
    /\ UNCHANGED <<disk, durable, cache, ok, loadFailed, begun, faults, newest, renamed, settled, damaged>>

(* merge_thought_snapshot. *)
WithThought(vals, s) == [vals EXCEPT ![save[s].key] = s]

ToWriteStale(s) ==   \* mutant: the thoughts are read before the lock is taken
    LET f == save[s].file IN
    CASE f \in {"sessions", "config"} -> [k \in Keys |-> s]
      [] f = "thoughts" -> WithThought(save[s].vals, s)
      [] f = "groups" -> [save[s].vals EXCEPT ![save[s].key] = s]

(* What the save writes, and returns for the cache. *)
ToWrite(s) ==
    LET f == save[s].file IN
    CASE f \in {"sessions", "config"} -> [k \in Keys |-> s]
      [] f = "thoughts" ->
             WithThought(IF disk[f].is = "ok" THEN disk[f].vals ELSE save[s].vals, s)
      [] f = "groups" -> [save[s].vals EXCEPT ![save[s].key] = s]

(* The temporary file, synced, takes the place of the old one. *)
Rename(s) ==
    LET f == save[s].file  vals == ToWrite(s) IN
    /\ save[s].step = "locked"
    /\ disk' = [disk EXCEPT ![f] = Holding(vals)]
    /\ newest' = [newest EXCEPT ![f] = [k \in Keys |-> IF vals[k] = s THEN s ELSE @[k]]]
    /\ renamed' = renamed \cup {s}
    /\ save' = [save EXCEPT ![s].step = "renamed", ![s].vals = vals]
    /\ UNCHANGED <<durable, lock, cache, ok, loadFailed, begun, faults, settled, damaged>>

SyncNothing(s) ==   \* mutant: the directory is not synced
    /\ save[s].step = "renamed"
    /\ Goto(s, "synced") /\ Unlock(s)
    /\ UNCHANGED <<disk, durable, cache, ok, loadFailed, begun, faults, newest, renamed, settled, damaged>>

(* sync_parent_dir: every rename in the directory so far is durable. *)
Sync(s) ==
    /\ save[s].step = "renamed"
    /\ durable' = disk
    /\ Goto(s, "synced") /\ Unlock(s)
    /\ UNCHANGED <<disk, cache, ok, loadFailed, begun, faults, newest, renamed, settled, damaged>>

(* Anything up to the rename fails, or what comes after it. *)
TaskFails(s) ==
    /\ save[s].step \in {"locked", "renamed"} /\ Fault
    /\ Goto(s, "failed") /\ Unlock(s)
    /\ UNCHANGED <<disk, durable, cache, ok, loadFailed, begun, newest, renamed, settled, damaged>>

-----------------------------------------------------------------------------
(* record_write_success, recompute_ok. *)
OkAfterSuccess(p) == loadFailed[p] = {}

(* The call goes on when its task has ended, if it is still there. *)
Finish(s) ==
    LET p == save[s].proc  f == save[s].file IN
    /\ save[s].step \in {"synced", "failed"} /\ save[s].awaited
    /\ IF save[s].step = "synced"
       THEN /\ cache' = [cache EXCEPT ![p][f] = save[s].vals]
            /\ ok' = [ok EXCEPT ![p] = OkAfterSuccess(p)]
            /\ settled' = settled \cup {s}
       ELSE ok' = [ok EXCEPT ![p] = FALSE] /\ UNCHANGED <<cache, settled>>
    /\ Goto(s, "done")
    /\ UNCHANGED <<disk, durable, lock, loadFailed, begun, faults, newest, renamed, damaged>>

(* flush_barrier. *)
Flush(s) ==
    /\ save[s].step = "flush"
    /\ durable' = disk
    /\ settled' = settled \cup ({disk[f].vals[k] : f \in Files, k \in Keys} \ {0})
    /\ Goto(s, "done")
    /\ UNCHANGED <<disk, lock, cache, ok, loadFailed, begun, faults, newest, renamed, damaged>>

(* An HTTP request goes away.  The task that has begun cannot be called     *)
(* back.  Thoughts and the flush are no requests.                           *)
Cancel(s) ==
    /\ save[s].awaited /\ save[s].file \notin {"thoughts", "flush"}
    /\ save[s].step = "queued" \/ HasWriteLock(s)
    /\ Fault
    /\ save' = [save EXCEPT ![s].awaited = FALSE,
                            ![s].step = IF @ \in {"queued", "read"} THEN "done" ELSE @]
    /\ UNCHANGED <<disk, durable, lock, cache, ok, loadFailed, begun, newest, renamed, settled, damaged>>

-----------------------------------------------------------------------------
(* FileStore::new: each file is read, without its lock. *)
Load(p, contents, unreadable) ==
    /\ cache' = [cache EXCEPT ![p] =
                    [f \in Files |-> IF f \in unreadable THEN Empty ELSE contents[f].vals]]
    /\ loadFailed' = [loadFailed EXCEPT ![p] =
                         unreadable \cup {f \in Files : contents[f].is = "corrupt"}]
    /\ ok' = [ok EXCEPT ![p] = loadFailed'[p] = {}]

(* A process dies, its locks with it, and starts again. *)
Restart(p) ==
    LET mine == {s \in Saves : save[s].proc = p} IN
    /\ Fault
    /\ save' = [s \in Saves |-> IF s \in mine THEN [save[s] EXCEPT !.step = "done"] ELSE save[s]]
    /\ lock' = IF lock \in mine THEN 0 ELSE lock
    /\ \E unreadable \in {{}} \cup {{f} : f \in Files} : Load(p, disk, unreadable)
    /\ UNCHANGED <<disk, durable, begun, newest, renamed, settled, damaged>>

(* The machine loses power; a rename that was not synced may be undone. *)
PowerLoss ==
    /\ Fault
    /\ \E kept \in SUBSET Files :
          disk' = [f \in Files |-> IF f \in kept THEN disk[f] ELSE durable[f]]
    /\ durable' = disk'
    /\ newest' = [f \in Files |-> [k \in Keys |-> disk'[f].vals[k]]]
    /\ save' = [s \in Saves |-> IF save[s].step = "none" THEN NoSave
                                ELSE [save[s] EXCEPT !.step = "done"]]
    /\ lock' = 0
    /\ cache' = [p \in Procs |-> [f \in Files |-> disk'[f].vals]]
    /\ loadFailed' = [p \in Procs |-> {f \in Files : disk'[f].is = "corrupt"}]
    /\ ok' = [p \in Procs |-> loadFailed'[p] = {}]
    /\ UNCHANGED <<begun, renamed, settled, damaged>>

(* A file is damaged from outside; its checksum tells. *)
Damage(f) ==
    /\ Fault
    /\ disk' = [disk EXCEPT ![f] = Corrupt] /\ durable' = [durable EXCEPT ![f] = Corrupt]
    /\ damaged' = damaged \cup {f}
    /\ UNCHANGED <<lock, cache, ok, loadFailed, begun, save, newest, renamed, settled>>

-----------------------------------------------------------------------------
Step(s) == Acquire(s) \/ Read(s) \/ Lock(s) \/ Rename(s) \/ Sync(s) \/ TaskFails(s)
           \/ Finish(s) \/ Flush(s) \/ Cancel(s)

Next == \/ \E p \in Procs : Begin(p) \/ Restart(p)
        \/ \E s \in Saves : Step(s)
        \/ PowerLoss
        \/ \E f \in Files : Damage(f)

Spec == Init /\ [][Next]_vars

-----------------------------------------------------------------------------
Value == 0 .. MaxSaves
Steps == {"none", "queued", "read", "start", "locked", "renamed", "synced", "failed", "flush",
          "done"}

TypeOK ==
    /\ disk \in [Files -> [is : {"missing", "corrupt", "ok"}, vals : [Keys -> Value]]]
    /\ cache \in [Procs -> [Files -> [Keys -> Value]]]
    /\ ok \in [Procs -> BOOLEAN]
    /\ \A s \in Saves : save[s].step \in Steps /\ save[s].vals \in [Keys -> Value]
    /\ lock \in Saves \cup {0}
    /\ \A s \in Saves : save[s].step \in {"locked", "renamed"} <=> lock = s

(* "Only commit the in-memory cache after the durable write succeeds, so    *)
(* current_sessions() never reports state that did not persist": what a     *)
(* process answers from has been on disk.                                   *)
CacheHasPersisted ==
    \A p \in Procs, f \in Files, k \in Keys : cache[p][f][k] \in renamed \cup {0}

(* Thoughts of all processes are merged: whoever writes the file, and       *)
(* whatever fails or dies half-way, it holds the last thought renamed for   *)
(* every session.                                                           *)
NoThoughtLost ==
    "thoughts" \in Files \ damaged =>
        \A k \in Keys : disk["thoughts"].vals[k] = newest["thoughts"][k]

Groups == {s \in Saves : save[s].file = "groups"}
AllAwaited == \A s \in Groups : save[s].awaited
OneProcess == \A s, t \in Groups : save[s].proc = save[t].proc
Merged == Files \ (damaged \cup (IF OneProcess /\ AllAwaited THEN {} ELSE {"groups"}))

(* "Apply the update to the current on-disk state ..., so a concurrent      *)
(* write from another process sharing the data dir is merged rather than    *)
(* silently lost": of the changes of the groups, too, the file holds the    *)
(* last one renamed of every group.  The code reads the file before it has  *)
(* the lock, and breaks this.                                               *)
GroupWritesMerge ==
    "groups" \in Files \ damaged =>
        \A k \in Keys : disk["groups"].vals[k] = newest["groups"][k]

(* What is left of it: no change is lost while a single process changes the *)
(* groups and none of its requests is cancelled, whatever fails half-way.   *)
GroupsKeptInProcess == OneProcess /\ AllAwaited => GroupWritesMerge

(* What the saves that merge do keep: the thoughts of all processes, and    *)
(* the groups of a process that is alone with them.                         *)
MergesKept == NoThoughtLost /\ GroupsKeptInProcess

(* What was acknowledged, or flushed at a shutdown, outlives a power loss:   *)
(* as long as it is on disk it is there durably, and only a later write      *)
(* ever replaces it.                                                        *)
SettledSurvives ==
    \A f \in Merged, k \in Keys :
        disk[f].vals[k] \in settled => durable[f].vals[k] = disk[f].vals[k]

(* "A successful write must not clear a known corrupt-load condition". *)
FailedLoadShows == \A p \in Procs : loadFailed[p] # {} => ~ ok[p]
=============================================================================
