-------------------------- MODULE SessionRegistry --------------------------
(***************************************************************************)
(* The registry of sessions (src/session/supervisor.rs and its             *)
(* submodules): HTTP requests, the discovery loop and the exit reaper      *)
(* change the map of actor handles, the exact-cleanup authority and two    *)
(* stores, with an await between almost any two steps, while tmux sessions *)
(* come and go and the server is restarted.                                *)
(*                                                                         *)
(* A tmux session has a name and an incarnation: the tmux server that runs *)
(* it and its number there, which starts again when that server does.  The *)
(* generation of an authority is drawn together with the incarnation it is *)
(* bound to, and is identified with it.  There is one tmux target.         *)
(***************************************************************************)
EXTENDS Integers, FiniteSets, FiniteSetsExt

CONSTANTS
    Names,         \* names of tmux sessions
    Workers,       \* HTTP requests served at a time
    Boots,         \* ways to start: "server" (init_app_state), "embedded" (deferred)
    MaxId,         \* bounds of the model: session ids,
    MaxMade,       \* tmux sessions ever made,
    MaxRequests,   \* requests,
    MaxFaults      \* failed and cancelled calls and restarts

ASSUME RegistryAssumption ==
    /\ IsFiniteSet(Names) /\ IsFiniteSet(Workers)
    /\ Boots \subseteq {"server", "embedded"}
    /\ Workers \cap {"none", "discovery", "reaper"} = {}
    /\ {MaxId, MaxMade, MaxRequests, MaxFaults} \subseteq Nat
    /\ MaxId > 0 /\ MaxMade > 0

VARIABLES
    tmux,         \* the incarnation that has each name, Gone if none
    made,         \* tmux sessions made so far; the last server, its next number
    handles,      \* sessions: the actor of each id
    authority,    \* exact_cleanup_states
    stale,        \* stale_sessions
    nextId,       \* next_id_counter
    registry,     \* the sessions file
    records,      \* the exact cleanup records on disk
    lock,         \* the holder of discovery_lock
    pc,           \* where each worker, the discovery and the reaper is
    job,          \* the locals of each worker
    listed,       \* of the discovery: the names tmux listed,
    todo,         \*   the candidates still to attach,
    missing,      \*   the tracked sessions that were not listed
    ready,        \* of the reaper: the ids it found exited
    snap,         \* the summaries a persist_registry has collected
    boot,         \* "server" until its first discovery ends, "up", or "embedded"
    loader,       \* init_persistence of an embedded start, and what it has read
    waiting,      \* the writers of sessions that queue behind a reader
    asked, faults,
    given,        \* the generations clients have been told
    botched,      \* handles put back after a failed kill (history)
    lost,         \* ids whose record could not be written (history)
    orphaned      \* ids whose cleanup was cancelled or has no receipt (history)

tmuxVars == <<tmux, made>>
memory   == <<handles, authority, stale, nextId>>
disk     == <<registry, records>>
scan     == <<listed, todo, missing>>
bootVars == <<boot, loader>>
limits   == <<asked, faults>>
history  == <<given, botched, lost, orphaned>>
vars == <<tmuxVars, memory, disk, lock, pc, job, scan, ready, snap, bootVars,
          waiting, limits, history>>

Ids   == 1 .. MaxId
Procs == Workers \cup {"discovery", "reaper"}
Gone  == [server |-> 0, number |-> 0]
NoHandle == [name |-> "none", inc |-> Gone]
NoAuthority == [phase |-> "none", name |-> "none", inc |-> Gone, alive |-> FALSE]
NoJob == [op |-> "none", kill |-> FALSE, id |-> 0, handle |-> NoHandle, target |-> NoAuthority]
Loaded == [step |-> "done", registry |-> {}, records |-> [i \in Ids |-> NoAuthority]]

(* The server is up and has created session 1. *)
Init == \E n \in Names :
    LET inc == [server |-> 1, number |-> 0]
        auth == [i \in Ids |-> IF i = 1 THEN [phase |-> "Active", name |-> n, inc |-> inc,
                                             alive |-> FALSE] ELSE NoAuthority]
    IN
    /\ tmux = [m \in Names |-> IF m = n THEN inc ELSE Gone]
    /\ made = [count |-> 1, server |-> 1, number |-> 1]
    /\ handles = [i \in Ids |-> IF i = 1 THEN [name |-> n, inc |-> inc] ELSE NoHandle]
    /\ authority = auth /\ records = auth
    /\ stale = {} /\ nextId = 2
    /\ registry = {[id |-> 1, name |-> n]}
    /\ lock = "none" /\ pc = [p \in Procs |-> "idle"] /\ job = [w \in Workers |-> NoJob]
    /\ listed = {} /\ todo = {} /\ missing = {} /\ ready = {}
    /\ snap = [p \in Procs |-> {}]
    /\ boot = "up" /\ loader = Loaded /\ waiting = {}
    /\ asked = 0 /\ faults = 0
    /\ given = {[id |-> 1, inc |-> inc]} /\ botched = {} /\ lost = {} /\ orphaned = {}

-----------------------------------------------------------------------------
(* What the steps are made of. *)

Live(n)   == tmux[n] # Gone
Tracked   == {i \in Ids : handles[i] # NoHandle}
Named(n)  == {i \in Tracked : handles[i].name = n}
(* The tmux client of an actor ends with the session it is attached to; the *)
(* actor then reports Exited.                                               *)
Attached(h) == h # NoHandle /\ h.inc # Gone /\ tmux[h.name] = h.inc
Exited(i) == i \in Tracked /\ ~ Attached(handles[i])

\* collect_live_summaries, when every actor answers in time.
Summaries(hs) == {[id |-> i, name |-> hs[i].name] : i \in {j \in Ids : Attached(hs[j])}}

Goto(p, s) == pc' = [pc EXCEPT ![p] = s]
Fault == faults < MaxFaults /\ faults' = faults + 1 /\ UNCHANGED asked
NoFault == UNCHANGED limits

TakeLock(w) == lock = "none" /\ lock' = w
Release(w) == lock' = IF lock = w THEN "none" ELSE lock

(* The request of worker w is over, its locals are dropped and with them    *)
(* the guard of discovery_lock, if it has it.                               *)
Finish(w) ==
    /\ Goto(w, "idle")
    /\ job' = [job EXCEPT ![w] = NoJob]
    /\ Release(w)

(* allocate_unique_session_id. *)
FreshIds == {i \in Ids : /\ i >= nextId /\ i \notin Tracked /\ authority[i] = NoAuthority
                         /\ \A s \in stale : s.id # i}

(* The sessions lock is a fair RwLock: nobody reads it past a writer that   *)
(* waits.  The discovery is the one reader that keeps it across an await.   *)
Reading  == pc["discovery"] \in {"collect", "commit"}
CanRead  == waiting = {}
CanWrite == ~ Reading

(* A tmux server may end with its last session, or stay (exit-empty off,    *)
(* sessions of others).                                                     *)
MakeTmux(n) == \E restart \in BOOLEAN :
    LET inc == [server |-> made.server + (IF restart THEN 1 ELSE 0),
                number |-> IF restart THEN 0 ELSE made.number]
    IN /\ ~ Live(n) /\ made.count < MaxMade
       /\ restart => \A m \in Names : ~ Live(m)
       /\ tmux' = [tmux EXCEPT ![n] = inc]
       /\ made' = [count |-> made.count + 1, server |-> inc.server, number |-> inc.number + 1]

(* kill-session on the sessions in targets; a call that fails or times out  *)
(* may have killed them or not.                                             *)
Killed(targets) == tmux' = [n \in Names |-> IF n \in targets THEN Gone ELSE tmux[n]]
KillFails(targets) == Fault /\ (Killed(targets) \/ UNCHANGED tmux)

(* persist_exact_cleanup_state: the rename commits the record; a failure    *)
(* leaves the old one, or, after the rename, none.                          *)
Write(i, r) ==
    /\ records' = [records EXCEPT ![i] = r]
    /\ NoFault /\ UNCHANGED lost
WriteFails(i) ==
    /\ Fault
    /\ records' \in {records, [records EXCEPT ![i] = NoAuthority]}
    /\ lost' = lost \cup {i}

SetHandle(i, h) == handles' = [handles EXCEPT ![i] = h]
Authorize(i, r) == authority' = [authority EXCEPT ![i] = r]
In(phase, r) == [r EXCEPT !.phase = phase]

-----------------------------------------------------------------------------
(* tmux, used by others too. *)

TmuxNew == \E n \in Names : MakeTmux(n)
    /\ UNCHANGED <<memory, disk, lock, pc, job, scan, ready, snap, bootVars, waiting,
                   limits, history>>

TmuxEnds == \E n \in Names : Live(n) /\ Killed({n})
    /\ UNCHANGED <<made, memory, disk, lock, pc, job, scan, ready, snap, bootVars,
                   waiting, limits, history>>

-----------------------------------------------------------------------------
(* A request. *)

Ask(w, j, s) ==
    /\ pc[w] = "idle" /\ boot # "server" /\ asked < MaxRequests
    /\ asked' = asked + 1 /\ UNCHANGED faults
    /\ job' = [job EXCEPT ![w] = j]
    /\ Goto(w, s)

CreateUnlocked(w) == \E n \in Names :   \* mutant: the discovery may list the new session
    /\ FreshIds # {}
    /\ MakeTmux(n)
    /\ LET i == Min(FreshIds) IN
          /\ nextId' = i + 1
          /\ Ask(w, [NoJob EXCEPT !.op = "create", !.id = i,
                                  !.handle = [name |-> n, inc |-> tmux'[n]]], "bind")
    /\ UNCHANGED <<handles, authority, stale, disk, lock, scan, ready, snap, bootVars,
                   waiting, history>>

(* create_session: the id, the lock, tmux new-session, which fails if the   *)
(* name is taken.                                                           *)
Create(w) == \E n \in Names :
    /\ FreshIds # {}
    /\ MakeTmux(n)
    /\ LET i == Min(FreshIds) IN
          /\ nextId' = i + 1
          /\ Ask(w, [NoJob EXCEPT !.op = "create", !.id = i,
                                  !.handle = [name |-> n, inc |-> tmux'[n]]], "bind")
    /\ TakeLock(w)
    /\ UNCHANGED <<handles, authority, stale, disk, scan, ready, snap, bootVars,
                   waiting, history>>

BindUnwritten(w) ==   \* mutant: the record is not written
    /\ pc[w] = "bind" /\ Live(job[w].handle.name)
    /\ job' = [job EXCEPT ![w].target = [phase |-> "Active", name |-> job[w].handle.name,
                                         inc |-> tmux[job[w].handle.name], alive |-> FALSE]]
    /\ Goto(w, "insert")
    /\ UNCHANGED <<tmuxVars, memory, disk, lock, scan, ready, snap, bootVars, waiting,
                   limits, history>>

(* insert_active_handle: the incarnation that has the name now, its record  *)
(* on disk, then the two maps.                                              *)
Bind(w) ==
    /\ pc[w] = "bind"
    /\ LET j == job[w]
           r == [phase |-> "Active", name |-> j.handle.name,
                 inc |-> tmux[j.handle.name], alive |-> FALSE]
       IN \/ /\ Live(j.handle.name)
             /\ Write(j.id, r)
             /\ job' = [job EXCEPT ![w].target = r]
             /\ Goto(w, "insert")
          \/ /\ ~ Live(j.handle.name) /\ NoFault /\ UNCHANGED <<records, lost, job>>
             /\ Goto(w, "unlaunch")
          \/ /\ WriteFails(j.id) /\ UNCHANGED job
             /\ Goto(w, "unlaunch")
    /\ UNCHANGED <<tmuxVars, memory, registry, lock, scan, ready, snap, bootVars,
                   waiting, given, botched, orphaned>>

Insert(w) ==
    /\ pc[w] = "insert"
    /\ SetHandle(job[w].id, job[w].handle)
    /\ Authorize(job[w].id, job[w].target)
    /\ Goto(w, "confirm")
    /\ Release(w)
    /\ UNCHANGED <<tmuxVars, stale, nextId, disk, job, scan, ready, snap, bootVars,
                   waiting, limits, history>>

(* confirm_started, finalize and the provider receipt, without the lock.    *)
Confirm(w) ==
    /\ pc[w] = "confirm"
    /\ \/ Goto(w, "snap") /\ NoFault
       \/ Goto(w, "rollback") /\ Fault
    /\ UNCHANGED <<tmuxVars, memory, disk, lock, job, scan, ready, snap, bootVars,
                   waiting, history>>

(* rollback_provider_launch. *)
Rollback(w) ==
    /\ pc[w] = "rollback" /\ CanWrite
    /\ SetHandle(job[w].id, NoHandle)
    /\ Authorize(job[w].id, NoAuthority)
    /\ Goto(w, "forget")
    /\ UNCHANGED <<tmuxVars, stale, nextId, disk, lock, job, scan, ready, snap, bootVars,
                   waiting, limits, history>>

Forget(w) ==
    /\ pc[w] = "forget"
    /\ \/ Write(job[w].id, NoAuthority)
       \/ Fault /\ UNCHANGED <<records, lost>>
    /\ Goto(w, "unlaunch")
    /\ UNCHANGED <<tmuxVars, memory, registry, lock, job, scan, ready, snap, bootVars,
                   waiting, given, botched, orphaned>>

(* Kill by name and give up. *)
Unlaunch(w) ==
    /\ pc[w] = "unlaunch"
    /\ \/ Killed({job[w].handle.name}) /\ NoFault
       \/ KillFails({job[w].handle.name})
    /\ Finish(w)
    /\ UNCHANGED <<made, memory, disk, scan, ready, snap, bootVars, waiting, history>>

-----------------------------------------------------------------------------
(* delete_session, which never takes the discovery lock. *)

Delete(w) == \E i \in Tracked, kill \in BOOLEAN :
    /\ Ask(w, [NoJob EXCEPT !.op = "delete", !.kill = kill, !.id = i], "remove")
    /\ UNCHANGED <<tmuxVars, memory, disk, lock, scan, ready, snap, bootVars,
                   waiting, history>>

Remove(w) ==
    /\ pc[w] = "remove" /\ CanWrite
    /\ IF job[w].id \in Tracked
       THEN /\ job' = [job EXCEPT ![w].handle = handles[job[w].id]]
            /\ SetHandle(job[w].id, NoHandle)
            /\ Goto(w, IF job[w].kill THEN "kill" ELSE "snap")
            /\ UNCHANGED lock
       ELSE Finish(w) /\ UNCHANGED handles
    /\ UNCHANGED <<tmuxVars, authority, stale, nextId, disk, scan, ready, snap, bootVars,
                   waiting, limits, history>>

Kill(w) ==
    /\ pc[w] = "kill"
    /\ \/ Killed({job[w].handle.name}) /\ NoFault /\ Goto(w, "snap")
       \/ KillFails({job[w].handle.name}) /\ Goto(w, "reinsert")
    /\ UNCHANGED <<made, memory, disk, lock, job, scan, ready, snap, bootVars,
                   waiting, history>>

(* A failed kill puts the handle back, whatever happened meanwhile. *)
Reinsert(w) ==
    /\ pc[w] = "reinsert" /\ CanWrite
    /\ SetHandle(job[w].id, job[w].handle)
    /\ botched' = botched \cup {job[w].handle}
    /\ Finish(w)
    /\ UNCHANGED <<tmuxVars, authority, stale, nextId, disk, scan, ready, snap, bootVars,
                   waiting, limits, given, lost, orphaned>>

-----------------------------------------------------------------------------
(* delete_exact_session, all of it under the discovery lock.  A request for *)
(* another generation, or while the phase is not Active, changes nothing.   *)

Exact(w) == \E i \in Ids, kill \in BOOLEAN :
    /\ [id |-> i, inc |-> authority[i].inc] \in given
    /\ authority[i].phase = "Active"
    /\ Ask(w, [op |-> "exact", kill |-> kill, id |-> i, handle |-> handles[i],
               target |-> authority[i]], "mark")
    /\ TakeLock(w)
    /\ SetHandle(i, NoHandle)
    /\ Authorize(i, In("Cleaning", authority[i]))
    /\ UNCHANGED <<tmuxVars, stale, nextId, disk, scan, ready, snap, bootVars,
                   waiting, history>>

Mark(w) ==
    /\ pc[w] = "mark"
    /\ \/ /\ Write(job[w].id, In("Cleaning", job[w].target))
          /\ Goto(w, IF job[w].kill THEN "query" ELSE "snap")
       \/ WriteFails(job[w].id) /\ Goto(w, "restore")
    /\ UNCHANGED <<tmuxVars, memory, registry, lock, job, scan, ready, snap, bootVars,
                   waiting, given, botched, orphaned>>

QueryForgetful(w) ==   \* mutant: a mismatch is reported without the restore
    /\ pc[w] = "query"
    /\ LET t == job[w].target IN
       IF ~ Live(t.name) THEN Goto(w, "snap") /\ UNCHANGED <<job, lock>>
       ELSE IF tmux[t.name] = t.inc THEN Goto(w, "exactKill") /\ UNCHANGED <<job, lock>>
       ELSE Finish(w)
    /\ UNCHANGED <<tmuxVars, memory, disk, scan, ready, snap, bootVars,
                   waiting, limits, history>>

(* query_tmux_session_incarnation: absent, the authorized one, another one. *)
Query(w) ==
    /\ pc[w] = "query"
    /\ LET t == job[w].target IN
       \/ ~ Live(t.name) /\ Goto(w, "snap") /\ NoFault
       \/ tmux[t.name] = t.inc /\ Goto(w, "exactKill") /\ NoFault
       \/ tmux[t.name] \notin {Gone, t.inc} /\ Goto(w, "restore") /\ NoFault
       \/ Goto(w, "restore") /\ Fault
    /\ UNCHANGED <<tmuxVars, memory, disk, lock, job, scan, ready, snap, bootVars,
                   waiting, history>>

(* The kill is by number, so a replacement under the same name is safe; a   *)
(* new tmux server numbers from 0 again.                                    *)
Numbered(k) == {n \in Names : Live(n) /\ tmux[n].number = k}

ExactKillUnheeded(w) ==   \* mutant: a failed kill counts as done
    /\ pc[w] = "exactKill"
    /\ LET targets == Numbered(job[w].target.inc.number) IN
          (Killed(targets) /\ NoFault) \/ KillFails(targets)
    /\ Goto(w, "snap")
    /\ UNCHANGED <<made, memory, disk, lock, job, scan, ready, snap, bootVars,
                   waiting, history>>

ExactKillByName(w) ==   \* mutant
    /\ pc[w] = "exactKill"
    /\ Killed({job[w].target.name}) /\ Goto(w, "snap")
    /\ UNCHANGED <<made, memory, disk, lock, job, scan, ready, snap, bootVars,
                   waiting, limits, history>>

ExactKill(w) ==
    /\ pc[w] = "exactKill"
    /\ LET targets == Numbered(job[w].target.inc.number) IN
       \/ Killed(targets) /\ NoFault /\ Goto(w, "snap")
       \/ KillFails(targets) /\ Goto(w, "restore")
    /\ UNCHANGED <<made, memory, disk, lock, job, scan, ready, snap, bootVars,
                   waiting, history>>

(* restore_exact_cleanup: the two maps, then the record. *)
Restore(w) ==
    /\ pc[w] = "restore"
    /\ LET i == job[w].id IN
       IF authority[i] = In("Cleaning", job[w].target)
       THEN /\ IF job[w].handle # NoHandle THEN SetHandle(i, job[w].handle)
                                           ELSE UNCHANGED handles
            /\ Authorize(i, job[w].target)
            /\ Goto(w, "remark")
            /\ UNCHANGED <<job, lock>>
       ELSE Finish(w) /\ UNCHANGED <<handles, authority>>
    /\ UNCHANGED <<tmuxVars, stale, nextId, disk, scan, ready, snap, bootVars,
                   waiting, limits, history>>

Remark(w) ==
    /\ pc[w] = "remark"
    /\ Write(job[w].id, job[w].target) \/ WriteFails(job[w].id)
    /\ Finish(w)
    /\ UNCHANGED <<tmuxVars, memory, registry, scan, ready, snap, bootVars,
                   waiting, given, botched, orphaned>>

(* complete_exact_cleanup: the receipt on disk, then in memory. *)
CleanedBy(w) == [In("Cleaned", job[w].target) EXCEPT !.alive = ~ job[w].kill]

Receipt(w) ==
    /\ pc[w] = "receipt"
    /\ LET i == job[w].id IN
       IF authority[i] = In("Cleaning", job[w].target)
       THEN \/ Write(i, CleanedBy(w)) /\ Goto(w, "cleaned") /\ UNCHANGED <<job, lock, orphaned>>
            \/ WriteFails(i) /\ orphaned' = orphaned \cup {i} /\ Finish(w)
       ELSE Finish(w) /\ NoFault /\ UNCHANGED <<records, lost, orphaned>>
    /\ UNCHANGED <<tmuxVars, memory, registry, scan, ready, snap, bootVars,
                   waiting, given, botched>>

Cleaned(w) ==
    /\ pc[w] = "cleaned"
    /\ Authorize(job[w].id, CleanedBy(w))
    /\ Finish(w)
    /\ UNCHANGED <<tmuxVars, handles, stale, nextId, disk, scan, ready, snap, bootVars,
                   waiting, limits, history>>

-----------------------------------------------------------------------------
(* adopt_tmux_session, under the discovery lock. *)

Unstale(i, n) == {s \in stale : s.id # i /\ s.name # n}

(* The id: the one asked for, if it is stale under this name; else that of  *)
(* the only stale session of this name; else a new one.                     *)
Adopt(w) == \E n \in Names, i \in Ids :
    /\ Named(n) = {} /\ Live(n)
    /\ \/ /\ [id |-> i, name |-> n] \in stale
          /\ i \notin Tracked \/ \A s \in stale : s.name = n => s.id = i
       \/ /\ \A s \in stale : s.name # n
          /\ FreshIds # {} /\ i = Min(FreshIds)
    /\ nextId' = IF i >= nextId THEN i + 1 ELSE nextId
    /\ Ask(w, [NoJob EXCEPT !.op = "adopt", !.id = i, !.handle.name = n], "attach")
    /\ TakeLock(w)
    /\ UNCHANGED <<tmuxVars, handles, authority, stale, disk, scan, ready, snap, bootVars,
                   waiting, history>>

(* insert_discovered_handle drops the new actor if the name has one. *)
Attach(w) ==
    /\ pc[w] = "attach"
    /\ LET n == job[w].handle.name IN
       IF Named(n) = {}
       THEN /\ SetHandle(job[w].id, [name |-> n, inc |-> tmux[n]])
            /\ stale' = Unstale(job[w].id, n)
            /\ Goto(w, "snap")
            /\ UNCHANGED <<job, lock>>
       ELSE Finish(w) /\ UNCHANGED <<handles, stale>>
    /\ UNCHANGED <<tmuxVars, authority, nextId, disk, scan, ready, snap, bootVars,
                   waiting, limits, history>>

-----------------------------------------------------------------------------
(* The handler's future is dropped when its client goes away. *)
Cancel(w) ==
    /\ pc[w] # "idle"
    /\ Fault
    /\ orphaned' = orphaned \cup {i \in Ids : i = job[w].id /\ authority[i].phase = "Cleaning"}
    /\ snap' = [snap EXCEPT ![w] = {}]
    /\ waiting' = waiting \ {w}
    /\ Finish(w)
    /\ UNCHANGED <<tmuxVars, memory, disk, scan, ready, bootVars, given, botched, lost>>

-----------------------------------------------------------------------------
(* persist_registry: the summaries of the live actors, then the file, which *)
(* it overwrites; nothing before the store is installed.  The save of a     *)
(* request may be late.  The reaper and RemoveMissing save in the step that *)
(* removes: a crash in between loses no more than one before the removal.   *)

Installed == loader.step = "done"

(* The response of a create tells its generation. *)
Return(w) ==
    /\ IF job[w].op = "exact" THEN Goto(w, "receipt") /\ UNCHANGED <<job, lock>> ELSE Finish(w)
    /\ given' = given \cup {[id |-> i, inc |-> authority[i].inc] :
                   i \in {k \in Ids : /\ job[w].op = "create" /\ k = job[w].id
                                     /\ authority[k] # NoAuthority}}
    /\ UNCHANGED <<botched, lost, orphaned>>

Snap(w) ==
    /\ pc[w] = "snap" /\ CanRead
    /\ IF Installed THEN /\ snap' = [snap EXCEPT ![w] = Summaries(handles)]
                         /\ Goto(w, "save") /\ UNCHANGED <<job, lock, history>>
                    ELSE Return(w) /\ UNCHANGED snap
    /\ UNCHANGED <<tmuxVars, memory, disk, scan, ready, bootVars, waiting, limits>>

SaveFile(entries) ==
    \/ registry' = (IF Installed THEN entries ELSE registry) /\ NoFault
    \/ Installed /\ Fault /\ UNCHANGED registry

Save(w) ==
    /\ pc[w] = "save"
    /\ SaveFile(snap[w])
    /\ snap' = [snap EXCEPT ![w] = {}]
    /\ Return(w)
    /\ UNCHANGED <<tmuxVars, memory, records, scan, ready, bootVars, waiting>>

(* The checkpoint every 30 seconds, spawned after the first discovery or    *)
(* with the embedded server.  Taken in one step: that a save may be late is *)
(* shown by Save.                                                           *)
Checkpoint ==
    /\ boot # "server" /\ Installed /\ CanRead
    /\ registry # Summaries(handles)
    /\ SaveFile(Summaries(handles))
    /\ UNCHANGED <<tmuxVars, memory, records, lock, pc, job, scan, ready, snap, bootVars,
                   waiting, history>>

-----------------------------------------------------------------------------
ListUnreliable ==   \* mutant: a listing that fails is taken for an empty one
    /\ pc["discovery"] = "idle" /\ TakeLock("discovery")
    /\ listed' \in {{n \in Names : Live(n)}, {}}
    /\ Goto("discovery", "plan")
    /\ UNCHANGED <<tmuxVars, memory, disk, job, todo, missing, ready, snap, bootVars,
                   waiting, limits, history>>

(* discover_tmux_sessions_with_reason, under the discovery lock.  A listing *)
(* that fails changes nothing.                                              *)

List ==
    /\ pc["discovery"] = "idle" /\ TakeLock("discovery")
    /\ listed' = {n \in Names : Live(n)}
    /\ Goto("discovery", "plan")
    /\ UNCHANGED <<tmuxVars, memory, disk, job, todo, missing, ready, snap, bootVars,
                   waiting, limits, history>>

PlanAnew ==   \* mutant: the stale ids are not looked up
    /\ pc["discovery"] = "plan"
    /\ todo' = {[name |-> n, id |-> 0] : n \in {m \in listed : Named(m) = {}}}
    /\ Goto("discovery", "attach")
    /\ UNCHANGED <<tmuxVars, memory, disk, lock, job, listed, missing, ready, snap, bootVars,
                   waiting, limits, history>>

(* The candidates: listed, not tracked; any stale id of the name, or none.  *)
Plan ==
    /\ pc["discovery"] = "plan"
    /\ LET new == {n \in listed : Named(n) = {}}
           StaleIds(n) == {s.id : s \in {t \in stale : t.name = n}}
       IN \E pick \in [new -> Ids \cup {0}] :
             /\ \A n \in new : pick[n] \in (IF StaleIds(n) = {} THEN {0} ELSE StaleIds(n))
             /\ todo' = {[name |-> n, id |-> pick[n]] : n \in new}
    /\ Goto("discovery", "attach")
    /\ UNCHANGED <<tmuxVars, memory, disk, lock, job, listed, missing, ready, snap, bootVars,
                   waiting, limits, history>>

(* attach_discovery_candidate.  When the model has no id left, it is dropped. *)
AttachNext ==
    /\ pc["discovery"] = "attach"
    /\ \E c \in todo :
          LET i == IF c.id = 0 /\ FreshIds # {} THEN Min(FreshIds) ELSE c.id IN
          /\ todo' = todo \ {c}
          /\ nextId' = IF i >= nextId THEN i + 1 ELSE nextId
          /\ IF Named(c.name) = {} /\ i # 0
             THEN SetHandle(i, [name |-> c.name, inc |-> tmux[c.name]])
             ELSE UNCHANGED handles
    /\ UNCHANGED <<tmuxVars, authority, stale, disk, lock, pc, job, listed, missing, ready, snap,
                   bootVars, waiting, limits, history>>

(* reconcile_stale_sessions_after_discovery: nothing stays stale.  Then     *)
(* missing_tracked_handles; their summaries are awaited before the removal. *)
Reconcile ==
    /\ pc["discovery"] = "attach" /\ todo = {}
    /\ stale' = {}
    /\ missing' = {[id |-> i, name |-> handles[i].name] :
                      i \in {j \in Tracked : handles[j].name \notin listed}}
    /\ Goto("discovery", IF missing' = {} THEN "collect" ELSE "removeMissing")
    /\ UNCHANGED <<tmuxVars, handles, authority, nextId, disk, lock, job, listed, todo, ready,
                   snap, bootVars, waiting, limits, history>>

RemoveMissing ==
    /\ pc["discovery"] = "removeMissing"
    /\ LET gone == {m \in missing : m.id \in Tracked /\ handles[m.id].name \notin listed}
           goneIds == {m.id : m \in gone}
       IN /\ handles' = [i \in Ids |-> IF i \in goneIds THEN NoHandle ELSE handles[i]]
          /\ stale' = {s \in stale : s.id \notin goneIds /\ \A m \in gone : s.name # m.name}
                      \cup gone
          /\ IF gone = {} THEN NoFault /\ UNCHANGED registry ELSE SaveFile(Summaries(handles'))
    /\ missing' = {} /\ Goto("discovery", "collect")
    /\ UNCHANGED <<tmuxVars, authority, nextId, records, lock, job, listed, todo, ready, snap,
                   bootVars, waiting, history>>

(* finish_tmux_discovery reads sessions, keeps the guard (from "collect"    *)
(* on), and calls persist_registry, which reads sessions again.             *)
FinishCollect ==
    /\ pc["discovery"] = "collect" /\ CanRead
    /\ snap' = [snap EXCEPT !["discovery"] = Summaries(handles)]
    /\ Goto("discovery", "commit")
    /\ UNCHANGED <<tmuxVars, memory, disk, lock, job, scan, ready, bootVars,
                   waiting, limits, history>>

FinishCommit ==
    /\ pc["discovery"] = "commit"
    /\ SaveFile(snap["discovery"])
    /\ snap' = [snap EXCEPT !["discovery"] = {}]
    /\ Goto("discovery", "idle") /\ listed' = {}
    /\ lock' = "none" /\ waiting' = {}
    /\ boot' = IF boot = "server" THEN "up" ELSE boot
    /\ UNCHANGED <<tmuxVars, memory, records, job, todo, missing, ready, loader, history>>

(* A writer of sessions meets the guard of finish_tmux_discovery. *)
WaitToWrite(p) ==
    /\ Reading /\ p \notin waiting
    /\ pc[p] \in {"remove", "reinsert", "rollback", "reap"}
    /\ waiting' = waiting \cup {p}
    /\ UNCHANGED <<tmuxVars, memory, disk, lock, pc, job, scan, ready, snap, bootVars,
                   limits, history>>

-----------------------------------------------------------------------------
(* reap_exited_sessions, which never takes the discovery lock. *)

CollectExited ==
    /\ pc["reaper"] = "idle" /\ boot # "server" /\ CanRead
    /\ ready' = {i \in Ids : Exited(i)} /\ ready' # {}
    /\ Goto("reaper", "reap")
    /\ UNCHANGED <<tmuxVars, memory, disk, lock, job, scan, snap, bootVars,
                   waiting, limits, history>>

Reap ==
    /\ pc["reaper"] = "reap" /\ CanWrite
    /\ handles' = [i \in Ids |-> IF i \in ready THEN NoHandle ELSE handles[i]]
    /\ IF ready \cap Tracked = {} THEN NoFault /\ UNCHANGED registry
                                  ELSE SaveFile(Summaries(handles'))
    /\ ready' = {} /\ Goto("reaper", "idle")
    /\ UNCHANGED <<tmuxVars, authority, stale, nextId, records, lock, job, scan, snap, bootVars,
                   waiting, history>>

-----------------------------------------------------------------------------
(* A restart: the process is gone, tmux stays.  init_persistence brings the *)
(* registry back as stale sessions, interrupted cleanups as Active, and the *)
(* id counter past every id it finds (the ids of thoughts, left out here,   *)
(* too).  An embedded start serves requests and discovers meanwhile.        *)

Recovered(rs) == [i \in Ids |-> IF rs[i].phase = "Cleaning" THEN In("Active", rs[i]) ELSE rs[i]]

PersistedIds(entries, rs) == {e.id : e \in entries} \cup {i \in Ids : rs[i] # NoAuthority}
Bumped(n, entries, rs) == Max({n} \cup {i + 1 : i \in PersistedIds(entries, rs)})

Crash == \E b \in Boots :
    /\ Fault
    /\ handles' = [i \in Ids |-> NoHandle]
    /\ lock' = "none" /\ waiting' = {}
    /\ pc' = [p \in Procs |-> "idle"] /\ job' = [w \in Workers |-> NoJob]
    /\ listed' = {} /\ todo' = {} /\ missing' = {} /\ ready' = {}
    /\ snap' = [p \in Procs |-> {}]
    /\ boot' = b
    /\ IF b = "server"
       THEN /\ authority' = Recovered(records)
            /\ stale' = registry
            /\ nextId' = Bumped(1, registry, records)
            /\ loader' = Loaded
       ELSE /\ authority' = [i \in Ids |-> NoAuthority]
            /\ stale' = {} /\ nextId' = 1
            /\ loader' = [Loaded EXCEPT !.step = "read"]
    /\ orphaned' = {}
    /\ UNCHANGED <<tmuxVars, disk, given, botched, lost>>

LoadRead ==
    /\ loader.step = "read"
    /\ loader' = [step |-> "assign", registry |-> registry, records |-> records]
    /\ UNCHANGED <<tmuxVars, memory, disk, lock, pc, job, scan, ready, snap, boot,
                   waiting, limits, history>>

LoadAssign ==
    /\ loader.step = "assign"
    /\ authority' = Recovered(loader.records)
    /\ nextId' = Bumped(nextId, loader.registry, loader.records)
    /\ stale' = IF loader.registry = {} THEN stale ELSE loader.registry
    /\ loader' = Loaded
    /\ UNCHANGED <<tmuxVars, handles, disk, lock, pc, job, scan, ready, snap, boot,
                   waiting, limits, history>>

-----------------------------------------------------------------------------
Request(w) == Create(w) \/ Delete(w) \/ Exact(w) \/ Adopt(w)
Step(w) == Bind(w) \/ Insert(w) \/ Confirm(w) \/ Rollback(w) \/ Forget(w) \/ Unlaunch(w)
           \/ Remove(w) \/ Kill(w) \/ Reinsert(w) \/ Mark(w) \/ Query(w) \/ ExactKill(w)
           \/ Restore(w) \/ Remark(w) \/ Receipt(w) \/ Cleaned(w) \/ Attach(w)
           \/ Snap(w) \/ Save(w)
Discover == Plan \/ AttachNext \/ Reconcile \/ RemoveMissing
            \/ FinishCollect \/ FinishCommit
ReapStep == CollectExited \/ Reap
Load     == LoadRead \/ LoadAssign

Next == \/ TmuxNew \/ TmuxEnds \/ Crash
        \/ \E w \in Workers : Request(w) \/ Step(w) \/ Cancel(w)
        \/ \E p \in Procs : WaitToWrite(p)
        \/ Checkpoint \/ List \/ Discover \/ ReapStep \/ Load

(* A task that can go on does; the two loops come round again and again     *)
(* (the discovery takes the fair lock in its turn).                         *)
Spec == Init /\ [][Next]_vars
        /\ \A w \in Workers : WF_vars(Step(w))
        /\ SF_vars(List) /\ WF_vars(Discover) /\ WF_vars(ReapStep) /\ WF_vars(Load)

-----------------------------------------------------------------------------
Incarnations == [server : 0 .. MaxMade, number : 0 .. MaxMade]
Entries  == [id : Ids, name : Names]
Handle   == [name : Names, inc : Incarnations] \cup {NoHandle}
Authority == [phase : {"Active", "Cleaning", "Cleaned"}, name : Names,
              inc : Incarnations, alive : BOOLEAN] \cup {NoAuthority}

TypeOK ==
    /\ tmux \in [Names -> Incarnations]
    /\ handles \in [Ids -> Handle]
    /\ authority \in [Ids -> Authority] /\ records \in [Ids -> Authority]
    /\ stale \subseteq Entries /\ registry \subseteq Entries
    /\ nextId \in 1 .. MaxId + 1
    /\ lock \in Workers \cup {"none", "discovery"}
    /\ listed \subseteq Names /\ todo \subseteq [name : Names, id : Ids \cup {0}]
    /\ missing \subseteq Entries /\ ready \subseteq Ids
    /\ snap \in [Procs -> SUBSET Entries]
    /\ boot \in {"server", "up", "embedded"} /\ waiting \subseteq Procs

(* discovery_lock: "Serializes tmux discovery so concurrent callers cannot  *)
(* race and attach duplicate actors to the same tmux session".  A kill that *)
(* fails can lead to two, since it runs without the lock: then the handle   *)
(* that it puts back is one of them, and of no other session are there two. *)
OneActorPerTmux ==
    \A i, j \in Tracked :
        handles[i] = handles[j] /\ ~ Exited(i) /\ handles[i] \notin botched => i = j

(* A generation a client can name is on disk, unless its record could not   *)
(* be written: "launch does not expose a generation until its active record *)
(* is atomically durable".                                                  *)
AuthorityIsDurable ==
    boot # "embedded" =>
        \A i \in Ids \ lost : authority[i] # NoAuthority => records[i].inc = authority[i].inc

(* An exact cleanup that reports the tmux session gone has that very one    *)
(* gone, whatever has the name by now.                                      *)
CleanedMeansGone ==
    \A i \in Ids : authority[i].phase = "Cleaned" /\ ~ authority[i].alive
                      => \A n \in Names : tmux[n] # authority[i].inc

(* Every way out of an exact cleanup settles its phase: Cleaning, which     *)
(* turns every retry away, is left behind only by a cancelled request or a  *)
(* receipt that could not be written.                                       *)
CleaningHasOwner ==
    \A i \in Ids \ orphaned : authority[i].phase = "Cleaning" =>
        \E w \in Workers : pc[w] # "idle" /\ job[w].op = "exact" /\ job[w].id = i

(* The kill of an exact cleanup spares a session that took the name after   *)
(* the query; only a new tmux server can give its number to another.        *)
KillIsExact ==
    [][\A w \in Workers : pc[w] = "exactKill" /\ pc'[w] # "exactKill" =>
          \A n \in Names : tmux'[n] # tmux[n] =>
              tmux[n] = job[w].target.inc \/ tmux[n].server # job[w].target.inc.server]_vars

(* The discovery decides by names it listed some awaits ago; all the same   *)
(* it never takes a live actor out of the registry.                         *)
OnlyExitedGoMissing ==
    [][pc["discovery"] = "removeMissing" /\ pc'["discovery"] = "collect" =>
          \A i \in Tracked : handles'[i] # handles[i] => Exited(i)]_vars

(* A restart of the server keeps the ids: when its first discovery ends,    *)
(* each persisted session that tmux still lists has its id again.           *)
IdentitySurvivesRestart ==
    boot = "server" /\ pc["discovery"] = "collect" /\ botched = {} =>
        \A e \in registry : e.name \in listed => handles[e.id].name = e.name

(* "stale or concurrent cleanup cannot remove a replacement actor".         *)
ReplacementIsSafe ==
    [][\A w \in Workers : pc[w] # "cleaned" /\ pc'[w] = "cleaned" =>
          job[w].handle.inc \in {Gone, job[w].target.inc}]_vars

(* "the lock order ... matches them, so no deadlock".                       *)
DiscoveryEnds == (pc["discovery"] = "collect") ~> (pc["discovery"] # "collect")
=============================================================================
