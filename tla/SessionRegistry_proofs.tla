----------------------- MODULE SessionRegistry_proofs -----------------------
(***************************************************************************)
(* Proofs about the registry of sessions, for any number of names, ids,    *)
(* requests and faults.                                                    *)
(***************************************************************************)
EXTENDS SessionRegistry, WellFoundedInduction, TLAPS

-----------------------------------------------------------------------------
(* The least and the greatest of the ids of a set: < is well founded on Nat. *)

LEMMA LeastNat ==
    ASSUME NEW S \in SUBSET Nat, S # {} PROVE \E x \in S : \A y \in S : x <= y
<1>1. PICK x \in S : \A y \in S : ~ (<<y, x>> \in OpToRel(<, Nat))
  BY NatLessThanWellFounded, WFMin
<1>2. ASSUME NEW y \in S PROVE x <= y
  <2>1. ~ (y < x) BY <1>1 DEF OpToRel
  <2> QED BY <2>1
<1> QED BY <1>2

LEMMA MinIsLeast ==
    ASSUME NEW S \in SUBSET Nat, S # {} PROVE Min(S) \in S /\ \A y \in S : Min(S) <= y
BY LeastNat DEF Min

LEMMA MaxIsGreatest ==
    ASSUME NEW S \in SUBSET Nat, S # {}, NEW b \in Nat, \A y \in S : y <= b
    PROVE  Max(S) \in S /\ \A y \in S : y <= Max(S)
<1> DEFINE Above == {n \in Nat : \A y \in S : y <= n}
<1>1. PICK u \in Above : \A v \in Above : u <= v BY LeastNat
<1>2. u \in S
  <2> SUFFICES ASSUME u \notin S PROVE FALSE OBVIOUS
  <2>1. PICK y \in S : y <= u BY <1>1
  <2>2. \A z \in S : z < u BY <1>1
  <2>3. u - 1 \in Above BY <1>1, <2>1, <2>2
  <2> QED BY <1>1, <2>3
<1> QED BY <1>1, <1>2 DEF Max

LEMMA FirstFreshId ==
    ASSUME FreshIds # {}
    PROVE  /\ Min(FreshIds) \in Ids /\ Min(FreshIds) >= nextId /\ Min(FreshIds) \notin Tracked
           /\ authority[Min(FreshIds)] = NoAuthority /\ \A s \in stale : s.id # Min(FreshIds)
<1>1. FreshIds \in SUBSET Nat BY DEF FreshIds, Ids
<1>2. Min(FreshIds) \in FreshIds BY <1>1, MinIsLeast
<1> QED BY <1>2 DEF FreshIds

-----------------------------------------------------------------------------
(* The types of what the arguments need. *)

Inc == Incarnations
\* No number is beyond the count of the sessions made.
MadeType == {m \in [count : 0 .. MaxMade, server : Nat, number : Nat] :
                m.server <= m.count /\ m.number <= m.count}
HandleType == [name : Names \cup {"none"}, inc : Inc]
AuthorityType == [phase : {"Active", "Cleaning", "Cleaned", "none"},
                  name : Names \cup {"none"}, inc : Inc, alive : BOOLEAN]
JobType == [op : {"none", "create", "delete", "exact", "adopt"}, kill : BOOLEAN,
            id : {0} \cup Ids,
            handle : HandleType, target : AuthorityType]

CreateSteps == {"bind", "insert", "confirm", "rollback", "forget", "unlaunch"}
ExactSteps == {"mark", "query", "exactKill", "restore", "remark", "receipt", "cleaned"}
Steps == CreateSteps \cup ExactSteps
         \cup {"idle", "remove", "kill", "reinsert", "attach", "snap", "save",
               "plan", "removeMissing", "collect", "commit", "reap"}

Variables ==
    /\ tmux \in [Names -> Inc]
    /\ made \in MadeType
    /\ handles \in [Ids -> HandleType]
    /\ authority \in [Ids -> AuthorityType] /\ records \in [Ids -> AuthorityType]
    /\ loader.records \in [Ids -> AuthorityType]
    /\ pc \in [Procs -> Steps] /\ job \in [Workers -> JobType]
    /\ listed \subseteq Names /\ \A c \in todo : c.name \in listed

\* Which request is at which step, and who has the discovery lock.
At(w) ==
    /\ pc[w] = "idle" => job[w] = NoJob
    /\ pc[w] \in CreateSteps => job[w].op = "create"
    /\ pc[w] \in ExactSteps => job[w].op = "exact"
    /\ pc[w] \in {"remove", "kill", "reinsert"} => job[w].op = "delete"
    /\ pc[w] = "attach" => job[w].op = "adopt"
    /\ pc[w] \in CreateSteps \cup {"attach"} => job[w].handle.name \in Names
    /\ pc[w] \in {"bind", "insert", "attach"} \/ job[w].op = "exact" => lock = w

Control ==
    /\ \A w \in Workers : At(w)
    /\ pc["discovery"] # "idle" => lock = "discovery"
    /\ pc["discovery"] # "attach" => todo = {}

LEMMA Processes ==
    /\ Workers \subseteq Procs /\ "discovery" \in Procs /\ "reaper" \in Procs
    /\ "discovery" \notin Workers /\ "reaper" \notin Workers /\ "none" \notin Workers
BY RegistryAssumption DEF RegistryAssumption, Procs

LEMMA Nothing ==
    Gone \in Inc /\ NoHandle \in HandleType /\ NoAuthority \in AuthorityType /\ NoJob \in JobType
BY RegistryAssumption
DEF RegistryAssumption, Gone, Inc, Incarnations, NoHandle, HandleType, NoAuthority, AuthorityType,
    NoJob, JobType

LEMMA Numbers == ASSUME NEW x \in Inc PROVE x.server \in Nat /\ x.number \in Nat
BY RegistryAssumption DEF RegistryAssumption, Inc, Incarnations

LEMMA FirstIncarnation == [server |-> 1, number |-> 0] \in Inc
BY RegistryAssumption DEF RegistryAssumption, Inc, Incarnations

LEMMA InitVariables == Init => Variables /\ Control
<1> SUFFICES ASSUME Init PROVE Variables /\ Control OBVIOUS
<1> USE Nothing, Processes
<1>1. PICK n \in Names : LET inc == [server |-> 1, number |-> 0] IN
         /\ tmux = [m \in Names |-> IF m = n THEN inc ELSE Gone]
         /\ handles = [i \in Ids |-> IF i = 1 THEN [name |-> n, inc |-> inc] ELSE NoHandle]
         /\ authority = [i \in Ids |-> IF i = 1 THEN [phase |-> "Active", name |-> n, inc |-> inc,
                                                    alive |-> FALSE] ELSE NoAuthority]
         /\ records = authority
  BY DEF Init
<1>2. [server |-> 1, number |-> 0] \in Inc BY FirstIncarnation
<1>3. tmux \in [Names -> Inc] /\ handles \in [Ids -> HandleType]
  BY <1>1, <1>2 DEF HandleType
<1>4. authority \in [Ids -> AuthorityType] /\ records \in [Ids -> AuthorityType]
  BY <1>1, <1>2 DEF AuthorityType
<1>5. made \in MadeType BY RegistryAssumption DEF RegistryAssumption, MadeType, Init
<1>6. loader.records \in [Ids -> AuthorityType] BY DEF Init, Loaded
<1>7. pc \in [Procs -> Steps] /\ job \in [Workers -> JobType]
  <2>1. pc = [p \in Procs |-> "idle"] /\ job = [w \in Workers |-> NoJob] BY DEF Init
  <2>2. "idle" \in Steps BY DEF Steps
  <2>4. pc \in [Procs -> Steps] BY <2>1, <2>2
  <2>3. job \in [Workers -> JobType] BY <2>1
  <2> QED BY <2>3, <2>4
<1>8. listed = {} /\ todo = {} BY DEF Init
<1>9. Control
  <2>1. (\A p \in Procs : pc[p] = "idle") /\ \A w \in Workers : job[w] = NoJob BY DEF Init
  <2>2. NoJob.op = "none" BY DEF NoJob
  <2> QED BY <1>8, <2>1, <2>2 DEF Control, At, CreateSteps, ExactSteps
<1> QED BY <1>3, <1>4, <1>5, <1>6, <1>7, <1>8, <1>9 DEF Variables

-----------------------------------------------------------------------------
LEMMA MakeTmuxTypes ==
    ASSUME Variables, NEW n \in Names, MakeTmux(n)
    PROVE  /\ tmux' \in [Names -> Inc] /\ made' \in MadeType
           /\ tmux'[n] \in Inc /\ \A m \in Names \ {n} : tmux'[m] = tmux[m]
<1>1. /\ made.count \in Nat /\ made.server \in Nat /\ made.number \in Nat /\ MaxMade \in Nat
      /\ made.server <= made.count /\ made.number <= made.count
  BY RegistryAssumption DEF RegistryAssumption, Variables, MadeType
<1>2. PICK restart \in BOOLEAN :
         LET inc == [server |-> made.server + (IF restart THEN 1 ELSE 0),
                     number |-> IF restart THEN 0 ELSE made.number]
         IN /\ made.count < MaxMade /\ tmux' = [tmux EXCEPT ![n] = inc]
            /\ made' = [count |-> made.count + 1, server |-> inc.server, number |-> inc.number + 1]
  BY DEF MakeTmux
<1> DEFINE inc == [server |-> made.server + (IF restart THEN 1 ELSE 0),
                   number |-> IF restart THEN 0 ELSE made.number]
<1>3. inc \in Inc BY <1>1, <1>2 DEF Inc, Incarnations
<1>4. made' \in MadeType BY <1>1, <1>2 DEF MadeType
<1>5. tmux' = [tmux EXCEPT ![n] = inc] BY <1>2
<1> HIDE DEF inc
<1> QED BY <1>3, <1>4, <1>5 DEF Variables

LEMMA KilledTypes ==
    ASSUME Variables, NEW T, Killed(T) \/ KillFails(T) PROVE tmux' \in [Names -> Inc]
BY Nothing DEF Variables, Killed, KillFails

LEMMA InTypes == ASSUME NEW a \in AuthorityType, NEW p \in {"Active", "Cleaning", "Cleaned"}
                 PROVE  In(p, a) \in AuthorityType
BY DEF In, AuthorityType

LEMMA RecoveredTypes == ASSUME NEW rs \in [Ids -> AuthorityType]
                        PROVE  Recovered(rs) \in [Ids -> AuthorityType]
BY InTypes DEF Recovered

LEMMA WriteTypes ==
    ASSUME Variables, NEW i, NEW r \in AuthorityType, Write(i, r) \/ WriteFails(i)
    PROVE  records' \in [Ids -> AuthorityType]
BY Nothing DEF Variables, Write, WriteFails

LEMMA JobTypes == ASSUME Variables, NEW w \in Workers
                  PROVE  job[w].handle \in HandleType /\ job[w].target \in AuthorityType
BY DEF Variables, JobType

LEMMA SetHandleTypes ==
    ASSUME Variables, NEW i, NEW h \in HandleType, SetHandle(i, h)
    PROVE  handles' \in [Ids -> HandleType]
BY DEF Variables, SetHandle

LEMMA AuthorizeTypes ==
    ASSUME Variables, NEW i, NEW r \in AuthorityType, Authorize(i, r)
    PROVE  authority' \in [Ids -> AuthorityType]
BY DEF Variables, Authorize

LEMMA CleanedTypes == ASSUME Variables, NEW w \in Workers PROVE CleanedBy(w) \in AuthorityType
<1>1. PICK t \in AuthorityType : t = job[w].target BY JobTypes
<1>2. job[w].kill \in BOOLEAN BY DEF Variables, JobType
<1> QED BY ONLY <1>1, <1>2 DEF CleanedBy, In, AuthorityType

LEMMA LoadedTypes == Loaded.records \in [Ids -> AuthorityType]
BY Nothing DEF Loaded

LEMMA StoreTypes == ASSUME Variables, Control, [Next]_vars
    PROVE /\ tmux' \in [Names -> Inc] /\ made' \in MadeType
          /\ handles' \in [Ids -> HandleType] /\ authority' \in [Ids -> AuthorityType]
          /\ records' \in [Ids -> AuthorityType] /\ loader'.records \in [Ids -> AuthorityType]
<1> DEFINE Goal == /\ tmux' \in [Names -> Inc] /\ made' \in MadeType
          /\ handles' \in [Ids -> HandleType] /\ authority' \in [Ids -> AuthorityType]
          /\ records' \in [Ids -> AuthorityType] /\ loader'.records \in [Ids -> AuthorityType]
<1> USE Nothing, Processes DEF tmuxVars, memory, disk, bootVars
<1>0. ASSUME UNCHANGED <<tmux, made, handles, authority, records, loader>> PROVE Goal
  BY <1>0 DEF Variables
<1>1. ASSUME NEW w \in Workers, Bind(w) PROVE Goal
  <2>1. /\ UNCHANGED <<tmuxVars, memory, bootVars>>
        /\ \/ UNCHANGED records \/ WriteFails(job[w].id)
           \/ \E r : Live(job[w].handle.name) /\ Write(job[w].id, r)
                    /\ r = [phase |-> "Active", name |-> job[w].handle.name,
                            inc |-> tmux[job[w].handle.name], alive |-> FALSE]
    BY <1>1 DEF Bind
  <2>2. job[w].handle.name \in Names BY <1>1 DEF Bind, Control, At, CreateSteps
  <2> QED BY <2>1, <2>2, WriteTypes, JobTypes DEF Variables, HandleType, AuthorityType
<1>2. ASSUME NEW w \in Workers, Insert(w) PROVE Goal
  BY <1>2, JobTypes, SetHandleTypes, AuthorizeTypes DEF Insert, Variables
<1>3. ASSUME NEW w \in Workers,
             Confirm(w) \/ Query(w) \/ Snap(w) \/ Save(w) \/ Cancel(w) \/ Delete(w) \/ Adopt(w)
      PROVE  Goal
  BY <1>0, <1>3 DEF Confirm, Query, Snap, Save, Cancel, Delete, Adopt
<1>4. ASSUME NEW w \in Workers, Rollback(w) PROVE Goal
  BY <1>4, SetHandleTypes, AuthorizeTypes DEF Rollback, Variables
<1>5. ASSUME NEW w \in Workers, Forget(w) PROVE Goal
  BY <1>5, WriteTypes DEF Forget, Variables
<1>6. ASSUME NEW w \in Workers, Unlaunch(w) \/ Kill(w) \/ ExactKill(w) PROVE Goal
  BY <1>6, KilledTypes DEF Unlaunch, Kill, ExactKill, Variables
<1>7. ASSUME NEW w \in Workers, Remove(w) PROVE Goal
  BY <1>7, SetHandleTypes DEF Remove, Variables
<1>8. ASSUME NEW w \in Workers, Reinsert(w) PROVE Goal
  BY <1>8, JobTypes, SetHandleTypes DEF Reinsert, Variables
<1>9. ASSUME NEW w \in Workers, Exact(w) PROVE Goal
  BY <1>9, InTypes DEF Exact, SetHandle, Authorize, Variables
<1>10. ASSUME NEW w \in Workers, Mark(w) PROVE Goal
  BY <1>10, JobTypes, InTypes, WriteTypes DEF Mark, Variables
<1>11. ASSUME NEW w \in Workers, Restore(w) PROVE Goal
  BY <1>11, JobTypes, SetHandleTypes, AuthorizeTypes DEF Restore, Variables
<1>12. ASSUME NEW w \in Workers, Remark(w) PROVE Goal
  BY <1>12, JobTypes, WriteTypes DEF Remark, Variables
<1>13. ASSUME NEW w \in Workers, Receipt(w) PROVE Goal
  BY <1>13, CleanedTypes, WriteTypes DEF Receipt, Variables
<1>14. ASSUME NEW w \in Workers, Cleaned(w) PROVE Goal
  BY <1>14, CleanedTypes, AuthorizeTypes DEF Cleaned, Variables
<1>15. ASSUME NEW w \in Workers, Attach(w) PROVE Goal
  <2>1. job[w].handle.name \in Names BY <1>15 DEF Attach, Control, At
  <2>2. [name |-> job[w].handle.name, inc |-> tmux[job[w].handle.name]] \in HandleType
    BY <2>1 DEF Variables, HandleType
  <2> QED BY <1>15, <2>2, SetHandleTypes DEF Attach, Variables
<1>16. ASSUME NEW w \in Workers, Create(w) PROVE Goal
  BY <1>16, MakeTmuxTypes DEF Create, Variables
<1>17. CASE TmuxNew \/ TmuxEnds
  BY <1>17, MakeTmuxTypes, KilledTypes DEF TmuxNew, TmuxEnds, Variables
<1>18. ASSUME \/ Checkpoint \/ List \/ Plan \/ Reconcile \/ FinishCollect \/ FinishCommit
              \/ CollectExited \/ (\E p \in Procs : WaitToWrite(p)) \/ UNCHANGED vars
       PROVE  Goal
  BY <1>0, <1>18 DEF Checkpoint, List, Plan, Reconcile, FinishCollect, FinishCommit, CollectExited,
                     WaitToWrite, vars
<1>19. CASE AttachNext
  <2>1. \A c \in todo : [name |-> c.name, inc |-> tmux[c.name]] \in HandleType
    BY DEF Variables, HandleType
  <2> QED BY <1>19, <2>1, SetHandleTypes DEF AttachNext, Variables
<1>20. CASE RemoveMissing \/ Reap
  BY <1>20 DEF RemoveMissing, Reap, Variables
<1>21. CASE LoadRead BY <1>21 DEF LoadRead, Variables
<1>22. CASE LoadAssign
  <2>1. authority' = Recovered(loader.records) /\ loader' = Loaded
        /\ UNCHANGED <<tmuxVars, handles, disk>>
    BY <1>22 DEF LoadAssign
  <2> QED BY <2>1, RecoveredTypes, LoadedTypes DEF Variables
<1>23. CASE Crash
  <2>1. /\ handles' = [i \in Ids |-> NoHandle]
        /\ authority' = Recovered(records) \/ authority' = [i \in Ids |-> NoAuthority]
        /\ loader' = Loaded \/ loader' = [Loaded EXCEPT !.step = "read"]
        /\ UNCHANGED <<tmuxVars, disk>>
    BY <1>23 DEF Crash
  <2>2. loader'.records = Loaded.records BY <2>1 DEF Loaded
  <2> QED BY <2>1, <2>2, RecoveredTypes, LoadedTypes DEF Variables
<1> QED
  BY <1>1, <1>2, <1>3, <1>4, <1>5, <1>6, <1>7, <1>8, <1>9, <1>10, <1>11, <1>12, <1>13, <1>14, <1>15,
     <1>16, <1>17, <1>18, <1>19, <1>20, <1>21, <1>22, <1>23
  DEF Next, Request, Step, Discover, ReapStep, Load

-----------------------------------------------------------------------------
(* Requests move one at a time. *)

Moves(w) ==
    /\ pc' \in [Procs -> Steps] /\ job' \in [Workers -> JobType]
    /\ \A q \in Procs \ {w} : pc'[q] = pc[q]
    /\ \A v \in Workers \ {w} : job'[v] = job[v]
    /\ lock' = lock \/ lock \in {"none", w}

LEMMA WentTo ==
    ASSUME Variables, NEW p \in Procs, NEW x \in Steps, Goto(p, x)
    PROVE  pc' \in [Procs -> Steps] /\ pc'[p] = x /\ \A q \in Procs \ {p} : pc'[q] = pc[q]
BY DEF Variables, Goto

LEMMA Finished ==
    ASSUME Variables, NEW w \in Workers, Finish(w)
    PROVE  Moves(w) /\ At(w)' /\ pc'[w] = "idle" /\ job'[w] = NoJob
<1>1. "idle" \in Steps BY DEF Steps
<1>2. pc' \in [Procs -> Steps] /\ pc'[w] = "idle" /\ \A q \in Procs \ {w} : pc'[q] = pc[q]
  BY <1>1, Processes, WentTo DEF Finish
<1>3. job' \in [Workers -> JobType] /\ job'[w] = NoJob /\ \A v \in Workers \ {w} : job'[v] = job[v]
  BY Nothing DEF Finish, Variables
<1>4. lock' = lock \/ lock = w BY DEF Finish, Release
<1>5. NoJob.op = "none" BY DEF NoJob
<1> QED BY <1>2, <1>3, <1>4, <1>5 DEF Moves, At, CreateSteps, ExactSteps

LEMMA AskedFor ==
    ASSUME Variables, NEW w \in Workers, NEW j \in JobType, NEW x \in Steps, Ask(w, j, x),
           lock' = lock \/ lock = "none"
    PROVE  Moves(w) /\ pc[w] = "idle" /\ pc'[w] = x /\ job'[w] = j
<1>1. pc' \in [Procs -> Steps] /\ pc'[w] = x /\ \A q \in Procs \ {w} : pc'[q] = pc[q]
  BY Processes, WentTo DEF Ask
<1>2. job' \in [Workers -> JobType] /\ job'[w] = j /\ \A v \in Workers \ {w} : job'[v] = job[v]
  BY DEF Ask, Variables
<1> QED BY <1>1, <1>2 DEF Moves, Ask

\* A step that goes on with the same locals and the same lock.
LEMMA WentOn ==
    ASSUME Variables, Control, NEW w \in Workers, NEW x \in Steps, Goto(w, x), UNCHANGED <<job, lock>>,
           pc[w] # "idle", x # "idle",
           x \in CreateSteps => pc[w] \in CreateSteps,
           x \in {"bind", "insert"} => pc[w] \in {"bind", "insert"},
           x \in ExactSteps => pc[w] \in ExactSteps \/ job[w].op = "exact",
           x \in {"remove", "kill", "reinsert"} => pc[w] \in {"remove", "kill", "reinsert"},
           x # "attach"
    PROVE  Moves(w) /\ At(w)' /\ pc'[w] = x /\ job'[w] = job[w]
<1>1. pc' \in [Procs -> Steps] /\ pc'[w] = x /\ \A q \in Procs \ {w} : pc'[q] = pc[q]
  BY Processes, WentTo
<1>2. job' = job /\ job' \in [Workers -> JobType] BY DEF Variables
<1>3. At(w) BY DEF Control
<1> QED BY <1>1, <1>2, <1>3 DEF Moves, At

LEMMA Targeted ==
    ASSUME Variables, NEW w \in Workers, NEW t \in AuthorityType, job' = [job EXCEPT ![w].target = t]
    PROVE  /\ job' \in [Workers -> JobType] /\ \A v \in Workers \ {w} : job'[v] = job[v]
           /\ job'[w].op = job[w].op /\ job'[w].id = job[w].id /\ job'[w].kill = job[w].kill
           /\ job'[w].handle = job[w].handle /\ job'[w].target = t
BY DEF Variables, JobType

LEMMA Handed ==
    ASSUME Variables, NEW w \in Workers, NEW h \in HandleType, job' = [job EXCEPT ![w].handle = h]
    PROVE  /\ job' \in [Workers -> JobType] /\ \A v \in Workers \ {w} : job'[v] = job[v]
           /\ job'[w].op = job[w].op /\ job'[w].id = job[w].id /\ job'[w].kill = job[w].kill
           /\ job'[w].handle = h /\ job'[w].target = job[w].target
BY DEF Variables, JobType

LEMMA OthersStay ==
    ASSUME Control, NEW w \in Workers, Moves(w), At(w)', todo' = todo PROVE Control'
<1>1. ASSUME NEW v \in Workers, v # w PROVE At(v)'
  <2>1. pc'[v] = pc[v] /\ job'[v] = job[v] /\ At(v) BY <1>1, Processes DEF Moves, Control
  <2>2. lock = v => lock' = v BY <1>1, Processes DEF Moves
  <2> QED BY <2>1, <2>2 DEF At
<1>2. pc'["discovery"] = pc["discovery"] BY Processes DEF Moves
<1>3. lock = "discovery" => lock' = "discovery" BY Processes DEF Moves
<1> QED BY <1>1, <1>2, <1>3 DEF Control

LEMMA StepMoves ==
    ASSUME Variables, Control, NEW w \in Workers, Step(w) \/ Cancel(w)
    PROVE  Moves(w) /\ At(w)'
<1> USE Processes DEF Steps, CreateSteps, ExactSteps
<1>1. CASE Bind(w)
  <2>1. pc[w] = "bind" /\ lock' = lock /\ At(w) /\ job[w].handle.name \in Names
    BY <1>1 DEF Bind, Control, At
  <2>2. CASE job' = job
    BY <1>1, <2>1, <2>2, WentOn DEF Bind
  <2>3. CASE job' # job
    <3> DEFINE r == [phase |-> "Active", name |-> job[w].handle.name,
                     inc |-> tmux[job[w].handle.name], alive |-> FALSE]
    <3>1. job' = [job EXCEPT ![w].target = r] /\ Goto(w, "insert") BY <1>1, <2>3 DEF Bind
    <3>2. r \in AuthorityType BY <2>1 DEF Variables, AuthorityType
    <3>3. pc' \in [Procs -> Steps] /\ pc'[w] = "insert" /\ \A q \in Procs \ {w} : pc'[q] = pc[q]
      BY <3>1, WentTo
    <3> HIDE DEF r
    <3>4. /\ job' \in [Workers -> JobType] /\ \A v \in Workers \ {w} : job'[v] = job[v]
          /\ job'[w].op = job[w].op /\ job'[w].handle = job[w].handle
      BY <3>1, <3>2, Targeted
    <3> QED BY <2>1, <3>3, <3>4 DEF Moves, At
  <2> QED BY <2>2, <2>3
<1>2. CASE Insert(w)
  <2>1. /\ pc[w] = "insert" /\ job' = job /\ At(w) /\ Goto(w, "confirm")
        /\ lock' = lock \/ lock = w
    BY <1>2 DEF Insert, Control, Release
  <2>2. pc' \in [Procs -> Steps] /\ pc'[w] = "confirm" /\ \A q \in Procs \ {w} : pc'[q] = pc[q]
    BY <2>1, WentTo
  <2> QED BY <2>1, <2>2 DEF Moves, At, Variables
<1>3. CASE Confirm(w) BY <1>3, WentOn, Finished DEF Confirm, Return
<1>4. CASE Rollback(w) BY <1>4, WentOn, Finished DEF Rollback, Return
<1>5. CASE Forget(w) BY <1>5, WentOn, Finished DEF Forget, Return
<1>6. CASE Unlaunch(w) BY <1>6, WentOn, Finished DEF Unlaunch, Return
<1>7. CASE Remove(w)
  <2>1. pc[w] = "remove" /\ At(w) BY <1>7 DEF Remove, Control
  <2>2. CASE Finish(w) BY <2>2, Finished
  <2>3. CASE ~ Finish(w)
    <3>1. /\ job' = [job EXCEPT ![w].handle = handles[job[w].id]] /\ lock' = lock
          /\ job[w].id \in Ids /\ (Goto(w, "kill") \/ Goto(w, "snap"))
      BY <1>7, <2>3 DEF Remove, Tracked
    <3>2. /\ pc' \in [Procs -> Steps] /\ pc'[w] \in {"kill", "snap"}
          /\ \A q \in Procs \ {w} : pc'[q] = pc[q]
      BY <3>1, WentTo
    <3>3. handles[job[w].id] \in HandleType BY <3>1 DEF Variables
    <3>4. /\ job' \in [Workers -> JobType] /\ \A v \in Workers \ {w} : job'[v] = job[v]
          /\ job'[w].op = job[w].op
      BY <3>1, <3>3, Handed
    <3> QED BY <2>1, <3>1, <3>2, <3>4 DEF Moves, At
  <2> QED BY <2>2, <2>3
<1>8. CASE Kill(w) BY <1>8, WentOn, Finished DEF Kill, Return
<1>9. CASE Reinsert(w) BY <1>9, WentOn, Finished DEF Reinsert, Return
<1>10. CASE Mark(w) BY <1>10, WentOn, Finished DEF Mark, Return
<1>11. CASE Query(w) BY <1>11, WentOn, Finished DEF Query, Return
<1>12. CASE ExactKill(w) BY <1>12, WentOn, Finished DEF ExactKill, Return
<1>13. CASE Restore(w) BY <1>13, WentOn, Finished DEF Restore, Return
<1>14. CASE Remark(w) BY <1>14, WentOn, Finished DEF Remark, Return
<1>15. CASE Receipt(w) BY <1>15, WentOn, Finished DEF Receipt, Return
<1>16. CASE Cleaned(w) BY <1>16, WentOn, Finished DEF Cleaned, Return
<1>17. CASE Attach(w) BY <1>17, WentOn, Finished DEF Attach, Return
<1>18. CASE Snap(w) BY <1>18, WentOn, Finished DEF Snap, Return
<1>19. CASE Save(w) BY <1>19, WentOn, Finished DEF Save, Return
<1>20. CASE Cancel(w) BY <1>20, WentOn, Finished DEF Cancel, Return
<1> QED
  BY <1>1, <1>2, <1>3, <1>4, <1>5, <1>6, <1>7, <1>8, <1>9, <1>10, <1>11, <1>12, <1>13,
     <1>14, <1>15, <1>16, <1>17, <1>18, <1>19, <1>20
  DEF Step

LEMMA RequestMoves ==
    ASSUME Variables, Control, NEW w \in Workers, Request(w)
    PROVE  Moves(w) /\ At(w)'
<1> USE Processes, Nothing DEF Steps, CreateSteps, ExactSteps
<1>1. CASE Create(w)
  <2>1. PICK n \in Names : /\ FreshIds # {} /\ MakeTmux(n) /\ TakeLock(w)
                           /\ LET i == Min(FreshIds) IN
                              Ask(w, [NoJob EXCEPT !.op = "create", !.id = i,
                                  !.handle = [name |-> n, inc |-> tmux'[n]]], "bind")
    BY <1>1 DEF Create
  <2> DEFINE j == [NoJob EXCEPT !.op = "create", !.id = Min(FreshIds),
                                !.handle = [name |-> n, inc |-> tmux'[n]]]
  <2>2. j \in JobType /\ j.op = "create" /\ j.handle.name = n
    <3>1. [name |-> n, inc |-> tmux'[n]] \in HandleType BY <2>1, MakeTmuxTypes DEF HandleType
    <3>2. Min(FreshIds) \in Ids BY <2>1, FirstFreshId
    <3> QED BY <3>1, <3>2 DEF JobType, NoJob
  <2>3. Ask(w, j, "bind") /\ lock = "none" /\ lock' = w BY <2>1 DEF TakeLock
  <2> HIDE DEF j
  <2> QED BY <2>2, <2>3, AskedFor DEF At
<1>2. CASE Delete(w)
  <2>1. PICK i \in Ids, kill \in BOOLEAN :
           Ask(w, [NoJob EXCEPT !.op = "delete", !.kill = kill, !.id = i], "remove") /\ lock' = lock
    BY <1>2 DEF Delete, Tracked
  <2> DEFINE j == [NoJob EXCEPT !.op = "delete", !.kill = kill, !.id = i]
  <2>2. j \in JobType /\ j.op = "delete" BY DEF JobType, NoJob
  <2>3. Ask(w, j, "remove") BY <2>1
  <2> HIDE DEF j
  <2> QED BY <2>1, <2>2, <2>3, AskedFor DEF At
<1>3. CASE Exact(w)
  <2>1. PICK i \in Ids, kill \in BOOLEAN :
           /\ Ask(w, [op |-> "exact", kill |-> kill, id |-> i, handle |-> handles[i],
                      target |-> authority[i]], "mark")
           /\ TakeLock(w)
    BY <1>3 DEF Exact
  <2> DEFINE j == [op |-> "exact", kill |-> kill, id |-> i, handle |-> handles[i],
                   target |-> authority[i]]
  <2>2. j \in JobType /\ j.op = "exact" BY DEF JobType, Variables
  <2>3. Ask(w, j, "mark") /\ lock = "none" /\ lock' = w BY <2>1 DEF TakeLock
  <2> HIDE DEF j
  <2> QED BY <2>2, <2>3, AskedFor DEF At
<1>4. CASE Adopt(w)
  <2>1. PICK n \in Names, i \in Ids :
           Ask(w, [NoJob EXCEPT !.op = "adopt", !.id = i, !.handle.name = n], "attach") /\ TakeLock(w)
    BY <1>4 DEF Adopt
  <2> DEFINE j == [NoJob EXCEPT !.op = "adopt", !.id = i, !.handle.name = n]
  <2>2. j \in JobType /\ j.op = "adopt" /\ j.handle.name = n
    BY DEF JobType, NoJob, HandleType, NoHandle
  <2>3. Ask(w, j, "attach") /\ lock = "none" /\ lock' = w BY <2>1 DEF TakeLock
  <2> HIDE DEF j
  <2> QED BY <2>2, <2>3, AskedFor DEF At
<1> QED BY <1>1, <1>2, <1>3, <1>4 DEF Request

LEMMA ScanStays ==
    ASSUME NEW w \in Workers, Request(w) \/ Step(w) \/ Cancel(w)
    PROVE  UNCHANGED <<listed, todo, missing>>
BY DEF Request, Step, Cancel, scan, Create, Delete, Exact, Adopt, Bind, Insert, Confirm, Rollback,
       Forget, Unlaunch, Remove, Kill, Reinsert, Mark, Query, ExactKill, Restore, Remark, Receipt,
       Cleaned, Attach, Snap, Save

LEMMA WorkersStay ==
    ASSUME Control, UNCHANGED job, \A w \in Workers : pc'[w] = pc[w],
           lock' = lock \/ lock \in {"none", "discovery"}
    PROVE  \A w \in Workers : At(w)'
<1> SUFFICES ASSUME NEW w \in Workers PROVE At(w)' OBVIOUS
<1>1. At(w) /\ pc'[w] = pc[w] BY DEF Control
<1>2. lock = w => lock' = w BY Processes
<1> QED BY <1>1, <1>2 DEF At

\* A step of a loop, which changes the locals of no request.
LEMMA LoopMoves ==
    ASSUME Variables, Control, NEW q \in {"discovery", "reaper"}, NEW x \in Steps, Goto(q, x),
           UNCHANGED job, lock' = lock \/ lock \in {"none", "discovery"}
    PROVE  /\ pc' \in [Procs -> Steps] /\ job' \in [Workers -> JobType]
           /\ pc'[q] = x /\ \A r \in Procs \ {q} : pc'[r] = pc[r]
           /\ \A w \in Workers : At(w)'
<1>1. q \in Procs /\ q \notin Workers BY Processes
<1>2. /\ pc' \in [Procs -> Steps] /\ pc'[q] = x
      /\ \A r \in Procs \ {q} : pc'[r] = pc[r]
  BY <1>1, WentTo
<1>3. \A w \in Workers : pc'[w] = pc[w] BY <1>1, <1>2, Processes
<1>4. \A w \in Workers : At(w)' BY <1>3, WorkersStay
<1>5. job' \in [Workers -> JobType] BY DEF Variables
<1> QED BY <1>2, <1>4, <1>5

LEMMA DiscoveryMoves ==
    ASSUME Variables, Control, NEW x \in Steps, Goto("discovery", x),
           UNCHANGED job, lock' = lock \/ lock \in {"none", "discovery"},
           x # "idle" => lock' = "discovery", x # "attach" => todo' = {}
    PROVE  pc' \in [Procs -> Steps] /\ job' \in [Workers -> JobType] /\ Control'
<1>1. /\ pc' \in [Procs -> Steps] /\ job' \in [Workers -> JobType]
      /\ pc'["discovery"] = x /\ \A w \in Workers : At(w)'
  BY LoopMoves
<1>2. pc'["discovery"] # "idle" => lock' = "discovery" BY <1>1
<1>3. pc'["discovery"] # "attach" => todo' = {} BY <1>1
<1> QED BY <1>1, <1>2, <1>3 DEF Control

LEMMA NextVariables == ASSUME Variables, Control, [Next]_vars PROVE Variables' /\ Control'
<1> DEFINE Goal == /\ pc' \in [Procs -> Steps] /\ job' \in [Workers -> JobType]
                   /\ listed' \subseteq Names /\ \A c \in todo' : c.name \in listed'
                   /\ Control'
<1> USE DEF Steps
<1>0. listed \subseteq Names /\ \A c \in todo : c.name \in listed BY DEF Variables
<1>1. ASSUME NEW w \in Workers, Request(w) \/ Step(w) \/ Cancel(w) PROVE Goal
  <2>1. Moves(w) /\ At(w)' BY <1>1, RequestMoves, StepMoves
  <2>2. UNCHANGED <<listed, todo>> BY <1>1, ScanStays
  <2>3. Control' BY <2>1, <2>2, OthersStay
  <2> QED BY <1>0, <2>1, <2>2, <2>3 DEF Moves
<1>2. ASSUME UNCHANGED <<pc, job, lock, listed, todo>> PROVE Goal
  <2>1. \A w \in Workers : At(w)' BY <1>2, WorkersStay
  <2>2. pc' \in [Procs -> Steps] /\ job' \in [Workers -> JobType] BY <1>2 DEF Variables
  <2>3. Control' BY <1>2, <2>1 DEF Control
  <2> QED BY <1>0, <1>2, <2>2, <2>3
<1>3. ASSUME TmuxNew \/ TmuxEnds \/ Checkpoint \/ Load \/ UNCHANGED vars PROVE Goal
  <2>1. UNCHANGED <<pc, job, lock, listed, todo>>
    BY <1>3 DEF TmuxNew, TmuxEnds, Checkpoint, Load, LoadRead, LoadAssign, vars, scan
  <2> QED BY <1>2, <2>1
<1>4. ASSUME NEW p \in Procs, WaitToWrite(p) PROVE Goal
  <2>1. UNCHANGED <<pc, job, lock, listed, todo>> BY <1>4 DEF WaitToWrite, scan
  <2> QED BY <1>2, <2>1
<1>5. ASSUME Crash PROVE Goal
  <2>1. /\ pc' = [p \in Procs |-> "idle"] /\ job' = [w \in Workers |-> NoJob]
        /\ listed' = {} /\ todo' = {}
    BY <1>5 DEF Crash
  <2>2. pc' \in [Procs -> Steps] /\ \A p \in Procs : pc'[p] = "idle" BY <2>1
  <2>3. job' \in [Workers -> JobType] /\ \A w \in Workers : job'[w] = NoJob BY <2>1, Nothing
  <2>4. NoJob.op = "none" BY DEF NoJob
  <2>5. \A w \in Workers : At(w)' BY <2>2, <2>3, <2>4, Processes DEF At, CreateSteps, ExactSteps
  <2>6. Control' BY <2>1, <2>2, <2>5, Processes DEF Control
  <2> QED BY <2>1, <2>2, <2>3, <2>6
<1>7. ASSUME ReapStep PROVE Goal
  <2>1. /\ UNCHANGED <<job, lock, listed, todo>>
        /\ Goto("reaper", "reap") \/ Goto("reaper", "idle")
    BY <1>7 DEF ReapStep, CollectExited, Reap, scan
  <2>2. /\ pc' \in [Procs -> Steps] /\ job' \in [Workers -> JobType]
        /\ \A r \in Procs \ {"reaper"} : pc'[r] = pc[r]
        /\ \A w \in Workers : At(w)'
    BY <2>1, LoopMoves
  <2>3. pc'["discovery"] = pc["discovery"] BY <2>2, Processes
  <2>4. Control' BY <2>1, <2>2, <2>3 DEF Control
  <2> QED BY <1>0, <2>1, <2>2, <2>4
<1>8. ASSUME List PROVE Goal
  <2>1. /\ Goto("discovery", "plan") /\ UNCHANGED <<job, todo>> /\ lock = "none"
        /\ lock' = "discovery" /\ listed' \subseteq Names /\ pc["discovery"] = "idle"
    BY <1>8 DEF List, TakeLock
  <2>2. todo' = {} BY <2>1 DEF Control
  <2>3. pc' \in [Procs -> Steps] /\ job' \in [Workers -> JobType] /\ Control'
    BY <2>1, <2>2, DiscoveryMoves
  <2> QED BY <2>1, <2>2, <2>3
<1>9. ASSUME Plan PROVE Goal
  <2>1. /\ Goto("discovery", "attach") /\ UNCHANGED <<job, lock, listed>> /\ pc["discovery"] = "plan"
    BY <1>9 DEF Plan
  <2>2. \A c \in todo' : c.name \in listed' BY <1>9 DEF Plan
  <2>3. lock = "discovery" BY <2>1 DEF Control
  <2>4. pc' \in [Procs -> Steps] /\ job' \in [Workers -> JobType] /\ Control'
    BY <2>1, <2>3, DiscoveryMoves
  <2> QED BY <1>0, <2>1, <2>2, <2>4
<1>10. ASSUME AttachNext PROVE Goal
  <2>1. UNCHANGED <<pc, job, lock, listed>> /\ todo' \subseteq todo /\ pc["discovery"] = "attach"
    BY <1>10 DEF AttachNext
  <2>2. \A w \in Workers : At(w)' BY <2>1, WorkersStay
  <2>3. pc' \in [Procs -> Steps] /\ job' \in [Workers -> JobType] BY <2>1 DEF Variables
  <2>4. Control' BY <2>1, <2>2 DEF Control
  <2> QED BY <1>0, <2>1, <2>3, <2>4
<1>11. ASSUME Reconcile PROVE Goal
  <2>1. /\ Goto("discovery", "collect") \/ Goto("discovery", "removeMissing")
        /\ UNCHANGED <<job, lock, listed, todo>> /\ pc["discovery"] = "attach" /\ todo = {}
    BY <1>11 DEF Reconcile
  <2>2. lock = "discovery" BY <2>1 DEF Control
  <2>3. pc' \in [Procs -> Steps] /\ job' \in [Workers -> JobType] /\ Control'
    BY <2>1, <2>2, DiscoveryMoves
  <2> QED BY <1>0, <2>1, <2>3
<1>12. ASSUME RemoveMissing \/ FinishCollect PROVE Goal
  <2>1. /\ Goto("discovery", "collect") \/ Goto("discovery", "commit")
        /\ UNCHANGED <<job, lock, listed, todo>> /\ pc["discovery"] \notin {"idle", "attach"}
    BY <1>12 DEF RemoveMissing, FinishCollect, scan
  <2>2. lock = "discovery" /\ todo = {} BY <2>1 DEF Control
  <2>3. pc' \in [Procs -> Steps] /\ job' \in [Workers -> JobType] /\ Control'
    BY <2>1, <2>2, DiscoveryMoves
  <2> QED BY <1>0, <2>1, <2>3
<1>14. ASSUME FinishCommit PROVE Goal
  <2>1. /\ Goto("discovery", "idle") /\ UNCHANGED <<job, todo>> /\ listed' = {}
        /\ pc["discovery"] = "commit"
    BY <1>14 DEF FinishCommit
  <2>2. lock = "discovery" /\ todo = {} BY <2>1 DEF Control
  <2>3. pc' \in [Procs -> Steps] /\ job' \in [Workers -> JobType] /\ Control'
    BY <2>1, <2>2, DiscoveryMoves
  <2> QED BY <2>1, <2>2, <2>3
<1>15. Goal
  BY <1>1, <1>3, <1>4, <1>5, <1>7, <1>8, <1>9, <1>10, <1>11, <1>12, <1>14
  DEF Next, Discover
<1> QED BY <1>15, StoreTypes DEF Variables

(* The variables keep their types, and of the requests and the discovery    *)
(* each is at a step of its own operation: who binds, inserts, adopts or    *)
(* cleans up exactly, and a discovery that is under way, has discovery_lock.*)
THEOREM RegistryControl == Spec => [](Variables /\ Control)
<1>1. (Variables /\ Control) /\ [Next]_vars => (Variables /\ Control)' BY NextVariables
<1> QED BY InitVariables, <1>1, PTL DEF Spec

-----------------------------------------------------------------------------
(* Cleaning has an owner.  Inductive with it: the authority of an exact     *)
(* cleanup is the one it found, marked Cleaning, as long as it is Cleaning, *)
(* and a create binds an Active one.                                        *)

Cleans(w) == job[w].op = "exact" =>
    /\ job[w].id \in Ids /\ job[w].target.phase = "Active"
    /\ authority[job[w].id].phase = "Cleaning" =>
          pc[w] # "remark" /\ authority[job[w].id] = In("Cleaning", job[w].target)

Binds(w) == pc[w] = "insert" => job[w].target.phase = "Active"

CleaningInv == (\A w \in Workers : Cleans(w) /\ Binds(w)) /\ CleaningHasOwner

\* An exact cleanup has the lock: nobody else cleans, binds or adopts.
LEMMA ExactAlone ==
    ASSUME Control, NEW v \in Workers, NEW w \in Workers, job[v].op = "exact",
           pc[w] \in {"bind", "insert", "attach"} \/ job[w].op = "exact" \/ lock \in {"none", w}
    PROVE  v = w
<1>1. lock = v BY DEF Control, At
<1>2. lock \in {"none", w} BY DEF Control, At
<1> QED BY <1>1, <1>2, Processes

LEMMA CleaningStep ==
    ASSUME Control, CleaningInv, NEW w \in Workers, Moves(w), At(w)', Cleans(w)', Binds(w)',
           \A i \in Ids : authority'[i] = authority[i] \/ authority'[i].phase # "Cleaning",
           orphaned \subseteq orphaned',
           job[w].op = "exact" => \/ job'[w].op = "exact" /\ job'[w].id = job[w].id
                                  \/ authority'[job[w].id].phase # "Cleaning"
                                  \/ job[w].id \in orphaned'
    PROVE  CleaningInv'
<1>1. ASSUME NEW v \in Workers, v # w PROVE Cleans(v)' /\ Binds(v)'
  <2>1. pc'[v] = pc[v] /\ job'[v] = job[v] /\ Cleans(v) /\ Binds(v)
    BY <1>1, Processes DEF Moves, CleaningInv
  <2>2. Binds(v)' BY <2>1 DEF Binds
  <2>3. CASE job[v].op # "exact" BY <2>1, <2>2, <2>3 DEF Cleans
  <2>4. CASE job[v].op = "exact"
    <3>1. /\ job[v].id \in Ids /\ job[v].target.phase = "Active"
          /\ authority[job[v].id].phase = "Cleaning" =>
                pc[v] # "remark" /\ authority[job[v].id] = In("Cleaning", job[v].target)
      BY <2>1, <2>4 DEF Cleans
    <3>2. \/ authority'[job[v].id] = authority[job[v].id]
          \/ authority'[job[v].id].phase # "Cleaning"
      BY <3>1
    <3>3. Cleans(v)' BY <2>1, <3>1, <3>2 DEF Cleans, In
    <3> QED BY <2>2, <3>3
  <2> QED BY <2>3, <2>4
<1>2. ASSUME NEW i \in Ids, i \notin orphaned', authority'[i].phase = "Cleaning"
      PROVE  \E v \in Workers : pc'[v] # "idle" /\ job'[v].op = "exact" /\ job'[v].id = i
  <2>1. authority'[i] = authority[i] /\ i \notin orphaned BY <1>2
  <2>2. PICK v \in Workers : pc[v] # "idle" /\ job[v].op = "exact" /\ job[v].id = i
    BY <1>2, <2>1 DEF CleaningInv, CleaningHasOwner
  <2>3. CASE v # w
    <3>1. pc'[v] = pc[v] /\ job'[v] = job[v] BY <2>3, Processes DEF Moves
    <3> QED BY <2>2, <3>1
  <2>4. CASE v = w
    <3>1. job'[w].op = "exact" /\ job'[w].id = i BY <1>2, <2>2, <2>4
    <3>2. pc'[w] # "idle" BY <3>1 DEF At, NoJob
    <3> QED BY <3>1, <3>2
  <2> QED BY <2>3, <2>4
<1>3. CleaningHasOwner' BY <1>2 DEF CleaningHasOwner
<1> QED BY <1>1, <1>3 DEF CleaningInv

\* A step that goes on, and one that ends the request.
LEMMA CleaningGoes ==
    ASSUME Variables, Control, CleaningInv, NEW w \in Workers, NEW x \in Steps \ {"insert", "remark"},
           Goto(w, x), UNCHANGED <<authority, job>>
    PROVE  /\ Cleans(w)' /\ Binds(w)'
           /\ job[w].op = "exact" => job'[w].op = "exact" /\ job'[w].id = job[w].id
<1>1. pc'[w] = x BY WentTo, Processes
<1>2. Cleans(w) BY DEF CleaningInv
<1>3. Cleans(w)' BY <1>1, <1>2 DEF Cleans, In
<1>4. Binds(w)' BY <1>1 DEF Binds
<1> QED BY <1>3, <1>4

LEMMA CleaningEnds ==
    ASSUME Variables, NEW w \in Workers, Finish(w) PROVE Cleans(w)' /\ Binds(w)'
<1>1. pc'[w] = "idle" /\ job'[w].op = "none" BY Finished DEF NoJob
<1> QED BY <1>1 DEF Cleans, Binds

LEMMA StepKeepsCleaning ==
    ASSUME Variables, Control, CleaningInv, NEW w \in Workers, Step(w) \/ Cancel(w)
    PROVE  CleaningInv'
<1> DEFINE Same == \A i \in Ids : authority'[i] = authority[i] \/ authority'[i].phase # "Cleaning"
           Left == job[w].op = "exact" => \/ job'[w].op = "exact" /\ job'[w].id = job[w].id
                                          \/ authority'[job[w].id].phase # "Cleaning"
                                          \/ job[w].id \in orphaned'
           Goal == Cleans(w)' /\ Binds(w)' /\ Same /\ orphaned \subseteq orphaned' /\ Left
<1> USE DEF Steps, CreateSteps, ExactSteps
<1>a. Moves(w) /\ At(w)' /\ At(w) /\ Cleans(w) /\ Binds(w) BY StepMoves DEF Control, CleaningInv
<1>1. ASSUME Confirm(w) PROVE Goal
  <2>1. /\ UNCHANGED <<authority, orphaned>>
        /\ \/ UNCHANGED job /\ \E x \in Steps \ {"insert", "remark"} : Goto(w, x)
           \/ Finish(w) /\ (job[w].op = "exact" => authority[job[w].id].phase # "Cleaning")
    BY <1>1, <1>a DEF Confirm, At, Cleans, memory, history, Return
  <2> QED BY <2>1, CleaningGoes, CleaningEnds
<1>2. ASSUME Forget(w) PROVE Goal
  <2>1. /\ UNCHANGED <<authority, orphaned>>
        /\ \/ UNCHANGED job /\ \E x \in Steps \ {"insert", "remark"} : Goto(w, x)
           \/ Finish(w) /\ (job[w].op = "exact" => authority[job[w].id].phase # "Cleaning")
    BY <1>2, <1>a DEF Forget, At, Cleans, memory, history, Return
  <2> QED BY <2>1, CleaningGoes, CleaningEnds
<1>3. ASSUME Unlaunch(w) PROVE Goal
  <2>1. /\ UNCHANGED <<authority, orphaned>>
        /\ \/ UNCHANGED job /\ \E x \in Steps \ {"insert", "remark"} : Goto(w, x)
           \/ Finish(w) /\ (job[w].op = "exact" => authority[job[w].id].phase # "Cleaning")
    BY <1>3, <1>a DEF Unlaunch, At, Cleans, memory, history, Return
  <2> QED BY <2>1, CleaningGoes, CleaningEnds
<1>4. ASSUME Kill(w) PROVE Goal
  <2>1. /\ UNCHANGED <<authority, orphaned>>
        /\ \/ UNCHANGED job /\ \E x \in Steps \ {"insert", "remark"} : Goto(w, x)
           \/ Finish(w) /\ (job[w].op = "exact" => authority[job[w].id].phase # "Cleaning")
    BY <1>4, <1>a DEF Kill, At, Cleans, memory, history, Return
  <2> QED BY <2>1, CleaningGoes, CleaningEnds
<1>5. ASSUME Reinsert(w) PROVE Goal
  <2>1. /\ UNCHANGED <<authority, orphaned>>
        /\ \/ UNCHANGED job /\ \E x \in Steps \ {"insert", "remark"} : Goto(w, x)
           \/ Finish(w) /\ (job[w].op = "exact" => authority[job[w].id].phase # "Cleaning")
    BY <1>5, <1>a DEF Reinsert, At, Cleans, memory, history, Return
  <2> QED BY <2>1, CleaningGoes, CleaningEnds
<1>6. ASSUME Mark(w) PROVE Goal
  <2>1. /\ UNCHANGED <<authority, orphaned>>
        /\ \/ UNCHANGED job /\ \E x \in Steps \ {"insert", "remark"} : Goto(w, x)
           \/ Finish(w) /\ (job[w].op = "exact" => authority[job[w].id].phase # "Cleaning")
    BY <1>6, <1>a DEF Mark, At, Cleans, memory, history, Return
  <2> QED BY <2>1, CleaningGoes, CleaningEnds
<1>7. ASSUME Query(w) PROVE Goal
  <2>1. /\ UNCHANGED <<authority, orphaned>>
        /\ \/ UNCHANGED job /\ \E x \in Steps \ {"insert", "remark"} : Goto(w, x)
           \/ Finish(w) /\ (job[w].op = "exact" => authority[job[w].id].phase # "Cleaning")
    BY <1>7, <1>a DEF Query, At, Cleans, memory, history, Return
  <2> QED BY <2>1, CleaningGoes, CleaningEnds
<1>8. ASSUME ExactKill(w) PROVE Goal
  <2>1. /\ UNCHANGED <<authority, orphaned>>
        /\ \/ UNCHANGED job /\ \E x \in Steps \ {"insert", "remark"} : Goto(w, x)
           \/ Finish(w) /\ (job[w].op = "exact" => authority[job[w].id].phase # "Cleaning")
    BY <1>8, <1>a DEF ExactKill, At, Cleans, memory, history, Return
  <2> QED BY <2>1, CleaningGoes, CleaningEnds
<1>9. ASSUME Remark(w) PROVE Goal
  <2>1. /\ UNCHANGED <<authority, orphaned>>
        /\ \/ UNCHANGED job /\ \E x \in Steps \ {"insert", "remark"} : Goto(w, x)
           \/ Finish(w) /\ (job[w].op = "exact" => authority[job[w].id].phase # "Cleaning")
    BY <1>9, <1>a DEF Remark, At, Cleans, memory, history, Return
  <2> QED BY <2>1, CleaningGoes, CleaningEnds
<1>10. ASSUME Attach(w) PROVE Goal
  <2>1. /\ UNCHANGED <<authority, orphaned>>
        /\ \/ UNCHANGED job /\ \E x \in Steps \ {"insert", "remark"} : Goto(w, x)
           \/ Finish(w) /\ (job[w].op = "exact" => authority[job[w].id].phase # "Cleaning")
    BY <1>10, <1>a DEF Attach, At, Cleans, memory, history, Return
  <2> QED BY <2>1, CleaningGoes, CleaningEnds
<1>11. ASSUME Snap(w) PROVE Goal
  <2>1. /\ UNCHANGED <<authority, orphaned>>
        /\ \/ UNCHANGED job /\ \E x \in Steps \ {"insert", "remark"} : Goto(w, x)
           \/ Finish(w) /\ (job[w].op = "exact" => authority[job[w].id].phase # "Cleaning")
    BY <1>11, <1>a DEF Snap, At, Cleans, memory, history, Return
  <2> QED BY <2>1, CleaningGoes, CleaningEnds
<1>12. ASSUME Save(w) PROVE Goal
  <2>1. /\ UNCHANGED <<authority, orphaned>>
        /\ \/ UNCHANGED job /\ \E x \in Steps \ {"insert", "remark"} : Goto(w, x)
           \/ Finish(w) /\ (job[w].op = "exact" => authority[job[w].id].phase # "Cleaning")
    BY <1>12, <1>a DEF Save, At, Cleans, memory, history, Return
  <2> QED BY <2>1, CleaningGoes, CleaningEnds
<1>13. ASSUME Bind(w) PROVE Goal
  <2>1. /\ UNCHANGED <<authority, orphaned>> /\ job[w].op = "create"
        /\ \/ UNCHANGED job /\ \E x \in Steps \ {"insert", "remark"} : Goto(w, x)
           \/ job' = [job EXCEPT ![w].target =
                        [phase |-> "Active", name |-> job[w].handle.name,
                         inc |-> tmux[job[w].handle.name], alive |-> FALSE]]
    BY <1>13, <1>a DEF Bind, At, memory
  <2>2. job'[w].op = "create" /\ (pc'[w] = "insert" => job'[w].target.phase = "Active")
    <3>1. CASE UNCHANGED job /\ \E x \in Steps \ {"insert", "remark"} : Goto(w, x)
      BY <2>1, <3>1, WentTo, Processes
    <3>2. CASE job' = [job EXCEPT ![w].target =
                        [phase |-> "Active", name |-> job[w].handle.name,
                         inc |-> tmux[job[w].handle.name], alive |-> FALSE]]
      BY <2>1, <3>2 DEF Variables, JobType
    <3> QED BY <2>1, <3>1, <3>2
  <2> QED BY <2>1, <2>2 DEF Cleans, Binds
<1>14. ASSUME Insert(w) PROVE Goal
  <2>1. /\ Authorize(job[w].id, job[w].target) /\ UNCHANGED <<orphaned, job>> /\ Goto(w, "confirm")
        /\ job[w].op = "create" /\ job[w].target.phase = "Active"
    BY <1>14, <1>a DEF Insert, At, Binds, history
  <2>2. pc'[w] = "confirm" BY <2>1, WentTo, Processes
  <2> QED BY <2>1, <2>2 DEF Cleans, Binds, Authorize, Variables
<1>15. ASSUME Rollback(w) PROVE Goal
  <2>1. /\ Authorize(job[w].id, NoAuthority) /\ UNCHANGED <<orphaned, job>> /\ Goto(w, "forget")
        /\ job[w].op = "create"
    BY <1>15, <1>a DEF Rollback, At, history
  <2>2. pc'[w] = "forget" BY <2>1, WentTo, Processes
  <2> QED BY <2>1, <2>2 DEF Cleans, Binds, Authorize, Variables, NoAuthority
<1>16. ASSUME Remove(w) PROVE Goal
  <2>1. UNCHANGED <<authority, orphaned>> /\ job[w].op = "delete" BY <1>16, <1>a DEF Remove, At, history
  <2>2. CASE Finish(w) BY <2>1, <2>2, CleaningEnds
  <2>3. CASE ~ Finish(w)
    <3>1. /\ job' = [job EXCEPT ![w].handle = handles[job[w].id]]
          /\ Goto(w, "kill") \/ Goto(w, "snap")
      BY <1>16, <2>3 DEF Remove
    <3>2. job'[w].op = "delete" BY <2>1, <3>1 DEF Variables, JobType
    <3>3. pc'[w] # "insert" BY <3>1, WentTo, Processes
    <3> QED BY <2>1, <3>2, <3>3 DEF Cleans, Binds
  <2> QED BY <2>2, <2>3
<1>17. ASSUME Restore(w) PROVE Goal
  <2>1. UNCHANGED orphaned /\ job[w].op = "exact" /\ job[w].id \in Ids /\ job[w].target.phase = "Active"
    BY <1>17, <1>a DEF Restore, At, history, Cleans
  <2>2. CASE authority[job[w].id] = In("Cleaning", job[w].target)
    <3>1. Authorize(job[w].id, job[w].target) /\ Goto(w, "remark") /\ UNCHANGED job
      BY <1>17, <2>2 DEF Restore
    <3>2. authority'[job[w].id].phase # "Cleaning" /\ Same
      BY <2>1, <3>1 DEF Authorize, Variables
    <3>3. pc'[w] = "remark" BY <3>1, WentTo, Processes
    <3> QED BY <2>1, <3>1, <3>2, <3>3 DEF Cleans, Binds
  <2>3. CASE authority[job[w].id] # In("Cleaning", job[w].target)
    <3>1. Finish(w) /\ UNCHANGED authority BY <1>17, <2>3 DEF Restore
    <3>2. authority[job[w].id].phase # "Cleaning" BY <1>a, <2>1, <2>3 DEF Cleans
    <3> QED BY <2>1, <3>1, <3>2, CleaningEnds
  <2> QED BY <2>2, <2>3
<1>18. ASSUME Receipt(w) PROVE Goal
  <2>1. UNCHANGED authority /\ job[w].op = "exact" /\ job[w].id \in Ids
    BY <1>18, <1>a DEF Receipt, At, memory, Cleans
  <2>2. CASE authority[job[w].id] = In("Cleaning", job[w].target)
    <3>1. \/ Goto(w, "cleaned") /\ UNCHANGED <<job, orphaned>>
          \/ orphaned' = orphaned \cup {job[w].id} /\ Finish(w)
      BY <1>18, <2>2 DEF Receipt
    <3> QED BY <2>1, <3>1, CleaningGoes, CleaningEnds
  <2>3. CASE authority[job[w].id] # In("Cleaning", job[w].target)
    <3>1. Finish(w) /\ UNCHANGED orphaned BY <1>18, <2>3 DEF Receipt
    <3>2. authority[job[w].id].phase # "Cleaning" BY <1>a, <2>1, <2>3 DEF Cleans
    <3> QED BY <2>1, <3>1, <3>2, CleaningEnds
  <2> QED BY <2>2, <2>3
<1>19. ASSUME Cleaned(w) PROVE Goal
  <2>1. /\ Authorize(job[w].id, CleanedBy(w)) /\ Finish(w) /\ UNCHANGED orphaned
        /\ job[w].op = "exact" /\ job[w].id \in Ids
    BY <1>19, <1>a DEF Cleaned, At, history, Cleans
  <2>2. CleanedBy(w).phase = "Cleaned" BY JobTypes DEF CleanedBy, In, AuthorityType
  <2>3. authority'[job[w].id].phase # "Cleaning" /\ Same
    BY <2>1, <2>2 DEF Authorize, Variables
  <2> QED BY <2>1, <2>3, CleaningEnds
<1>20. ASSUME Cancel(w) PROVE Goal
  <2>1. /\ UNCHANGED authority /\ Finish(w)
        /\ orphaned' = orphaned \cup {i \in Ids : i = job[w].id /\ authority[i].phase = "Cleaning"}
    BY <1>20 DEF Cancel, memory
  <2>2. Left BY <1>a, <2>1 DEF Cleans
  <2> QED BY <2>1, <2>2, CleaningEnds
<1>b. Goal
  BY <1>1, <1>2, <1>3, <1>4, <1>5, <1>6, <1>7, <1>8, <1>9, <1>10, <1>11, <1>12, <1>13,
     <1>14, <1>15, <1>16, <1>17, <1>18, <1>19, <1>20
  DEF Step
<1> HIDE DEF Goal
<1> QED BY <1>a, <1>b, CleaningStep DEF Goal

LEMMA RequestKeepsCleaning ==
    ASSUME Variables, Control, CleaningInv, NEW w \in Workers, Request(w)
    PROVE  CleaningInv'
<1> USE DEF Steps, CreateSteps, ExactSteps
<1>a. Moves(w) /\ At(w)' BY RequestMoves
<1>b. pc[w] = "idle" /\ job[w].op = "none" /\ UNCHANGED orphaned
  <2>1. pc[w] = "idle" BY DEF Request, Create, Delete, Exact, Adopt, Ask
  <2>2. job[w].op = "none" BY <2>1 DEF Control, At, NoJob
  <2>3. UNCHANGED orphaned BY DEF Request, Create, Delete, Exact, Adopt, history
  <2> QED BY <2>1, <2>2, <2>3
<1>1. ASSUME Create(w) \/ Delete(w) \/ Adopt(w)
      PROVE  CleaningInv'
  <2>1. UNCHANGED authority BY <1>1 DEF Create, Delete, Adopt, memory
  <2>2. \E x \in {"bind", "remove", "attach"} : Goto(w, x)
    BY <1>1 DEF Create, Delete, Adopt, Ask
  <2>3. pc'[w] \in {"bind", "remove", "attach"} BY <2>2, WentTo, Processes
  <2>4. job'[w].op # "exact" BY <1>a, <2>3 DEF At
  <2>5. Cleans(w)' /\ Binds(w)' BY <2>3, <2>4 DEF Cleans, Binds
  <2> QED BY <1>a, <1>b, <2>1, <2>5, CleaningStep
<1>2. CASE Exact(w)
  <2>1. PICK i \in Ids, kill \in BOOLEAN :
           /\ authority[i].phase = "Active" /\ lock = "none"
           /\ Ask(w, [op |-> "exact", kill |-> kill, id |-> i, handle |-> handles[i],
                      target |-> authority[i]], "mark")
           /\ Authorize(i, In("Cleaning", authority[i]))
    BY <1>2 DEF Exact, TakeLock
  <2>2. /\ job'[w] = [op |-> "exact", kill |-> kill, id |-> i, handle |-> handles[i],
                      target |-> authority[i]]
        /\ Goto(w, "mark")
    BY <2>1 DEF Ask, Variables
  <2>3. pc'[w] = "mark" BY <2>2, WentTo, Processes
  <2>4. /\ authority'[i] = In("Cleaning", authority[i])
        /\ \A k \in Ids \ {i} : authority'[k] = authority[k]
    BY <2>1 DEF Authorize, Variables
  <2>5. Cleans(w)' /\ Binds(w)' BY <2>1, <2>2, <2>3, <2>4 DEF Cleans, Binds, In
  <2>6. ASSUME NEW v \in Workers PROVE Cleans(v)' /\ Binds(v)'
    <3>1. CASE v = w BY <2>5, <3>1
    <3>2. CASE v # w
      <4>1. pc'[v] = pc[v] /\ job'[v] = job[v] /\ Binds(v)
        BY <1>a, <3>2, Processes DEF Moves, CleaningInv
      <4>2. job[v].op # "exact" BY <2>1, <3>2, ExactAlone
      <4> QED BY <4>1, <4>2 DEF Cleans, Binds
    <3> QED BY <3>1, <3>2
  <2>7. ASSUME NEW k \in Ids, k \notin orphaned', authority'[k].phase = "Cleaning"
        PROVE  \E v \in Workers : pc'[v] # "idle" /\ job'[v].op = "exact" /\ job'[v].id = k
    <3>1. CASE k = i BY <2>2, <2>3, <3>1
    <3>2. CASE k # i
      <4>1. authority'[k] = authority[k] /\ k \notin orphaned BY <1>b, <2>4, <2>7, <3>2
      <4>2. PICK v \in Workers : pc[v] # "idle" /\ job[v].op = "exact" /\ job[v].id = k
        BY <2>7, <4>1 DEF CleaningInv, CleaningHasOwner
      <4>3. v # w BY <1>b, <4>2
      <4>4. pc'[v] = pc[v] /\ job'[v] = job[v] BY <1>a, <4>3, Processes DEF Moves
      <4> QED BY <4>2, <4>4
    <3> QED BY <3>1, <3>2
  <2>8. CleaningHasOwner' BY <2>7 DEF CleaningHasOwner
  <2> QED BY <2>6, <2>8 DEF CleaningInv
<1> QED BY <1>1, <1>2 DEF Request

\* What no request does, it does to no request.
LEMMA OthersAct ==
    ASSUME Variables,
           \/ TmuxNew \/ TmuxEnds \/ Checkpoint \/ Load \/ List \/ Discover \/ ReapStep
           \/ \E p \in Procs : WaitToWrite(p)
           \/ UNCHANGED vars
    PROVE  UNCHANGED <<job, orphaned>> /\ \A w \in Workers : pc'[w] = pc[w]
<1> USE DEF history
<1>1. ASSUME TmuxNew \/ TmuxEnds \/ Checkpoint \/ Load \/ AttachNext
             \/ (\E p \in Procs : WaitToWrite(p)) \/ UNCHANGED vars
      PROVE  UNCHANGED <<job, orphaned, pc>>
  BY <1>1 DEF TmuxNew, TmuxEnds, Checkpoint, Load, LoadRead, LoadAssign, AttachNext, WaitToWrite, vars
<1>2. ASSUME List \/ Plan \/ Reconcile \/ RemoveMissing \/ FinishCollect \/ FinishCommit \/ ReapStep
      PROVE  /\ UNCHANGED <<job, orphaned>>
             /\ \E q \in {"discovery", "reaper"}, x \in Steps : Goto(q, x)
  BY <1>2 DEF List, Plan, Reconcile, RemoveMissing, FinishCollect, FinishCommit, ReapStep,
              CollectExited, Reap, Steps
<1>3. ASSUME NEW q \in {"discovery", "reaper"}, NEW x \in Steps, Goto(q, x)
      PROVE  \A w \in Workers : pc'[w] = pc[w]
  <2>1. q \in Procs /\ q \notin Workers BY Processes
  <2>2. \A r \in Procs \ {q} : pc'[r] = pc[r] BY <1>3, <2>1, WentTo
  <2> QED BY <2>1, <2>2, Processes
<1>4. CASE TmuxNew \/ TmuxEnds \/ Checkpoint \/ Load \/ AttachNext
           \/ (\E p \in Procs : WaitToWrite(p)) \/ UNCHANGED vars
  BY <1>1, <1>4
<1>5. CASE List \/ Plan \/ Reconcile \/ RemoveMissing \/ FinishCollect \/ FinishCommit \/ ReapStep
  BY <1>2, <1>3, <1>5
<1> QED BY <1>4, <1>5 DEF Discover

LEMMA RecoveredIsSettled ==
    ASSUME NEW rs \in [Ids -> AuthorityType], NEW i \in Ids
    PROVE  Recovered(rs)[i].phase # "Cleaning"
BY DEF Recovered, In, AuthorityType

LEMMA NextKeepsCleaning ==
    ASSUME Variables, Control, CleaningInv, [Next]_vars PROVE CleaningInv'
<1>1. ASSUME NEW w \in Workers, Request(w) \/ Step(w) \/ Cancel(w) PROVE CleaningInv'
  BY <1>1, RequestKeepsCleaning, StepKeepsCleaning
<1>2. ASSUME UNCHANGED <<job, orphaned>>, \A w \in Workers : pc'[w] = pc[w],
             \/ UNCHANGED authority
             \/ \A i \in Ids : authority'[i].phase # "Cleaning"
      PROVE  CleaningInv'
  <2>1. ASSUME NEW w \in Workers PROVE Cleans(w)' /\ Binds(w)'
    BY <1>2 DEF CleaningInv, Cleans, Binds, In
  <2>2. CleaningHasOwner' BY <1>2 DEF CleaningInv, CleaningHasOwner
  <2> QED BY <2>1, <2>2 DEF CleaningInv
<1>3. CASE \/ TmuxNew \/ TmuxEnds \/ Checkpoint \/ LoadRead \/ List \/ Discover \/ ReapStep
           \/ (\E p \in Procs : WaitToWrite(p)) \/ UNCHANGED vars
  <2>1. UNCHANGED authority
    BY <1>3 DEF TmuxNew, TmuxEnds, Checkpoint, LoadRead, List, Discover, Plan, AttachNext, Reconcile,
       RemoveMissing, FinishCollect, FinishCommit, ReapStep, CollectExited, Reap, WaitToWrite, vars,
       memory
  <2>2. UNCHANGED <<job, orphaned>> /\ \A w \in Workers : pc'[w] = pc[w]
    BY <1>3, OthersAct DEF Load
  <2> QED BY <1>2, <2>1, <2>2
<1>4. CASE LoadAssign
  <2>1. \A i \in Ids : authority'[i].phase # "Cleaning"
    BY <1>4, RecoveredIsSettled DEF LoadAssign, Variables
  <2>2. UNCHANGED <<job, orphaned>> /\ \A w \in Workers : pc'[w] = pc[w]
    BY <1>4, OthersAct DEF Load
  <2> QED BY <1>2, <2>1, <2>2
<1>5. CASE Crash
  <2>1. /\ authority' = Recovered(records) \/ authority' = [i \in Ids |-> NoAuthority]
        /\ pc' = [p \in Procs |-> "idle"] /\ job' = [w \in Workers |-> NoJob]
    BY <1>5 DEF Crash
  <2>2. \A i \in Ids : authority'[i].phase # "Cleaning"
    BY <2>1, RecoveredIsSettled DEF Variables, NoAuthority
  <2>3. \A w \in Workers : pc'[w] = "idle" /\ job'[w].op = "none"
    BY <2>1, Processes DEF NoJob
  <2> QED BY <2>2, <2>3 DEF CleaningInv, Cleans, Binds, CleaningHasOwner
<1> QED BY <1>1, <1>3, <1>4, <1>5 DEF Next, Load

LEMMA InitCleaning == Init => CleaningInv
<1> SUFFICES ASSUME Init PROVE CleaningInv OBVIOUS
<1>1. \A w \in Workers : pc[w] = "idle" /\ job[w].op = "none" BY Processes DEF Init, NoJob
<1>2. \A i \in Ids : authority[i].phase # "Cleaning" BY DEF Init, NoAuthority
<1> QED BY <1>1, <1>2 DEF CleaningInv, Cleans, Binds, CleaningHasOwner

(* Every way out of delete_exact_session settles the phase: only a request  *)
(* that was cancelled, or whose receipt could not be written, leaves one at *)
(* Cleaning, for any number of requests and ids.                            *)
THEOREM CleaningIsOwned == Spec => []CleaningHasOwner
<1> DEFINE Inv == Variables /\ Control /\ CleaningInv
<1>1. Init => Inv BY InitVariables, InitCleaning
<1>2. Inv /\ [Next]_vars => Inv' BY NextVariables, NextKeepsCleaning
<1>3. Inv => CleaningHasOwner BY DEF CleaningInv
<1> QED BY <1>1, <1>2, <1>3, PTL DEF Spec

-----------------------------------------------------------------------------
(* The kill of an exact cleanup. *)

(* The kill of an exact cleanup hits the authorized incarnation, or a       *)
(* session of another tmux server.                                          *)
THEOREM KillsAreExact == Spec => KillIsExact
<1> DEFINE Exactly == \A w \in Workers : pc[w] = "exactKill" /\ pc'[w] # "exactKill" =>
          \A n \in Names : tmux'[n] # tmux[n] =>
              tmux[n] = job[w].target.inc \/ tmux[n].server # job[w].target.inc.server
<1>1. Variables /\ Control /\ [Next]_vars => [Exactly]_vars
  <2> SUFFICES ASSUME Variables, Control, [Next]_vars,
                      NEW w \in Workers, pc[w] = "exactKill", pc'[w] # "exactKill",
                      NEW n \in Names, tmux'[n] # tmux[n]
               PROVE  tmux[n] = job[w].target.inc \/ tmux[n].server # job[w].target.inc.server
    OBVIOUS
  <2>1. Step(w) \/ Cancel(w) \/ Crash
    <3>1. ASSUME NEW v \in Workers, v # w, Request(v) \/ Step(v) \/ Cancel(v) PROVE FALSE
      BY <3>1, RequestMoves, StepMoves, Processes DEF Moves
    <3>2. ASSUME Request(w) PROVE FALSE
      BY <3>2 DEF Request, Create, Delete, Exact, Adopt, Ask
    <3> QED BY <3>1, <3>2, OthersAct DEF Next
  <2>2. ExactKill(w)
    BY <2>1 DEF Cancel, Crash, tmuxVars, Step, Bind, Insert, Confirm, Rollback, Forget, Unlaunch,
       Remove, Kill, Reinsert, Mark, Query, Restore, Remark, Receipt, Cleaned, Attach, Snap, Save
  <2>3. tmux[n].number = job[w].target.inc.number
    BY <2>2 DEF ExactKill, Killed, KillFails, Numbered, Variables
  <2>4. tmux[n] \in Inc /\ job[w].target.inc \in Inc
    BY JobTypes DEF Variables, AuthorityType
  <2> QED BY <2>3, <2>4 DEF Inc, Incarnations
<1>2. Spec => [](Variables /\ Control) BY RegistryControl
<1> QED BY <1>1, <1>2, PTL DEF Spec, KillIsExact

-----------------------------------------------------------------------------
(* Incarnations are made in order, and each is made once. *)

Before(x) == x.server < made.server \/ (x.server = made.server /\ x.number < made.number)
OldHandle(h) == h.inc = Gone \/ (h.name \in Names /\ Before(h.inc))

Known ==
    /\ \A n \in Names : tmux[n] = Gone \/ Before(tmux[n])
    /\ \A i \in Ids : OldHandle(handles[i])
    /\ \A w \in Workers : OldHandle(job[w].handle)

\* Only TmuxNew and Create make a session; the others may end some.
LEMMA TmuxMoves ==
    ASSUME Variables, [Next]_vars
    PROVE  \/ \E n \in Names : MakeTmux(n)
           \/ UNCHANGED made /\ \A n \in Names : tmux'[n] \in {tmux[n], Gone}
<1> DEFINE Goal == \/ \E n \in Names : MakeTmux(n)
                   \/ UNCHANGED made /\ \A n \in Names : tmux'[n] \in {tmux[n], Gone}
<1>1. ASSUME NEW w \in Workers, Request(w) PROVE Goal
  BY <1>1 DEF Request, Create, Delete, Exact, Adopt, tmuxVars
<1>2. ASSUME NEW w \in Workers, Step(w) \/ Cancel(w) PROVE Goal
  <2>1. UNCHANGED made /\ (UNCHANGED tmux \/ \E T : Killed(T))
    BY <1>2 DEF Step, Bind, Insert, Confirm, Rollback, Forget, Unlaunch, Remove, Kill, Reinsert,
       Mark, Query, ExactKill, Restore, Remark, Receipt, Cleaned, Attach, Snap, Save, Cancel,
       tmuxVars, KillFails
  <2> QED BY <2>1 DEF Killed, Variables
<1>3. CASE TmuxNew \/ TmuxEnds
  BY <1>3 DEF TmuxNew, TmuxEnds, Killed, Variables
<1>4. CASE \/ Crash \/ Checkpoint \/ Load \/ List \/ Discover \/ ReapStep
           \/ (\E p \in Procs : WaitToWrite(p)) \/ UNCHANGED vars
  <2>1. UNCHANGED tmuxVars
    BY <1>4 DEF Crash, Checkpoint, Load, LoadRead, LoadAssign, List, Discover, Plan, AttachNext,
       Reconcile, RemoveMissing, FinishCollect, FinishCommit, ReapStep, CollectExited, Reap,
       WaitToWrite, vars
  <2> QED BY <2>1 DEF tmuxVars
<1> QED BY <1>1, <1>2, <1>3, <1>4 DEF Next

LEMMA Later ==
    ASSUME Variables, [Next]_vars, \A n \in Names : tmux[n] = Gone \/ Before(tmux[n])
    PROVE  /\ \A n \in Names : tmux'[n] = Gone \/ Before(tmux[n])'
           /\ \A x \in Inc : Before(x) =>
                Before(x)' /\ \A n \in Names : tmux'[n] = x => tmux[n] = x \/ x = Gone
<1>1. CASE UNCHANGED made /\ \A n \in Names : tmux'[n] \in {tmux[n], Gone}
  BY <1>1 DEF Before
<1>2. CASE \E n \in Names : MakeTmux(n)
  <2>1. PICK n \in Names : MakeTmux(n) BY <1>2
  <2>a. made.server \in Nat /\ made.number \in Nat BY DEF Variables, MadeType
  <2>2. PICK inc \in Inc : /\ \/ inc.server = made.server /\ inc.number = made.number
                              \/ inc.server = made.server + 1 /\ inc.number = 0
                           /\ tmux' = [tmux EXCEPT ![n] = inc]
                           /\ made'.server = inc.server /\ made'.number = inc.number + 1
    <3>1. PICK restart \in BOOLEAN :
             LET inc == [server |-> made.server + (IF restart THEN 1 ELSE 0),
                         number |-> IF restart THEN 0 ELSE made.number]
             IN /\ tmux' = [tmux EXCEPT ![n] = inc]
                /\ made' = [count |-> made.count + 1, server |-> inc.server,
                            number |-> inc.number + 1]
      BY <2>1 DEF MakeTmux
    <3> DEFINE inc == [server |-> made.server + (IF restart THEN 1 ELSE 0),
                       number |-> IF restart THEN 0 ELSE made.number]
    <3>2. \/ inc.server = made.server /\ inc.number = made.number
          \/ inc.server = made.server + 1 /\ inc.number = 0
      BY <2>a
    <3>3. /\ tmux' = [tmux EXCEPT ![n] = inc]
          /\ made'.server = inc.server /\ made'.number = inc.number + 1
      BY <3>1
    <3> HIDE DEF inc
    <3>4. inc \in Inc BY <2>1, <3>3, MakeTmuxTypes DEF Variables
    <3> QED BY <3>2, <3>3, <3>4
  <2>3. ASSUME NEW x \in Inc, Before(x) PROVE Before(x)' /\ x # inc
    <3>1. /\ x.server \in Nat /\ x.number \in Nat /\ inc.server \in Nat /\ inc.number \in Nat
      BY <2>2, Numbers
    <3>2. Before(x)' <=> \/ x.server < inc.server
                         \/ x.server = inc.server /\ x.number < inc.number + 1
      BY <2>2 DEF Before
    <3>3. x.server < inc.server \/ (x.server = inc.server /\ x.number < inc.number)
      BY <2>a, <2>2, <2>3, <3>1 DEF Before
    <3>4. Before(x)' BY <3>1, <3>2, <3>3
    <3>5. x # inc BY <3>1, <3>3
    <3> QED BY <3>4, <3>5
  <2>4. Before(inc)' BY <2>2, Numbers DEF Before
  <2>5. /\ tmux'[n] = inc /\ \A m \in Names \ {n} : tmux'[m] = tmux[m]
        /\ \A m \in Names : tmux[m] \in Inc
    BY <2>2 DEF Variables
  <2>6. ASSUME NEW m \in Names PROVE tmux'[m] = Gone \/ Before(tmux[m])'
    <3>1. CASE m = n BY <2>4, <2>5, <3>1 DEF Before
    <3>2. CASE m # n
      <4>1. tmux'[m] = tmux[m] /\ tmux[m] \in Inc BY <2>5, <3>2
      <4>2. PICK x \in Inc : x = tmux[m] BY <4>1
      <4>3. x = Gone \/ Before(x)' BY <2>3, <4>2
      <4> QED BY <4>1, <4>2, <4>3 DEF Before
    <3> QED BY <3>1, <3>2
  <2>7. ASSUME NEW x \in Inc, Before(x)
        PROVE  Before(x)' /\ \A m \in Names : tmux'[m] = x => tmux[m] = x \/ x = Gone
    BY <2>3, <2>5, <2>7
  <2> QED BY <2>6, <2>7
<1> QED BY <1>1, <1>2, TmuxMoves

LEMMA OldHandleStays ==
    ASSUME Variables, Known, [Next]_vars, NEW h \in HandleType, OldHandle(h)
    PROVE  OldHandle(h)' /\ (Attached(h)' => Attached(h))
<1>1. h.inc \in Inc BY DEF HandleType
<1>2. CASE h.inc = Gone
  <2>1. OldHandle(h)' BY <1>2 DEF OldHandle
  <2>2. ~ Attached(h)' BY <1>2 DEF Attached
  <2> QED BY <2>1, <2>2
<1>3. CASE h.inc # Gone
  <2>1. h.name \in Names /\ Before(h.inc) BY <1>3 DEF OldHandle
  <2>2. PICK x \in Inc : x = h.inc BY <1>1
  <2>3. Before(x)' /\ \A n \in Names : tmux'[n] = x => tmux[n] = x \/ x = Gone
    BY <2>1, <2>2, Later DEF Known
  <2>4. Before(h.inc)' BY <2>2, <2>3
  <2> QED BY <1>3, <2>1, <2>2, <2>3, <2>4 DEF OldHandle, Attached
<1> QED BY <1>2, <1>3

\* What becomes of the locals of a request.
LEMMA JobsMove ==
    ASSUME Variables, Control, [Next]_vars, NEW w \in Workers
    PROVE  \/ job'[w].op = job[w].op /\ job'[w].id = job[w].id /\ job'[w].handle = job[w].handle
           \/ job'[w] = NoJob
           \/ /\ job[w].op = "delete" /\ job'[w].op = "delete" /\ job[w].id \in Ids
              /\ job'[w].handle = handles[job[w].id]
           \/ job'[w].op = "delete" /\ job'[w].handle = NoHandle
           \/ /\ job'[w].op = "exact" /\ job'[w].id \in Ids /\ Exact(w)
              /\ job'[w].handle = handles[job'[w].id]
           \/ /\ job'[w].op = "create" /\ Create(w)
              /\ \E n \in Names : MakeTmux(n) /\ job'[w].handle = [name |-> n, inc |-> tmux'[n]]
           \/ job'[w].op = "adopt" /\ job'[w].handle.inc = Gone
<1> DEFINE Goal ==
           \/ job'[w].op = job[w].op /\ job'[w].id = job[w].id /\ job'[w].handle = job[w].handle
           \/ job'[w] = NoJob
           \/ /\ job[w].op = "delete" /\ job'[w].op = "delete" /\ job[w].id \in Ids
              /\ job'[w].handle = handles[job[w].id]
           \/ job'[w].op = "delete" /\ job'[w].handle = NoHandle
           \/ /\ job'[w].op = "exact" /\ job'[w].id \in Ids /\ Exact(w)
              /\ job'[w].handle = handles[job'[w].id]
           \/ /\ job'[w].op = "create" /\ Create(w)
              /\ \E n \in Names : MakeTmux(n) /\ job'[w].handle = [name |-> n, inc |-> tmux'[n]]
           \/ job'[w].op = "adopt" /\ job'[w].handle.inc = Gone
<1>1. ASSUME job'[w] = job[w] PROVE Goal BY <1>1
<1>2. ASSUME NEW v \in Workers, v # w, Request(v) \/ Step(v) \/ Cancel(v) PROVE Goal
  BY <1>1, <1>2, RequestMoves, StepMoves DEF Moves
<1>3. CASE Crash BY <1>3 DEF Crash
<1>4. CASE \/ TmuxNew \/ TmuxEnds \/ Checkpoint \/ Load \/ List \/ Discover \/ ReapStep
           \/ (\E p \in Procs : WaitToWrite(p)) \/ UNCHANGED vars
  BY <1>1, <1>4, OthersAct
<1>5. ASSUME Finish(w) PROVE Goal BY <1>5, Finished
<1>6. CASE Bind(w)
  <2>1. \/ UNCHANGED job
        \/ job' = [job EXCEPT ![w].target =
                     [phase |-> "Active", name |-> job[w].handle.name,
                      inc |-> tmux[job[w].handle.name], alive |-> FALSE]]
    BY <1>6 DEF Bind
  <2>2. job[w].op = job'[w].op /\ job[w].id = job'[w].id /\ job[w].handle = job'[w].handle
    BY <2>1 DEF Variables, JobType
  <2> QED BY <2>2
<1>7. CASE Remove(w)
  <2>1. CASE Finish(w) BY <1>5, <2>1
  <2>2. CASE ~ Finish(w)
    <3>1. job' = [job EXCEPT ![w].handle = handles[job[w].id]] /\ job[w].id \in Ids
      BY <1>7, <2>2 DEF Remove, Tracked
    <3>2. job[w].op = "delete" BY <1>7 DEF Remove, Control, At
    <3>3. job'[w].op = job[w].op /\ job'[w].handle = handles[job[w].id]
      BY <3>1 DEF Variables, JobType
    <3> QED BY <3>1, <3>2, <3>3
  <2> QED BY <2>1, <2>2
<1>8. CASE Step(w) \/ Cancel(w)
  <2>1. CASE Bind(w) \/ Remove(w) BY <1>6, <1>7, <2>1
  <2>2. CASE ~ (Bind(w) \/ Remove(w))
    <3>1. UNCHANGED job \/ Finish(w)
      BY <1>8, <2>2 DEF Step, Insert, Confirm, Rollback, Forget, Unlaunch, Kill, Reinsert,
         Mark, Query, ExactKill, Restore, Remark, Receipt, Cleaned, Attach, Snap, Save, Return, Cancel
    <3> QED BY <1>1, <1>5, <3>1
  <2> QED BY <2>1, <2>2
<1>9. CASE Create(w)
  <2>1. PICK n \in Names : /\ MakeTmux(n)
                           /\ job' = [job EXCEPT ![w] = [NoJob EXCEPT !.op = "create",
                                  !.id = Min(FreshIds), !.handle = [name |-> n, inc |-> tmux'[n]]]]
    BY <1>9 DEF Create, Ask
  <2>2. job'[w].op = "create" /\ job'[w].handle = [name |-> n, inc |-> tmux'[n]]
    BY <2>1 DEF Variables, NoJob
  <2> QED BY <1>9, <2>1, <2>2
<1>10. CASE Delete(w)
  <2>1. PICK i \in Ids, kill \in BOOLEAN :
           job' = [job EXCEPT ![w] = [NoJob EXCEPT !.op = "delete", !.kill = kill, !.id = i]]
    BY <1>10 DEF Delete, Ask, Tracked
  <2>2. job'[w].op = "delete" /\ job'[w].handle = NoHandle BY <2>1 DEF Variables, NoJob
  <2> QED BY <2>2
<1>11. CASE Exact(w)
  <2>1. PICK i \in Ids, kill \in BOOLEAN :
           job' = [job EXCEPT ![w] = [op |-> "exact", kill |-> kill, id |-> i,
                                      handle |-> handles[i], target |-> authority[i]]]
    BY <1>11 DEF Exact, Ask
  <2>2. job'[w].op = "exact" /\ job'[w].id = i /\ job'[w].handle = handles[i]
    BY <2>1 DEF Variables
  <2> QED BY <1>11, <2>2
<1>12. CASE Adopt(w)
  <2>1. PICK n \in Names, i \in Ids :
           job' = [job EXCEPT ![w] = [NoJob EXCEPT !.op = "adopt", !.id = i, !.handle.name = n]]
    BY <1>12 DEF Adopt, Ask
  <2>2. job'[w].op = "adopt" /\ job'[w].handle.inc = Gone
    BY <2>1 DEF Variables, NoJob, NoHandle
  <2> QED BY <2>2
<1>13. CASE \E v \in Workers : Request(v) \/ Step(v) \/ Cancel(v)
  BY <1>2, <1>8, <1>9, <1>10, <1>11, <1>12, <1>13 DEF Request
<1> QED BY <1>3, <1>4, <1>13 DEF Next

\* Who gets a handle.  The first disjunct takes some away; no other one is a step of tmux.
LEMMA HandlesMove ==
    ASSUME Variables, Control, [Next]_vars
    PROVE  \/ \A i \in Ids : handles'[i] \in {handles[i], NoHandle}
           \/ /\ UNCHANGED tmuxVars
              /\ \E w \in Workers :
                    /\ \/ pc[w] = "insert"
                       \/ pc[w] = "reinsert" /\ job[w].handle \in botched'
                       \/ job[w].op = "exact"
                    /\ SetHandle(job[w].id, job[w].handle)
           \/ /\ UNCHANGED tmuxVars
              /\ \E n \in Names :
                    /\ Named(n) = {} /\ \E i : SetHandle(i, [name |-> n, inc |-> tmux[n]])
                    /\ \/ pc["discovery"] = "attach" /\ n \in listed
                       \/ \E w \in Workers : pc[w] = "attach"
<1> DEFINE Less == \A i \in Ids : handles'[i] \in {handles[i], NoHandle}
           Back == /\ UNCHANGED tmuxVars
                   /\ \E w \in Workers :
                    /\ \/ pc[w] = "insert"
                       \/ pc[w] = "reinsert" /\ job[w].handle \in botched'
                       \/ job[w].op = "exact"
                    /\ SetHandle(job[w].id, job[w].handle)
           Anew == /\ UNCHANGED tmuxVars
                   /\ \E n \in Names :
                    /\ Named(n) = {} /\ \E i : SetHandle(i, [name |-> n, inc |-> tmux[n]])
                    /\ \/ pc["discovery"] = "attach" /\ n \in listed
                       \/ \E w \in Workers : pc[w] = "attach"
<1>1. ASSUME UNCHANGED handles PROVE Less BY <1>1
<1>2. ASSUME NEW i, SetHandle(i, NoHandle) PROVE Less BY <1>2 DEF SetHandle, Variables
<1>3. ASSUME NEW w \in Workers, Request(w) PROVE Less
  <2>1. UNCHANGED handles \/ \E i : SetHandle(i, NoHandle)
    BY <1>3 DEF Request, Create, Delete, Exact, Adopt, memory
  <2> QED BY <1>1, <1>2, <2>1
<1>4. ASSUME NEW w \in Workers, Step(w) \/ Cancel(w) PROVE Less \/ Back \/ Anew
  <2>1. CASE Insert(w) BY <2>1 DEF Insert
  <2>2. CASE Reinsert(w) BY <2>2 DEF Reinsert
  <2>3. CASE Restore(w)
    <3>1. job[w].op = "exact" BY <2>3 DEF Restore, Control, At, ExactSteps
    <3>2. UNCHANGED tmuxVars /\ (UNCHANGED handles \/ SetHandle(job[w].id, job[w].handle))
      BY <2>3 DEF Restore
    <3> QED BY <1>1, <3>1, <3>2
  <2>4. CASE Attach(w)
    <3>1. UNCHANGED tmuxVars /\ pc[w] = "attach" BY <2>4 DEF Attach
    <3>2. job[w].handle.name \in Names BY <3>1 DEF Control, At
    <3>3. \/ UNCHANGED handles
          \/ /\ SetHandle(job[w].id, [name |-> job[w].handle.name, inc |-> tmux[job[w].handle.name]])
             /\ Named(job[w].handle.name) = {}
      BY <2>4 DEF Attach
    <3> QED BY <1>1, <3>1, <3>2, <3>3
  <2>5. CASE ~ (Insert(w) \/ Reinsert(w) \/ Restore(w) \/ Attach(w))
    <3>1. UNCHANGED handles \/ SetHandle(job[w].id, NoHandle)
      BY <1>4, <2>5 DEF Step, Bind, Confirm, Rollback, Forget, Unlaunch, Remove, Kill,
         Mark, Query, ExactKill, Remark, Receipt, Cleaned, Snap, Save, Cancel, memory
    <3> QED BY <1>1, <1>2, <3>1
  <2> QED BY <2>1, <2>2, <2>3, <2>4, <2>5
<1>5. CASE \/ TmuxNew \/ TmuxEnds \/ Checkpoint \/ Load \/ List \/ Plan \/ Reconcile
           \/ FinishCollect \/ FinishCommit \/ CollectExited
           \/ (\E p \in Procs : WaitToWrite(p)) \/ UNCHANGED vars
  <2>1. UNCHANGED handles
    BY <1>5 DEF TmuxNew, TmuxEnds, Checkpoint, Load, LoadRead, LoadAssign, List, Plan,
       Reconcile, FinishCollect, FinishCommit, CollectExited, WaitToWrite, vars, memory
  <2> QED BY <1>1, <2>1
<1>6. CASE Crash \/ RemoveMissing \/ Reap
  BY <1>6 DEF Crash, RemoveMissing, Reap
<1>7. CASE AttachNext
  <2>1. PICK c \in todo :
           \/ UNCHANGED handles
           \/ Named(c.name) = {} /\ \E i : SetHandle(i, [name |-> c.name, inc |-> tmux[c.name]])
    BY <1>7 DEF AttachNext
  <2>2. UNCHANGED tmuxVars /\ pc["discovery"] = "attach" BY <1>7 DEF AttachNext
  <2>3. c.name \in listed /\ c.name \in Names BY DEF Variables
  <2> QED BY <1>1, <2>1, <2>2, <2>3
<1> QED BY <1>3, <1>4, <1>5, <1>6, <1>7 DEF Next, Discover, ReapStep

LEMMA HandleWas ==
    ASSUME Variables, Control, Known, [Next]_vars, NEW i \in Ids
    PROVE  \E h \in HandleType : OldHandle(h) /\ handles'[i] = h
<1>1. CASE handles'[i] \in {handles[i], NoHandle}
  <2>1. OldHandle(NoHandle) BY DEF OldHandle, NoHandle
  <2>2. OldHandle(handles[i]) /\ handles[i] \in HandleType BY DEF Known, Variables
  <2> QED BY <1>1, <2>1, <2>2, Nothing
<1>2. ASSUME NEW h \in HandleType, OldHandle(h), NEW j, SetHandle(j, h) PROVE handles'[i] \in {handles[i], h}
  BY <1>2 DEF SetHandle, Variables
<1>3. ASSUME NEW w \in Workers, SetHandle(job[w].id, job[w].handle)
      PROVE  \E h \in HandleType : OldHandle(h) /\ handles'[i] = h
  <2>1. job[w].handle \in HandleType /\ OldHandle(job[w].handle) BY JobTypes DEF Known
  <2>2. OldHandle(handles[i]) /\ handles[i] \in HandleType BY DEF Known, Variables
  <2> QED BY <1>2, <1>3, <2>1, <2>2
<1>4. ASSUME NEW n \in Names, NEW j, SetHandle(j, [name |-> n, inc |-> tmux[n]])
      PROVE  \E h \in HandleType : OldHandle(h) /\ handles'[i] = h
  <2> DEFINE h == [name |-> n, inc |-> tmux[n]]
  <2>1. h \in HandleType BY DEF Variables, HandleType
  <2>2. OldHandle(h) BY DEF OldHandle, Known
  <2>3. SetHandle(j, h) BY <1>4
  <2>4. OldHandle(handles[i]) /\ handles[i] \in HandleType BY DEF Known, Variables
  <2> HIDE DEF h
  <2> QED BY <1>2, <2>1, <2>2, <2>3, <2>4
<1> QED BY <1>1, <1>3, <1>4, HandlesMove

LEMMA NextKnown == ASSUME Variables, Control, Known, [Next]_vars PROVE Known'
<1>1. \A n \in Names : tmux'[n] = Gone \/ Before(tmux[n])' BY Later DEF Known
<1>2. ASSUME NEW i \in Ids PROVE OldHandle(handles[i])'
  <2>1. PICK h \in HandleType : OldHandle(h) /\ handles'[i] = h BY HandleWas
  <2>2. OldHandle(h)' BY <2>1, OldHandleStays
  <2> QED BY <2>1, <2>2 DEF OldHandle, Before
<1>3. ASSUME NEW w \in Workers PROVE OldHandle(job[w].handle)'
  <2>1. ASSUME NEW h \in HandleType, OldHandle(h), job'[w].handle = h PROVE OldHandle(job[w].handle)'
    <3>1. OldHandle(h)' BY <2>1, OldHandleStays
    <3> QED BY <2>1, <3>1 DEF OldHandle, Before
  <2>2. CASE job'[w].handle = job[w].handle
    <3>1. job[w].handle \in HandleType /\ OldHandle(job[w].handle) BY JobTypes DEF Known
    <3> QED BY <2>1, <2>2, <3>1
  <2>3. ASSUME NEW i \in Ids, job'[w].handle = handles[i] PROVE OldHandle(job[w].handle)'
    <3>1. OldHandle(handles[i]) /\ handles[i] \in HandleType BY DEF Known, Variables
    <3> QED BY <2>1, <2>3, <3>1
  <2>4. CASE job'[w].handle.inc = Gone BY <2>4 DEF OldHandle
  <2>5. ASSUME NEW n \in Names, job'[w].handle = [name |-> n, inc |-> tmux'[n]]
        PROVE  OldHandle(job[w].handle)'
    <3>1. tmux'[n] = Gone \/ Before(tmux[n])' BY <1>1
    <3> QED BY <2>5, <3>1 DEF OldHandle, Before
  <2>6. NoHandle.inc = Gone /\ NoJob.handle.inc = Gone BY DEF NoHandle, NoJob
  <2> QED BY <2>2, <2>3, <2>4, <2>5, <2>6, JobsMove
<1> QED BY <1>1, <1>2, <1>3 DEF Known

LEMMA InitKnown == Init => Known
<1> SUFFICES ASSUME Init PROVE Known OBVIOUS
<1>1. PICK n \in Names : LET inc == [server |-> 1, number |-> 0] IN
         /\ tmux = [m \in Names |-> IF m = n THEN inc ELSE Gone]
         /\ handles = [i \in Ids |-> IF i = 1 THEN [name |-> n, inc |-> inc] ELSE NoHandle]
  BY DEF Init
<1>2. Before([server |-> 1, number |-> 0]) BY DEF Init, Before
<1>3. \A w \in Workers : job[w].handle.inc = Gone BY DEF Init, NoJob, NoHandle
<1>4. NoHandle.inc = Gone BY DEF NoHandle
<1>5. \A m \in Names : tmux[m] = Gone \/ Before(tmux[m]) BY <1>1, <1>2
<1>6. \A i \in Ids : OldHandle(handles[i]) BY <1>1, <1>2, <1>4 DEF OldHandle
<1> QED BY <1>3, <1>5, <1>6 DEF Known, OldHandle

-----------------------------------------------------------------------------
(* The discovery and the sessions it does not list: a name that was not     *)
(* listed may get a new session meanwhile, never one that an actor had.     *)

Unlisted == pc["discovery"] \in {"plan", "attach", "removeMissing"} =>
    /\ \A i \in Ids : handles[i].name \in listed \/ ~ Attached(handles[i])
    /\ \A w \in Workers : job[w].op = "delete" =>
          job[w].handle.name \in listed \/ ~ Attached(job[w].handle)

LEMMA ScanMoves ==
    ASSUME Variables, Control, [Next]_vars, pc'["discovery"] \in {"plan", "attach", "removeMissing"}
    PROVE  \/ List
           \/ listed' = listed /\ pc["discovery"] \in {"plan", "attach", "removeMissing"}
<1> USE Processes DEF Steps
<1>1. ASSUME NEW w \in Workers, Request(w) \/ Step(w) \/ Cancel(w)
      PROVE  listed' = listed /\ pc'["discovery"] = pc["discovery"]
  BY <1>1, ScanStays, StepMoves, RequestMoves DEF Moves
<1>2. CASE TmuxNew \/ TmuxEnds \/ Checkpoint \/ Load \/ (\E p \in Procs : WaitToWrite(p)) \/ UNCHANGED vars
  BY <1>2 DEF TmuxNew, TmuxEnds, Checkpoint, Load, LoadRead, LoadAssign, WaitToWrite, vars, scan
<1>3. CASE ReapStep
  <2>1. listed' = listed /\ (Goto("reaper", "reap") \/ Goto("reaper", "idle"))
    BY <1>3 DEF ReapStep, CollectExited, Reap, scan
  <2> QED BY <2>1, WentTo
<1>4. CASE Plan \/ AttachNext \/ Reconcile
  BY <1>4 DEF Plan, AttachNext, Reconcile
<1>5. CASE RemoveMissing \/ FinishCollect \/ FinishCommit \/ Crash
  <2>1. \E x \in {"collect", "commit", "idle"} : pc'["discovery"] = x
    <3>1. CASE Crash BY <3>1 DEF Crash
    <3>2. CASE RemoveMissing \/ FinishCollect \/ FinishCommit
      BY <3>2, WentTo DEF RemoveMissing, FinishCollect, FinishCommit
    <3> QED BY <1>5, <3>1, <3>2
  <2> QED BY <2>1
<1> QED BY <1>1, <1>2, <1>3, <1>4, <1>5 DEF Next, Discover

LEMMA NextUnlisted == ASSUME Variables, Control, Known, Unlisted, [Next]_vars PROVE Unlisted'
<1> SUFFICES ASSUME pc'["discovery"] \in {"plan", "attach", "removeMissing"}
    PROVE  /\ \A i \in Ids : handles'[i].name \in listed' \/ ~ Attached(handles[i])'
           /\ \A w \in Workers : job'[w].op = "delete" =>
                 job'[w].handle.name \in listed' \/ ~ Attached(job[w].handle)'
  BY DEF Unlisted
<1>1. CASE List
  <2>1. /\ listed' = {n \in Names : tmux[n] # Gone} /\ UNCHANGED <<tmux, handles, job>>
    BY <1>1 DEF List, Live, tmuxVars, memory
  <2>2. ASSUME NEW h \in HandleType, OldHandle(h), h.name \notin listed' PROVE ~ Attached(h)'
    BY <2>1, <2>2 DEF Attached, OldHandle
  <2>3. ASSUME NEW i \in Ids PROVE handles'[i].name \in listed' \/ ~ Attached(handles[i])'
    <3>1. PICK h \in HandleType : OldHandle(h) /\ h = handles[i] BY DEF Known, Variables
    <3>2. h.name \in listed' \/ ~ Attached(h)' BY <2>2, <3>1
    <3> QED BY <2>1, <3>1, <3>2 DEF Attached
  <2>4. ASSUME NEW w \in Workers
        PROVE  job'[w].handle.name \in listed' \/ ~ Attached(job[w].handle)'
    <3>1. PICK h \in HandleType : OldHandle(h) /\ h = job[w].handle BY JobTypes DEF Known
    <3>2. h.name \in listed' \/ ~ Attached(h)' BY <2>2, <3>1
    <3> QED BY <2>1, <3>1, <3>2 DEF Attached
  <2> QED BY <2>3, <2>4
<1>2. CASE listed' = listed /\ pc["discovery"] \in {"plan", "attach", "removeMissing"}
  <2> DEFINE Fine(h) == OldHandle(h) /\ (h.name \in listed \/ ~ Attached(h))
  <2>0. lock = "discovery" BY <1>2 DEF Control
  <2>1. ASSUME NEW h \in HandleType, Fine(h) PROVE h.name \in listed' \/ ~ Attached(h)'
    BY <1>2, <2>1, OldHandleStays
  <2>2. \A i \in Ids : Fine(handles[i]) /\ handles[i] \in HandleType
    BY <1>2 DEF Unlisted, Known, Variables
  <2>3. Fine(NoHandle) BY DEF OldHandle, NoHandle, Attached
  <2>4. ASSUME NEW w \in Workers, job[w].op = "delete"
        PROVE  Fine(job[w].handle) /\ job[w].handle \in HandleType
    BY <1>2, <2>4, JobTypes DEF Unlisted, Known
  <2>5. ASSUME NEW w \in Workers
        PROVE  pc[w] \notin {"insert", "attach"} /\ job[w].op # "exact"
    BY <2>0, Processes DEF Control, At
  <2>6. ASSUME NEW h \in HandleType, Fine(h), NEW i \in Ids, handles'[i] = h
        PROVE  handles'[i].name \in listed' \/ ~ Attached(handles[i])'
    <3>1. h.name \in listed' \/ ~ Attached(h)' BY <2>1, <2>6
    <3> HIDE DEF Fine
    <3> QED BY <2>6, <3>1 DEF Attached
  <2>7. ASSUME NEW h \in HandleType, Fine(h), NEW w \in Workers, job'[w].handle = h
        PROVE  job'[w].handle.name \in listed' \/ ~ Attached(job[w].handle)'
    <3>1. h.name \in listed' \/ ~ Attached(h)' BY <2>1, <2>7
    <3> HIDE DEF Fine
    <3> QED BY <2>7, <3>1 DEF Attached
  <2> HIDE DEF Fine
  <2>8. ASSUME NEW i \in Ids PROVE handles'[i].name \in listed' \/ ~ Attached(handles[i])'
    <3>1. ASSUME NEW h \in HandleType, Fine(h), NEW j, SetHandle(j, h)
          PROVE  \E g \in HandleType : Fine(g) /\ handles'[i] = g
      <4>1. handles'[i] \in {handles[i], h} BY <3>1 DEF SetHandle, Variables
      <4> QED BY <2>2, <3>1, <4>1
    <3>2. ASSUME NEW w \in Workers, SetHandle(job[w].id, job[w].handle),
                 pc[w] = "insert" \/ pc[w] = "reinsert" \/ job[w].op = "exact"
          PROVE  \E g \in HandleType : Fine(g) /\ handles'[i] = g
      <4>1. job[w].op = "delete" BY <2>5, <3>2 DEF Control, At
      <4> QED BY <2>4, <3>1, <3>2, <4>1
    <3>3. ASSUME NEW n \in Names, n \in listed, NEW j, SetHandle(j, [name |-> n, inc |-> tmux[n]])
          PROVE  \E g \in HandleType : Fine(g) /\ handles'[i] = g
      <4> DEFINE h == [name |-> n, inc |-> tmux[n]]
      <4>1. h \in HandleType BY DEF Variables, HandleType
      <4>2. Fine(h) BY <3>3 DEF Fine, OldHandle, Known
      <4>3. SetHandle(j, h) BY <3>3
      <4> HIDE DEF h
      <4> QED BY <3>1, <4>1, <4>2, <4>3
    <3>4. ASSUME handles'[i] \in {handles[i], NoHandle}
          PROVE  \E g \in HandleType : Fine(g) /\ handles'[i] = g
      BY <2>2, <2>3, <3>4, Nothing
    <3>5. \E g \in HandleType : Fine(g) /\ handles'[i] = g
      BY <2>5, <3>2, <3>3, <3>4, HandlesMove
    <3> QED BY <2>6, <3>5
  <2>9. ASSUME NEW w \in Workers, job'[w].op = "delete"
        PROVE  job'[w].handle.name \in listed' \/ ~ Attached(job[w].handle)'
    <3>1. \/ job[w].op = "delete" /\ job'[w].handle = job[w].handle
          \/ job'[w].handle = NoHandle
          \/ job[w].id \in Ids /\ job'[w].handle = handles[job[w].id]
      BY <2>9, JobsMove DEF NoJob
    <3>2. \E g \in HandleType : Fine(g) /\ job'[w].handle = g
      BY <2>2, <2>3, <2>4, <3>1, Nothing
    <3> QED BY <2>7, <3>2
  <2> QED BY <2>8, <2>9
<1> QED BY <1>1, <1>2, ScanMoves

(* remove_missing_tracked_handles takes no live actor out of the registry,  *)
(* though the names were listed some awaits before.                         *)
THEOREM ExitedGoMissing == Spec => OnlyExitedGoMissing
<1> DEFINE Inv == Variables /\ Control /\ Known /\ Unlisted
           Spares == pc["discovery"] = "removeMissing" /\ pc'["discovery"] = "collect" =>
                        \A i \in Tracked : handles'[i] # handles[i] => Exited(i)
<1>1. Init => Inv
  <2>1. Init => Unlisted BY Processes DEF Init, Unlisted
  <2> QED BY <2>1, InitVariables, InitKnown
<1>2. Inv /\ [Next]_vars => Inv' BY NextVariables, NextKnown, NextUnlisted
<1>3. Inv /\ [Next]_vars => [Spares]_vars
  <2> SUFFICES ASSUME Inv, [Next]_vars, pc["discovery"] = "removeMissing",
                      pc'["discovery"] = "collect", NEW i \in Tracked, handles'[i] # handles[i]
               PROVE  Exited(i)
    OBVIOUS
  <2> USE Processes
  <2>1. RemoveMissing
    <3>1. ASSUME NEW w \in Workers, Request(w) \/ Step(w) \/ Cancel(w) PROVE FALSE
      BY <3>1, StepMoves, RequestMoves DEF Moves
    <3>2. ASSUME TmuxNew \/ TmuxEnds \/ Checkpoint \/ Load \/ (\E p \in Procs : WaitToWrite(p))
                 \/ UNCHANGED vars \/ Crash
          PROVE FALSE
      BY <3>2 DEF TmuxNew, TmuxEnds, Checkpoint, Load, LoadRead, LoadAssign, WaitToWrite, vars, Crash
    <3>3. ASSUME ReapStep PROVE FALSE
      <4>1. Goto("reaper", "reap") \/ Goto("reaper", "idle")
        BY <3>3 DEF ReapStep, CollectExited, Reap
      <4> QED BY <4>1, WentTo DEF Steps
    <3>4. ASSUME List \/ Plan \/ AttachNext \/ Reconcile \/ FinishCollect \/ FinishCommit PROVE FALSE
      BY <3>4 DEF List, Plan, AttachNext, Reconcile, FinishCollect, FinishCommit
    <3> QED BY <3>1, <3>2, <3>3, <3>4 DEF Next, Discover
  <2>2. handles[i].name \notin listed BY <2>1 DEF RemoveMissing, Tracked
  <2>3. ~ Attached(handles[i]) BY <2>2 DEF Unlisted, Tracked
  <2> QED BY <2>3 DEF Exited
<1> QED BY <1>1, <1>2, <1>3, PTL DEF Spec, OnlyExitedGoMissing

-----------------------------------------------------------------------------
(* One actor per tmux session.  Inductive with it: the handle that a create *)
(* or an exact cleanup holds while it has the lock is not in the registry.  *)

\* A request that has a handle to put, or to put back.
Pends(w) == pc[w] \in {"bind", "insert"} \/ job[w].op = "exact"

Alone ==
    /\ \A i, j \in Ids :
          i # j /\ Attached(handles[i]) /\ handles[i] \notin botched => handles[j] # handles[i]
    /\ \A w \in Workers, i \in Ids :
          /\ Pends(w) /\ i # job[w].id
          /\ Attached(job[w].handle) /\ job[w].handle \notin botched
          => handles[i] # job[w].handle

LEMMA BotchedStays == ASSUME [Next]_vars PROVE botched \subseteq botched'
<1> USE DEF history
<1>1. ASSUME NEW w \in Workers, Request(w) PROVE UNCHANGED botched
  BY <1>1 DEF Request, Create, Delete, Exact, Adopt
<1>2. ASSUME NEW w \in Workers, Reinsert(w) PROVE botched \subseteq botched'
  BY <1>2 DEF Reinsert
<1>3. ASSUME NEW w \in Workers, Step(w) \/ Cancel(w), ~ Reinsert(w) PROVE UNCHANGED botched
  BY <1>3 DEF Step, Bind, Insert, Confirm, Rollback, Forget, Unlaunch, Remove, Kill, Mark, Query,
     ExactKill, Restore, Remark, Receipt, Cleaned, Attach, Snap, Save, Return, Cancel
<1>4. ASSUME \/ TmuxNew \/ TmuxEnds \/ Crash \/ Checkpoint \/ Load \/ List \/ Discover \/ ReapStep
             \/ (\E p \in Procs : WaitToWrite(p)) \/ UNCHANGED vars
      PROVE  UNCHANGED botched
  BY <1>4 DEF TmuxNew, TmuxEnds, Crash, WaitToWrite, Checkpoint, List, Discover, Plan, AttachNext,
     Reconcile, RemoveMissing, FinishCollect, FinishCommit, ReapStep, CollectExited, Reap, Load,
     LoadRead, LoadAssign, vars
<1> QED BY <1>1, <1>2, <1>3, <1>4 DEF Next

LEMMA PendsFrom ==
    ASSUME Variables, Control, [Next]_vars, NEW w \in Workers, pc'[w] \in {"bind", "insert"}
    PROVE  pc[w] \in {"bind", "insert"} \/ Create(w)
<1> USE Processes DEF Steps
<1>1. ASSUME NEW v \in Workers, v # w, Request(v) \/ Step(v) \/ Cancel(v)
      PROVE  pc'[w] = pc[w]
  BY <1>1, StepMoves, RequestMoves DEF Moves
<1>2. CASE Delete(w) \/ Exact(w) \/ Adopt(w)
  <2>1. Goto(w, "remove") \/ Goto(w, "mark") \/ Goto(w, "attach")
    BY <1>2 DEF Delete, Exact, Adopt, Ask
  <2> QED BY <2>1, WentTo DEF CreateSteps, ExactSteps
<1>3. CASE Step(w) \/ Cancel(w)
  <2>1. CASE Bind(w) \/ Insert(w) BY <2>1 DEF Bind, Insert
  <2>2. CASE ~ (Bind(w) \/ Insert(w))
    <3>1. \E x \in Steps \ {"bind", "insert"} : Goto(w, x)
      BY <1>3, <2>2 DEF Step, Confirm, Rollback, Forget, Unlaunch, Remove, Kill, Reinsert, Mark, Query,
         ExactKill, Restore, Remark, Receipt, Cleaned, Attach, Snap, Save, Return, Cancel, Finish,
         CreateSteps, ExactSteps
    <3> QED BY <3>1, WentTo
  <2> QED BY <2>1, <2>2
<1>4. CASE \/ TmuxNew \/ TmuxEnds \/ Checkpoint \/ Load \/ List \/ Discover \/ ReapStep
           \/ (\E p \in Procs : WaitToWrite(p)) \/ UNCHANGED vars
  BY <1>4, OthersAct
<1>5. CASE Crash BY <1>5 DEF Crash
<1> QED BY <1>1, <1>2, <1>3, <1>4, <1>5 DEF Next, Request

LEMMA FreshIncarnation ==
    ASSUME Variables, NEW n \in Names, MakeTmux(n) PROVE ~ Before(tmux'[n])
<1>1. PICK restart \in BOOLEAN :
         tmux' = [tmux EXCEPT ![n] = [server |-> made.server + (IF restart THEN 1 ELSE 0),
                                      number |-> IF restart THEN 0 ELSE made.number]]
  BY DEF MakeTmux
<1>2. tmux'[n].server >= made.server /\ (tmux'[n].server = made.server => tmux'[n].number = made.number)
  BY <1>1 DEF Variables, MadeType
<1>3. /\ made.server \in Nat /\ made.number \in Nat
      /\ tmux'[n].server \in Nat /\ tmux'[n].number \in Nat
  BY MakeTmuxTypes, Numbers DEF Variables, MadeType
<1> QED BY <1>2, <1>3 DEF Before

LEMMA NextAlone == ASSUME Variables, Control, Control', Known, Alone, [Next]_vars PROVE Alone'
<1>1. botched \subseteq botched' BY BotchedStays
<1>2. ASSUME NEW i \in Ids, NEW j \in Ids, i # j, Attached(handles[i]), handles[i] \notin botched'
      PROVE  handles[j] # handles[i]
  BY <1>1, <1>2 DEF Alone
<1>3. ASSUME NEW w \in Workers, NEW i \in Ids, Pends(w), i # job[w].id, Attached(job[w].handle),
             job[w].handle \notin botched'
      PROVE  handles[i] # job[w].handle
  BY <1>1, <1>3 DEF Alone
<1>4. ASSUME NEW h \in HandleType, OldHandle(h), Attached(h)' PROVE Attached(h) /\ h # NoHandle
  <2>1. Attached(h) BY <1>4, OldHandleStays
  <2> QED BY <2>1 DEF Attached
<1>5. ASSUME NEW i \in Ids, NEW j \in Ids, i # j, Attached(handles[i])', handles'[j] = handles'[i],
             handles'[i] \notin botched'
      PROVE  FALSE
  <2>1. PICK h \in HandleType : OldHandle(h) /\ h = handles'[i] BY HandleWas
  <2>2. Attached(h)' BY <1>5, <2>1 DEF Attached
  <2>3. Attached(h) /\ h # NoHandle /\ h \notin botched' BY <1>4, <1>5, <2>1, <2>2
  <2>4. CASE \A k \in Ids : handles'[k] \in {handles[k], NoHandle}
    <3>1. handles[i] = h /\ handles[j] = h BY <1>5, <2>1, <2>3, <2>4
    <3> QED BY <1>2, <1>5, <2>3, <3>1
  <2>5. ASSUME NEW w \in Workers, SetHandle(job[w].id, job[w].handle),
               \/ pc[w] = "insert" \/ job[w].op = "exact"
               \/ job[w].handle \in botched'
        PROVE  FALSE
    <3>1. Pends(w) \/ job[w].handle # h BY <1>5, <2>1, <2>5 DEF Pends
    <3>2. \A k \in Ids : handles'[k] = IF k = job[w].id THEN job[w].handle ELSE handles[k]
      BY <2>5 DEF SetHandle, Variables
    <3>3. CASE i = job[w].id
      <4>1. job[w].handle = h /\ handles[j] = h BY <1>5, <2>1, <3>2, <3>3
      <4> QED BY <1>3, <1>5, <2>3, <3>1, <3>3, <4>1
    <3>4. CASE j = job[w].id
      <4>1. job[w].handle = h /\ handles[i] = h BY <1>5, <2>1, <3>2, <3>4
      <4> QED BY <1>3, <1>5, <2>3, <3>1, <3>4, <4>1
    <3>5. CASE i # job[w].id /\ j # job[w].id
      <4>1. handles[i] = h /\ handles[j] = h BY <1>5, <2>1, <3>2, <3>5
      <4> QED BY <1>2, <1>5, <2>3, <4>1
    <3> QED BY <3>3, <3>4, <3>5
  <2>6. ASSUME NEW n \in Names, Named(n) = {}, NEW k, SetHandle(k, [name |-> n, inc |-> tmux[n]])
        PROVE  FALSE
    <3>1. \A l \in Ids : handles'[l] = IF l = k THEN [name |-> n, inc |-> tmux[n]] ELSE handles[l]
      BY <2>6 DEF SetHandle, Variables
    <3>2. \A l \in Ids : handles[l] # NoHandle => handles[l].name # n
      BY <2>6 DEF Named, Tracked
    <3>3. CASE i = k
      <4>1. h.name = n /\ handles[j] = h BY <1>5, <2>1, <3>1, <3>3
      <4> QED BY <2>3, <3>2, <4>1
    <3>4. CASE j = k
      <4>1. h.name = n /\ handles[i] = h BY <1>5, <2>1, <3>1, <3>4
      <4> QED BY <2>3, <3>2, <4>1
    <3>5. CASE i # k /\ j # k
      <4>1. handles[i] = h /\ handles[j] = h BY <1>5, <2>1, <3>1, <3>5
      <4> QED BY <1>2, <1>5, <2>3, <4>1
    <3> QED BY <3>3, <3>4, <3>5
  <2> QED BY <2>4, <2>5, <2>6, HandlesMove
<1>6. ASSUME NEW w \in Workers, NEW i \in Ids, Pends(w)', i # job'[w].id, Attached(job[w].handle)',
             handles'[i] = job'[w].handle, job'[w].handle \notin botched'
      PROVE  FALSE
  <2>1. PICK h \in HandleType : OldHandle(h) /\ h = handles'[i] BY HandleWas
  <2>2. Attached(h)' BY <1>6, <2>1 DEF Attached
  <2>3. Attached(h) /\ h # NoHandle /\ h.inc # Gone /\ h \notin botched'
    <3>1. Attached(h) /\ h # NoHandle BY <1>4, <2>1, <2>2
    <3> QED BY <1>6, <2>1, <3>1 DEF Attached
  <2>4. pc'[w] \in {"bind", "insert"} => job'[w].op = "create"
    BY DEF Control, At, CreateSteps
  <2>5. CASE Create(w)
    <3>1. UNCHANGED handles BY <2>5 DEF Create
    <3>2. OldHandle(handles[i]) BY DEF Known
    <3>3. Before(h.inc) BY <2>1, <2>3, <3>1, <3>2 DEF OldHandle
    <3>4. PICK n \in Names : MakeTmux(n) /\ job'[w].handle = [name |-> n, inc |-> tmux'[n]]
      <4>1. PICK n \in Names : /\ MakeTmux(n)
                           /\ job' = [job EXCEPT ![w] = [NoJob EXCEPT !.op = "create",
                                  !.id = Min(FreshIds), !.handle = [name |-> n, inc |-> tmux'[n]]]]
        BY <2>5 DEF Create, Ask
      <4>2. job'[w].handle = [name |-> n, inc |-> tmux'[n]] BY <4>1 DEF Variables, NoJob
      <4> QED BY <4>1, <4>2
    <3>5. h.inc = tmux'[n] BY <1>6, <2>1, <3>4
    <3> QED BY <3>3, <3>4, <3>5, FreshIncarnation
  <2>6. ASSUME Exact(w), job'[w].id \in Ids, job'[w].handle = handles[job'[w].id] PROVE FALSE
    <3>1. \E k : SetHandle(k, NoHandle) BY <2>6 DEF Exact
    <3>2. handles'[i] \in {handles[i], NoHandle} BY <3>1 DEF SetHandle, Variables
    <3>3. handles[i] = h BY <2>1, <2>3, <3>2
    <3>4. PICK k \in Ids : k = job'[w].id BY <2>6
    <3>5. handles[k] = h /\ k # i BY <1>6, <2>1, <2>6, <3>4
    <3> QED BY <1>2, <2>3, <3>3, <3>5
  <2>7. ASSUME ~ Create(w), job'[w].op = job[w].op, job'[w].id = job[w].id,
               job'[w].handle = job[w].handle
        PROVE  FALSE
    <3>1. Pends(w) BY <1>6, <2>7, PendsFrom DEF Pends
    <3>2. lock = w BY <3>1 DEF Pends, Control, At
    <3>3. job[w].handle = h /\ i # job[w].id BY <1>6, <2>1, <2>7
    <3>4. handles[i] # h BY <1>3, <2>3, <3>1, <3>3
    <3>5. CASE handles'[i] \in {handles[i], NoHandle} BY <2>1, <2>3, <3>4, <3>5
    <3>6. ASSUME NEW v \in Workers, pc[v] = "insert" \/ job[v].op = "exact",
                 SetHandle(job[v].id, job[v].handle)
          PROVE  FALSE
      <4>1. lock = v BY <3>6 DEF Control, At
      <4>2. SetHandle(job[w].id, job[w].handle) BY <3>2, <3>6, <4>1
      <4>3. handles'[i] = handles[i] BY <3>3, <4>2 DEF SetHandle, Variables
      <4> QED BY <2>1, <3>4, <4>3
    <3>9. ASSUME NEW v \in Workers, job[v].handle \in botched', SetHandle(job[v].id, job[v].handle)
          PROVE  FALSE
      <4>1. handles'[i] = IF i = job[v].id THEN job[v].handle ELSE handles[i]
        BY <3>9 DEF SetHandle, Variables
      <4> QED BY <1>6, <2>1, <3>4, <3>9, <4>1
    <3>7. pc["discovery"] # "attach" BY <3>2, Processes DEF Control
    <3>8. ASSUME NEW v \in Workers, pc[v] = "attach" PROVE FALSE
      <4>1. lock = v BY <3>8 DEF Control, At
      <4>2. pc[w] = "attach" BY <3>2, <3>8, <4>1
      <4>3. job[w].op = "adopt" BY <4>2 DEF Control, At
      <4> QED BY <3>1, <4>2, <4>3 DEF Pends
    <3> QED BY <3>5, <3>6, <3>7, <3>8, <3>9, HandlesMove
  <2>8. NoJob.handle.inc = Gone /\ NoJob.op = "none" BY DEF NoJob, NoHandle
  <2>9. job'[w].handle.inc # Gone /\ job'[w].handle # NoHandle BY <1>6, <2>1, <2>3
  <2>10. job'[w].op \in {"create", "exact"} BY <1>6, <2>4 DEF Pends
  <2> QED BY <2>5, <2>6, <2>7, <2>8, <2>9, <2>10, JobsMove
<1> QED BY <1>5, <1>6 DEF Alone

(* discovery_lock keeps two actors off every tmux session but one whose     *)
(* kill failed, which puts its handle back without the lock.                *)
THEOREM ActorsAreAlone == Spec => []OneActorPerTmux
<1> DEFINE Inv == Variables /\ Control /\ Known /\ Alone
<1>1. Init => Inv
  <2> SUFFICES ASSUME Init PROVE Alone BY InitVariables, InitKnown
  <2>1. \A i \in Ids : i # 1 => handles[i] = NoHandle BY DEF Init
  <2>2. \A w \in Workers : pc[w] = "idle" /\ job[w].op = "none" BY Processes DEF Init, NoJob
  <2> QED BY <2>1, <2>2 DEF Alone, Pends, Attached
<1>2. Inv /\ [Next]_vars => Inv' BY NextVariables, NextKnown, NextAlone
<1>3. Inv => OneActorPerTmux BY DEF Alone, OneActorPerTmux, Tracked, Exited
<1> QED BY <1>1, <1>2, <1>3, PTL DEF Spec

-----------------------------------------------------------------------------
(* Cleaned means gone.  Inductive with it: an incarnation is of one name,   *)
(* so that an authorized name without a session proves its session ended.   *)

\* An authority is for one session ever made, which has had one name; one that
\* was cleaned with a kill is for a session that has ended.
Owned(a) == IF a.phase = "none" THEN a = NoAuthority
            ELSE a.name \in Names /\ a.inc # Gone /\ Before(a.inc) /\ \A n \in Names : tmux[n] = a.inc => n = a.name
Ended(a) == a.phase = "Cleaned" /\ ~ a.alive => \A n \in Names : tmux[n] # a.inc
Sound(a) == Owned(a) /\ Ended(a)

Settled(w) ==
    job[w].op = "exact" /\ job[w].kill /\ pc[w] \in {"snap", "save", "receipt", "cleaned"} =>
        \A n \in Names : tmux[n] # job[w].target.inc

SoundInv ==
    /\ \A i \in Ids : Sound(authority[i]) /\ Sound(records[i]) /\ Sound(loader.records[i])
    /\ \A w \in Workers : Sound(job[w].target) /\ Settled(w)
    /\ \A m, n \in Names : m # n /\ tmux[m] = tmux[n] => tmux[m] = Gone

LEMMA SoundStays ==
    ASSUME Variables, Known, [Next]_vars, NEW a \in AuthorityType, Sound(a) PROVE Sound(a)'
<1>1. PICK x \in Inc : x = a.inc BY DEF AuthorityType
<1>2. CASE a.phase = "none" BY <1>2 DEF Sound, Owned, Ended
<1>3. CASE a.phase # "none"
  <2>1. x # Gone /\ Before(x) BY <1>1, <1>3 DEF Sound, Owned
  <2>2. Before(x)' /\ \A n \in Names : tmux'[n] = x => tmux[n] = x BY <2>1, Later DEF Known
  <2>3. Before(a.inc)' BY <1>1, <2>2
  <2>4. Owned(a)' BY <1>1, <1>3, <2>1, <2>2, <2>3 DEF Sound, Owned
  <2>5. Ended(a)' BY <1>1, <2>2 DEF Sound, Ended
  <2> QED BY <2>4, <2>5 DEF Sound
<1> QED BY <1>2, <1>3

LEMMA OneName ==
    ASSUME Variables, Known, SoundInv, [Next]_vars
    PROVE  \A m, n \in Names : m # n /\ tmux'[m] = tmux'[n] => tmux'[m] = Gone
<1>1. CASE \A n \in Names : tmux'[n] \in {tmux[n], Gone} BY <1>1 DEF SoundInv
<1>2. ASSUME NEW n \in Names, MakeTmux(n)
      PROVE  \A m, k \in Names : m # k /\ tmux'[m] = tmux'[k] => tmux'[m] = Gone
  <2>1. ~ Before(tmux'[n]) BY <1>2, FreshIncarnation
  <2>2. \A m \in Names \ {n} : tmux'[m] = tmux[m] BY <1>2, MakeTmuxTypes
  <2>3. \A m \in Names \ {n} : tmux'[m] = tmux'[n] => tmux'[m] = Gone BY <2>1, <2>2 DEF Known
  <2> QED BY <2>2, <2>3 DEF SoundInv
<1> QED BY <1>1, <1>2, TmuxMoves

LEMMA NothingIsSound == Sound(NoAuthority)
BY DEF Sound, Owned, Ended, NoAuthority

LEMMA PhaseIsSound ==
    ASSUME NEW a \in AuthorityType, Sound(a), a.phase # "none", NEW p \in {"Active", "Cleaning"}
    PROVE  Sound(In(p, a))
BY DEF Sound, Owned, Ended, In, AuthorityType

LEMMA RecoveredIsSound ==
    ASSUME NEW rs \in [Ids -> AuthorityType], \A i \in Ids : Sound(rs[i])
    PROVE  \A i \in Ids : Sound(Recovered(rs)[i])
<1> SUFFICES ASSUME NEW i \in Ids PROVE Sound(Recovered(rs)[i]) OBVIOUS
<1>1. Recovered(rs)[i] = IF rs[i].phase = "Cleaning" THEN In("Active", rs[i]) ELSE rs[i]
  BY DEF Recovered
<1>2. CASE rs[i].phase = "Cleaning" BY <1>1, <1>2, PhaseIsSound
<1> QED BY <1>1, <1>2

LEMMA CleanedIsSound ==
    ASSUME Variables, CleaningInv, SoundInv, NEW w \in Workers, job[w].op = "exact",
           pc[w] \in {"receipt", "cleaned"}
    PROVE  Sound(CleanedBy(w))
<1>1. job[w].target \in AuthorityType BY JobTypes
<1>2. job[w].target.phase = "Active" /\ Sound(job[w].target) /\ Settled(w)
  BY DEF CleaningInv, Cleans, SoundInv
<1>3. /\ CleanedBy(w).inc = job[w].target.inc /\ CleanedBy(w).name = job[w].target.name
      /\ CleanedBy(w).alive = ~ job[w].kill /\ CleanedBy(w).phase = "Cleaned"
  BY <1>1 DEF CleanedBy, In, AuthorityType
<1>4. Owned(CleanedBy(w)) BY <1>2, <1>3 DEF Sound, Owned
<1>5. Ended(CleanedBy(w)) BY <1>2, <1>3 DEF Settled, Ended
<1> QED BY <1>4, <1>5 DEF Sound

\* What a request makes of the authorities.
LEMMA SoundWrites ==
    ASSUME Variables, Control, Known, CleaningInv, SoundInv, NEW w \in Workers,
           Request(w) \/ Step(w) \/ Cancel(w)
    PROVE  /\ \/ UNCHANGED authority
              \/ \E a \in AuthorityType : Sound(a) /\ \E i : Authorize(i, a)
           /\ \/ UNCHANGED records
              \/ \E a \in AuthorityType : Sound(a) /\ \E i : records' = [records EXCEPT ![i] = a]
           /\ UNCHANGED loader
           /\ \E a \in AuthorityType : Sound(a) /\ job'[w].target = a
<1> DEFINE A == \/ UNCHANGED authority
                \/ \E a \in AuthorityType : Sound(a) /\ \E i : Authorize(i, a)
           R == \/ UNCHANGED records
                \/ \E a \in AuthorityType : Sound(a) /\ \E i : records' = [records EXCEPT ![i] = a]
           T == \E a \in AuthorityType : Sound(a) /\ job'[w].target = a
<1>1. UNCHANGED loader
  BY DEF Request, Step, Cancel, bootVars, Create, Delete, Exact, Adopt, Bind, Insert, Confirm, Rollback,
       Forget, Unlaunch, Remove, Kill, Reinsert, Mark, Query, ExactKill, Restore, Remark, Receipt,
       Cleaned, Attach, Snap, Save
<1>2. job[w].target \in AuthorityType /\ Sound(job[w].target) BY JobTypes DEF SoundInv
<1>3. NoAuthority \in AuthorityType /\ Sound(NoAuthority) BY Nothing, NothingIsSound
<1>4. ASSUME job[w].op = "exact"
      PROVE  /\ job[w].target.phase = "Active"
             /\ Sound(In("Cleaning", job[w].target)) /\ In("Cleaning", job[w].target) \in AuthorityType
  <2>1. job[w].target.phase = "Active" BY <1>4 DEF CleaningInv, Cleans
  <2> QED BY <1>2, <2>1, PhaseIsSound, InTypes
<1>5. At(w) BY DEF Control
<1>6. ASSUME NEW i, NEW a \in AuthorityType, Sound(a), Write(i, a) \/ WriteFails(i) PROVE R
  BY <1>3, <1>6 DEF Write, WriteFails
<1>7. ASSUME UNCHANGED job \/ Finish(w) PROVE T
  <2>1. job'[w] = job[w] \/ job'[w] = NoJob BY <1>7, Finished
  <2>2. NoJob.target = NoAuthority BY DEF NoJob
  <2> QED BY <1>2, <1>3, <2>1, <2>2
<1> HIDE DEF R, T
<1>11. ASSUME Bind(w) PROVE A /\ R /\ T
  <2>1. UNCHANGED <<authority, tmux>> /\ pc[w] = "bind" BY <1>11 DEF Bind, memory, tmuxVars
  <2>2. job[w].handle.name \in Names BY <1>5, <2>1 DEF At, CreateSteps
  <2> DEFINE r == [phase |-> "Active", name |-> job[w].handle.name,
                   inc |-> tmux[job[w].handle.name], alive |-> FALSE]
  <2>3. \/ Live(job[w].handle.name) /\ Write(job[w].id, r) /\ job' = [job EXCEPT ![w].target = r]
        \/ UNCHANGED <<records, job>>
        \/ WriteFails(job[w].id) /\ UNCHANGED job
    BY <1>11 DEF Bind
  <2>4. r \in AuthorityType BY <2>2 DEF Variables, AuthorityType
  <2>5. ASSUME Live(job[w].handle.name) PROVE Sound(r)
    <3>1. tmux[job[w].handle.name] # Gone BY <2>5 DEF Live
    <3>2. Before(tmux[job[w].handle.name]) BY <2>2, <3>1 DEF Known
    <3>3. \A n \in Names : tmux[n] = tmux[job[w].handle.name] => n = job[w].handle.name
      BY <2>2, <3>1 DEF SoundInv
    <3> QED BY <2>2, <3>1, <3>2, <3>3 DEF Sound, Owned, Ended
  <2> HIDE DEF r
  <2>6. CASE Live(job[w].handle.name) /\ Write(job[w].id, r) /\ job' = [job EXCEPT ![w].target = r]
    <3>1. R BY <1>6, <2>4, <2>5, <2>6
    <3>2. job'[w].target = r BY <2>4, <2>6, Targeted
    <3> QED BY <2>1, <2>4, <2>5, <2>6, <3>1, <3>2 DEF T
  <2>7. CASE UNCHANGED <<records, job>> BY <1>7, <2>1, <2>7 DEF R
  <2>8. CASE WriteFails(job[w].id) /\ UNCHANGED job BY <1>3, <1>6, <1>7, <2>1, <2>8
  <2> QED BY <2>3, <2>6, <2>7, <2>8
<1>12. ASSUME Insert(w) PROVE A /\ R /\ T
  BY <1>2, <1>7, <1>12 DEF Insert, R, disk
<1>13. ASSUME Rollback(w) PROVE A /\ R /\ T
  BY <1>3, <1>7, <1>13 DEF Rollback, R, disk
<1>14. ASSUME Forget(w) PROVE A /\ R /\ T
  <2>1. UNCHANGED <<authority, job>> /\ (Write(job[w].id, NoAuthority) \/ UNCHANGED records)
    BY <1>14 DEF Forget, memory
  <2>2. R BY <1>3, <1>6, <2>1 DEF R
  <2> QED BY <1>7, <2>1, <2>2
<1>15. ASSUME Mark(w) PROVE A /\ R /\ T
  <2>1. /\ UNCHANGED <<authority, job>> /\ job[w].op = "exact"
        /\ Write(job[w].id, In("Cleaning", job[w].target)) \/ WriteFails(job[w].id)
    BY <1>5, <1>15 DEF Mark, memory, At, ExactSteps
  <2>2. R BY <1>4, <1>6, <2>1
  <2> QED BY <1>7, <2>1, <2>2
<1>16. ASSUME Restore(w) PROVE A /\ R /\ T
  BY <1>2, <1>7, <1>16 DEF Restore, R, disk
<1>17. ASSUME Remark(w) PROVE A /\ R /\ T
  <2>1. /\ UNCHANGED authority /\ Finish(w)
        /\ Write(job[w].id, job[w].target) \/ WriteFails(job[w].id)
    BY <1>17 DEF Remark, memory
  <2>2. R BY <1>2, <1>6, <2>1
  <2> QED BY <1>7, <2>1, <2>2
<1>18. ASSUME Receipt(w) PROVE A /\ R /\ T
  <2>1. /\ UNCHANGED authority /\ (UNCHANGED job \/ Finish(w))
        /\ job[w].op = "exact" /\ pc[w] = "receipt"
        /\ Write(job[w].id, CleanedBy(w)) \/ WriteFails(job[w].id) \/ UNCHANGED records
    BY <1>5, <1>18 DEF Receipt, memory, At, ExactSteps
  <2>2. CleanedBy(w) \in AuthorityType /\ Sound(CleanedBy(w)) BY <2>1, CleanedTypes, CleanedIsSound
  <2>3. CASE UNCHANGED records BY <1>7, <2>1, <2>3 DEF R
  <2>4. CASE Write(job[w].id, CleanedBy(w)) \/ WriteFails(job[w].id)
    BY <1>6, <1>7, <2>1, <2>2, <2>4
  <2> QED BY <2>1, <2>3, <2>4
<1>19. ASSUME Cleaned(w) PROVE A /\ R /\ T
  <2>1. /\ Authorize(job[w].id, CleanedBy(w)) /\ Finish(w) /\ UNCHANGED records
        /\ job[w].op = "exact" /\ pc[w] = "cleaned"
    BY <1>5, <1>19 DEF Cleaned, disk, At, ExactSteps
  <2>2. CleanedBy(w) \in AuthorityType /\ Sound(CleanedBy(w)) BY <2>1, CleanedTypes, CleanedIsSound
  <2> QED BY <1>7, <2>1, <2>2 DEF R
<1>20. ASSUME Remove(w) PROVE A /\ R /\ T
  <2>1. UNCHANGED <<authority, records>> BY <1>20 DEF Remove, disk
  <2>2. CASE Finish(w) BY <1>7, <2>1, <2>2 DEF R
  <2>3. CASE ~ Finish(w)
    <3>1. job' = [job EXCEPT ![w].handle = handles[job[w].id]]
      BY <1>20, <2>3 DEF Remove
    <3>2. job'[w].target = job[w].target BY <3>1 DEF Variables, JobType
    <3> QED BY <1>2, <2>1, <3>2 DEF R, T
  <2> QED BY <2>2, <2>3
<1>21. ASSUME Confirm(w) \/ Unlaunch(w) \/ Kill(w) \/ Reinsert(w) \/ Query(w) \/ ExactKill(w)
              \/ Attach(w) \/ Snap(w) \/ Save(w) \/ Cancel(w)
       PROVE  A /\ R /\ T
  <2>1. UNCHANGED <<authority, records>> /\ (UNCHANGED job \/ Finish(w))
    BY <1>21 DEF Confirm, Unlaunch, Kill, Reinsert, Query, ExactKill, Attach, Snap, Save, Cancel,
       Return, memory, disk
  <2> QED BY <1>7, <2>1 DEF R
<1>22. ASSUME Create(w) \/ Delete(w) \/ Adopt(w) PROVE A /\ R /\ T
  <2>1. UNCHANGED <<authority, records>>
    BY <1>22 DEF Create, Delete, Adopt, memory, disk
  <2>2. job'[w].target = NoAuthority
    <3>1. CASE Create(w) BY <3>1 DEF Create, Ask, Variables, NoJob
    <3>2. CASE Delete(w) BY <3>2 DEF Delete, Ask, Variables, NoJob
    <3>3. CASE Adopt(w) BY <3>3 DEF Adopt, Ask, Variables, NoJob
    <3> QED BY <1>22, <3>1, <3>2, <3>3
  <2> QED BY <1>3, <2>1, <2>2 DEF R, T
<1>23. ASSUME Exact(w) PROVE A /\ R /\ T
  <2>1. PICK i \in Ids, kill \in BOOLEAN :
           /\ authority[i].phase = "Active"
           /\ job' = [job EXCEPT ![w] = [op |-> "exact", kill |-> kill, id |-> i,
                      handle |-> handles[i], target |-> authority[i]]]
           /\ Authorize(i, In("Cleaning", authority[i]))
           /\ UNCHANGED records
    BY <1>23 DEF Exact, Ask, disk
  <2>2. job'[w].target = authority[i] BY <2>1 DEF Variables
  <2>3. authority[i] \in AuthorityType /\ Sound(authority[i]) BY DEF Variables, SoundInv
  <2>4. In("Cleaning", authority[i]) \in AuthorityType /\ Sound(In("Cleaning", authority[i]))
    BY <2>1, <2>3, InTypes, PhaseIsSound
  <2> QED BY <2>1, <2>2, <2>3, <2>4 DEF R, T
<1> HIDE DEF A
<1>24. A /\ R /\ T
  BY <1>11, <1>12, <1>13, <1>14, <1>15, <1>16, <1>17, <1>18, <1>19, <1>20, <1>21, <1>22, <1>23
  DEF Request, Step
<1> QED BY <1>1, <1>24 DEF A, R, T

LEMMA SettledFrom ==
    ASSUME Variables, Control, Known, CleaningInv, SoundInv, [Next]_vars,
           NEW w \in Workers, Step(w) \/ Cancel(w) \/ Request(w)
    PROVE  Settled(w)'
<1> USE Processes DEF Steps, CreateSteps, ExactSteps
<1>0. At(w) /\ job[w].target \in AuthorityType /\ Sound(job[w].target) /\ Settled(w)
  BY JobTypes DEF Control, SoundInv
<1>1. ASSUME NEW x \in Steps, Goto(w, x), x \notin {"snap", "save", "receipt", "cleaned"}
      PROVE  Settled(w)'
  <2>1. pc'[w] = x BY <1>1, WentTo
  <2> QED BY <1>1, <2>1 DEF Settled
<1>2. ASSUME UNCHANGED job, job[w].op # "exact" PROVE Settled(w)' BY <1>2 DEF Settled
<1>3. ASSUME Finish(w) PROVE Settled(w)' BY <1>3, Finished DEF Settled
<1>4. ASSUME UNCHANGED job, pc[w] \in {"snap", "save", "receipt", "cleaned"} PROVE Settled(w)'
  <2>1. CASE job[w].op # "exact" BY <1>2, <1>4, <2>1
  <2>2. CASE job[w].op = "exact" /\ job[w].kill
    <3>1. job[w].target.phase = "Active" BY <2>2 DEF CleaningInv, Cleans
    <3>2. PICK x \in Inc : x = job[w].target.inc BY <1>0 DEF AuthorityType
    <3>3. x # Gone /\ Before(x) BY <1>0, <3>1, <3>2 DEF Sound, Owned
    <3>4. \A n \in Names : tmux'[n] = x => tmux[n] = x BY <3>3, Later DEF Known
    <3>5. \A n \in Names : tmux'[n] # x BY <1>0, <1>4, <2>2, <3>2, <3>4 DEF Settled
    <3> QED BY <1>4, <3>2, <3>5 DEF Settled
  <2>3. CASE ~ job[w].kill BY <1>4, <2>3 DEF Settled
  <2> QED BY <2>1, <2>2, <2>3
<1>5. CASE Request(w)
  <2>1. \E x \in {"bind", "remove", "attach", "mark"} : Goto(w, x)
    BY <1>5 DEF Request, Create, Delete, Exact, Adopt, Ask
  <2> QED BY <1>1, <2>1
<1>6. CASE Cancel(w) BY <1>3, <1>6 DEF Cancel
<1>7. CASE Confirm(w) \/ Kill(w)
  <2>1. UNCHANGED job /\ job[w].op # "exact" BY <1>0, <1>7 DEF Confirm, Kill, At
  <2> QED BY <1>2, <2>1
<1>8. CASE Attach(w)
  <2>1. (UNCHANGED job /\ job[w].op # "exact") \/ Finish(w) BY <1>0, <1>8 DEF Attach, At
  <2> QED BY <1>2, <1>3, <2>1
<1>9. CASE Remove(w)
  <2>1. CASE Finish(w) BY <1>3, <2>1
  <2>2. CASE ~ Finish(w)
    <3>1. job' = [job EXCEPT ![w].handle = handles[job[w].id]] /\ job[w].op = "delete"
      BY <1>0, <1>9, <2>2 DEF Remove, At
    <3>2. job'[w].op = "delete" BY <3>1 DEF Variables, JobType
    <3> QED BY <3>2 DEF Settled
  <2> QED BY <2>1, <2>2
<1>10. CASE Snap(w) \/ Save(w) \/ Receipt(w)
  <2>1. (UNCHANGED job /\ pc[w] \in {"snap", "save", "receipt", "cleaned"}) \/ Finish(w)
    BY <1>10 DEF Snap, Save, Receipt, Return
  <2> QED BY <1>3, <1>4, <2>1
<1>11. CASE Mark(w)
  <2>1. UNCHANGED job BY <1>11 DEF Mark
  <2>2. CASE job[w].kill
    <3>1. Goto(w, "query") \/ Goto(w, "restore") BY <1>11, <2>2 DEF Mark
    <3> QED BY <1>1, <3>1
  <2>3. CASE ~ job[w].kill BY <2>1, <2>3 DEF Settled
  <2> QED BY <2>2, <2>3
<1>12. CASE Query(w)
  <2>1. UNCHANGED <<job, tmux>> /\ job[w].op = "exact" BY <1>0, <1>12 DEF Query, tmuxVars, At
  <2>2. job[w].target.phase = "Active" BY <2>1 DEF CleaningInv, Cleans
  <2>3. CASE ~ Live(job[w].target.name)
    <3>1. \A n \in Names : tmux[n] # job[w].target.inc
      BY <1>0, <2>2, <2>3 DEF Sound, Owned, Live
    <3> QED BY <2>1, <3>1 DEF Settled
  <2>4. CASE Goto(w, "exactKill") \/ Goto(w, "restore") BY <1>1, <2>4
  <2> QED BY <1>12, <2>3, <2>4 DEF Query
<1>13. CASE ExactKill(w)
  <2>1. UNCHANGED job /\ job[w].op = "exact" BY <1>0, <1>13 DEF ExactKill, At
  <2>2. job[w].target.phase = "Active" BY <2>1 DEF CleaningInv, Cleans
  <2>3. job[w].target.inc # Gone BY <1>0, <2>2 DEF Sound, Owned
  <2>4. CASE Killed(Numbered(job[w].target.inc.number))
    <3>1. \A n \in Names : tmux'[n] # job[w].target.inc
      BY <2>3, <2>4 DEF Killed, Numbered, Live
    <3> QED BY <2>1, <3>1 DEF Settled
  <2>5. CASE Goto(w, "restore") BY <1>1, <2>5
  <2> QED BY <1>13, <2>4, <2>5 DEF ExactKill
<1>14. CASE Step(w)
  <2>1. CASE Confirm(w) \/ Kill(w) \/ Attach(w) \/ Remove(w) \/ Snap(w) \/ Save(w) \/ Receipt(w)
             \/ Mark(w) \/ Query(w) \/ ExactKill(w)
    BY <1>7, <1>8, <1>9, <1>10, <1>11, <1>12, <1>13, <2>1
  <2>2. CASE Bind(w) \/ Insert(w) \/ Rollback(w) \/ Forget(w) \/ Unlaunch(w) \/ Reinsert(w)
             \/ Restore(w) \/ Remark(w) \/ Cleaned(w)
    <3>1. \/ Finish(w)
          \/ \E x \in Steps \ {"snap", "save", "receipt", "cleaned"} : Goto(w, x)
      BY <2>2 DEF Bind, Insert, Rollback, Forget, Unlaunch, Reinsert, Restore, Remark, Cleaned
    <3> QED BY <1>1, <1>3, <3>1
  <2> QED BY <1>14, <2>1, <2>2 DEF Step
<1> QED BY <1>5, <1>6, <1>14

LEMMA SettledStays ==
    ASSUME Variables, Known, CleaningInv, SoundInv, [Next]_vars, NEW w \in Workers,
           job'[w] = job[w], pc'[w] = pc[w]
    PROVE  Settled(w)'
<1>0. job[w].target \in AuthorityType /\ Sound(job[w].target) /\ Settled(w)
  BY JobTypes DEF SoundInv
<1>1. SUFFICES ASSUME job[w].op = "exact", job[w].kill,
                      pc[w] \in {"snap", "save", "receipt", "cleaned"}
               PROVE  \A n \in Names : tmux'[n] # job[w].target.inc
  BY DEF Settled
<1>2. job[w].target.phase = "Active" BY <1>1 DEF CleaningInv, Cleans
<1>3. PICK x \in Inc : x = job[w].target.inc BY <1>0 DEF AuthorityType
<1>4. x # Gone /\ Before(x) BY <1>0, <1>2, <1>3 DEF Sound, Owned
<1>5. \A n \in Names : tmux'[n] = x => tmux[n] = x BY <1>4, Later DEF Known
<1> QED BY <1>0, <1>1, <1>3, <1>5 DEF Settled

LEMMA NextSound ==
    ASSUME Variables, Control, Known, CleaningInv, SoundInv, [Next]_vars PROVE SoundInv'
<1> DEFINE Good(x) == \E a \in AuthorityType : Sound(a) /\ x = a
<1>1. ASSUME NEW a \in AuthorityType, Sound(a) PROVE Sound(a)'
  BY <1>1, SoundStays
<1>2. ASSUME \A i \in Ids : Good(authority'[i]) /\ Good(records'[i]) /\ Good(loader'.records[i]),
             \A w \in Workers : Good(job'[w].target) /\ Settled(w)'
      PROVE  SoundInv'
  <2>1. ASSUME NEW i \in Ids
        PROVE  Sound(authority[i])' /\ Sound(records[i])' /\ Sound(loader.records[i])'
    <3>1. PICK a \in AuthorityType, b \in AuthorityType, c \in AuthorityType :
             /\ Sound(a) /\ authority'[i] = a /\ Sound(b) /\ records'[i] = b
             /\ Sound(c) /\ loader'.records[i] = c
      BY <1>2
    <3>2. Sound(a)' /\ Sound(b)' /\ Sound(c)' BY <1>1, <3>1
    <3>3. Sound(authority[i])' BY <3>1, <3>2 DEF Sound, Owned, Ended, Before
    <3>4. Sound(records[i])' BY <3>1, <3>2 DEF Sound, Owned, Ended, Before
    <3>5. Sound(loader.records[i])' BY <3>1, <3>2 DEF Sound, Owned, Ended, Before
    <3> QED BY <3>3, <3>4, <3>5
  <2>2. ASSUME NEW w \in Workers PROVE Sound(job[w].target)'
    <3>1. PICK a \in AuthorityType : Sound(a) /\ job'[w].target = a BY <1>2
    <3>2. Sound(a)' BY <1>1, <3>1
    <3> QED BY <3>1, <3>2 DEF Sound, Owned, Ended, Before
  <2> QED BY <1>2, <2>1, <2>2, OneName DEF SoundInv
<1>3. \A i \in Ids : Good(authority[i]) /\ Good(records[i]) /\ Good(loader.records[i])
  BY DEF Variables, SoundInv
<1>4. \A w \in Workers : Good(job[w].target) BY JobTypes DEF SoundInv
<1>5. Good(NoAuthority) BY Nothing, NothingIsSound
<1>6. ASSUME NEW rs \in [Ids -> AuthorityType], \A i \in Ids : Sound(rs[i])
      PROVE  \A i \in Ids : Good(Recovered(rs)[i])
  <2>1. Recovered(rs) \in [Ids -> AuthorityType] BY RecoveredTypes
  <2> QED BY <1>6, <2>1, RecoveredIsSound
<1>7. ASSUME NEW w \in Workers, Request(w) \/ Step(w) \/ Cancel(w) PROVE SoundInv'
  <2>1. /\ \/ UNCHANGED authority
           \/ \E a \in AuthorityType : Sound(a) /\ \E i : Authorize(i, a)
        /\ \/ UNCHANGED records
           \/ \E a \in AuthorityType : Sound(a) /\ \E i : records' = [records EXCEPT ![i] = a]
        /\ UNCHANGED loader
        /\ Good(job'[w].target)
    BY <1>7, SoundWrites
  <2>2. Moves(w) BY <1>7, StepMoves, RequestMoves
  <2>3. ASSUME NEW v \in Workers PROVE Good(job'[v].target) /\ Settled(v)'
    <3>1. CASE v = w BY <1>7, <2>1, <3>1, SettledFrom
    <3>2. CASE v # w
      <4>1. pc'[v] = pc[v] /\ job'[v] = job[v] BY <2>2, <3>2, Processes DEF Moves
      <4> QED BY <1>4, <4>1, SettledStays
    <3> QED BY <3>1, <3>2
  <2>4. ASSUME NEW i \in Ids PROVE Good(authority'[i])
    BY <1>3, <2>1 DEF Authorize, Variables
  <2>5. ASSUME NEW i \in Ids PROVE Good(records'[i])
    BY <1>3, <2>1 DEF Variables
  <2>6. ASSUME NEW i \in Ids PROVE Good(loader'.records[i])
    BY <1>3, <2>1
  <2> HIDE DEF Good
  <2> QED BY <1>2, <2>3, <2>4, <2>5, <2>6
<1>8. ASSUME UNCHANGED job, \A w \in Workers : pc'[w] = pc[w],
             \A i \in Ids : Good(authority'[i]) /\ Good(records'[i]) /\ Good(loader'.records[i])
      PROVE  SoundInv'
  <2>1. \A w \in Workers : Settled(w)' BY <1>8, SettledStays
  <2>2. \A w \in Workers : Good(job'[w].target) BY <1>4, <1>8
  <2> HIDE DEF Good
  <2> QED BY <1>2, <1>8, <2>1, <2>2
<1>9. CASE \/ TmuxNew \/ TmuxEnds \/ Checkpoint \/ List \/ Discover \/ ReapStep
           \/ (\E p \in Procs : WaitToWrite(p)) \/ UNCHANGED vars
  <2>1. UNCHANGED <<authority, records, loader>>
    BY <1>9 DEF TmuxNew, TmuxEnds, Checkpoint, List, Discover, Plan, AttachNext, Reconcile,
       RemoveMissing, FinishCollect, FinishCommit, ReapStep, CollectExited, Reap, WaitToWrite, vars,
       memory, disk, bootVars
  <2>2. UNCHANGED job /\ \A w \in Workers : pc'[w] = pc[w] BY <1>9, OthersAct DEF Load
  <2> HIDE DEF Good
  <2> QED BY <1>3, <1>8, <2>1, <2>2
<1>10. CASE LoadRead \/ LoadAssign
  <2>1. UNCHANGED job /\ \A w \in Workers : pc'[w] = pc[w] BY <1>10, OthersAct DEF Load
  <2>2. CASE LoadRead
    <3>1. UNCHANGED <<authority, records>> /\ loader'.records = records
      BY <2>2 DEF LoadRead, memory, disk
    <3> HIDE DEF Good
    <3> QED BY <1>3, <1>8, <2>1, <3>1
  <2>3. CASE LoadAssign
    <3>1. UNCHANGED records /\ loader' = Loaded /\ authority' = Recovered(loader.records)
      BY <2>3 DEF LoadAssign, disk
    <3>2. \A i \in Ids : Good(authority'[i]) BY <1>6, <3>1 DEF Variables, SoundInv
    <3>3. \A i \in Ids : Good(loader'.records[i]) BY <1>5, <3>1 DEF Loaded
    <3> HIDE DEF Good
    <3> QED BY <1>3, <1>8, <2>1, <3>1, <3>2, <3>3
  <2> QED BY <1>10, <2>2, <2>3
<1>11. CASE Crash
  <2>1. /\ authority' = Recovered(records) \/ authority' = [i \in Ids |-> NoAuthority]
        /\ loader' = Loaded \/ loader' = [Loaded EXCEPT !.step = "read"]
        /\ UNCHANGED records
        /\ job' = [w \in Workers |-> NoJob] /\ pc' = [q \in Procs |-> "idle"]
    BY <1>11 DEF Crash, disk
  <2>2. \A i \in Ids : Good(authority'[i])
    <3>1. CASE authority' = Recovered(records) BY <1>6, <3>1 DEF Variables, SoundInv
    <3>2. CASE authority' = [i \in Ids |-> NoAuthority] BY <1>5, <3>2
    <3> QED BY <2>1, <3>1, <3>2
  <2>3. loader'.records = [i \in Ids |-> NoAuthority] BY <2>1 DEF Loaded
  <2>4. \A w \in Workers : job'[w].target = NoAuthority /\ job'[w].op = "none"
    BY <2>1 DEF NoJob
  <2>5. \A w \in Workers : Settled(w)' BY <2>4 DEF Settled
  <2> HIDE DEF Good
  <2> QED BY <1>2, <1>3, <1>5, <2>1, <2>2, <2>3, <2>4, <2>5
<1> QED BY <1>7, <1>9, <1>10, <1>11 DEF Next, Load

LEMMA InitSound == Init => SoundInv
<1> SUFFICES ASSUME Init PROVE SoundInv OBVIOUS
<1> DEFINE inc == [server |-> 1, number |-> 0]
<1>1. PICK n \in Names :
         /\ tmux = [m \in Names |-> IF m = n THEN inc ELSE Gone]
         /\ authority = [i \in Ids |-> IF i = 1 THEN [phase |-> "Active", name |-> n, inc |-> inc,
                                                    alive |-> FALSE] ELSE NoAuthority]
         /\ records = authority /\ loader = Loaded
  BY DEF Init
<1>2. Before(inc) BY DEF Init, Before
<1>3. inc # Gone BY DEF Gone
<1> DEFINE a == [phase |-> "Active", name |-> n, inc |-> inc, alive |-> FALSE]
<1>4. Sound(a)
  <2> HIDE DEF inc
  <2> QED BY <1>1, <1>2, <1>3 DEF Sound, Owned, Ended
<1>5. \A i \in Ids : authority[i] \in {a, NoAuthority} /\ records[i] \in {a, NoAuthority}
  BY <1>1
<1>6. \A i \in Ids : loader.records[i] = NoAuthority BY <1>1 DEF Loaded
<1>7. \A w \in Workers : job[w].target = NoAuthority /\ job[w].op = "none" BY DEF Init, NoJob
<1>8. \A m, k \in Names : m # k /\ tmux[m] = tmux[k] => tmux[m] = Gone BY <1>1
<1> HIDE DEF a, inc
<1> QED BY <1>4, <1>5, <1>6, <1>7, <1>8, NothingIsSound DEF SoundInv, Settled

(* A cleanup that reports the session killed has that session ended, before *)
(* and after a restart.                                                     *)
THEOREM CleanedAreGone == Spec => []CleanedMeansGone
<1> DEFINE Inv == Variables /\ Control /\ Known /\ CleaningInv /\ SoundInv
<1>1. Init => Inv BY InitVariables, InitKnown, InitCleaning, InitSound
<1>2. Inv /\ [Next]_vars => Inv' BY NextVariables, NextKnown, NextKeepsCleaning, NextSound
<1>3. Inv => CleanedMeansGone BY DEF SoundInv, Sound, Ended, CleanedMeansGone
<1> QED BY <1>1, <1>2, <1>3, PTL DEF Spec

-----------------------------------------------------------------------------
(* The tables hold ids and names, and the id counter only a crash sets back. *)

Tables ==
    /\ stale \subseteq Entries /\ registry \subseteq Entries /\ loader.registry \subseteq Entries
    /\ snap \in [Procs -> SUBSET Entries]
    /\ missing \subseteq Entries /\ todo \subseteq [name : Names, id : Ids \cup {0}]
    /\ nextId \in Nat

LEMMA SummariesTypes ==
    ASSUME NEW hs \in [Ids -> HandleType], \A i \in Ids : OldHandle(hs[i])
    PROVE  Summaries(hs) \subseteq Entries
<1> SUFFICES ASSUME NEW i \in Ids, Attached(hs[i]) PROVE [id |-> i, name |-> hs[i].name] \in Entries
  BY DEF Summaries
<1>1. hs[i].name \in Names BY DEF Attached, OldHandle
<1> QED BY <1>1 DEF Entries

LEMMA SummariesStay ==
    ASSUME Variables, Control, Known, [Next]_vars
    PROVE  Summaries(handles) \subseteq Entries /\ Summaries(handles') \subseteq Entries
<1>1. Summaries(handles) \subseteq Entries BY SummariesTypes DEF Variables, Known
<1>2. handles' \in [Ids -> HandleType] BY NextVariables DEF Variables
<1>3. \A i \in Ids : OldHandle(handles'[i])
  <2> SUFFICES ASSUME NEW i \in Ids PROVE OldHandle(handles'[i]) OBVIOUS
  <2>1. PICK h \in HandleType : OldHandle(h) /\ handles'[i] = h BY HandleWas
  <2> QED BY <2>1
<1>4. PICK hs \in [Ids -> HandleType] : hs = handles' BY <1>2
<1> QED BY <1>1, <1>3, <1>4, SummariesTypes

LEMMA TrackedNames ==
    ASSUME Variables, Known, NEW i \in Tracked PROVE handles[i].name \in Names
<1>1. i \in Ids /\ handles[i] # NoHandle /\ handles[i] \in HandleType /\ OldHandle(handles[i])
  BY DEF Tracked, Variables, Known
<1> QED BY <1>1 DEF OldHandle, HandleType, NoHandle

LEMMA BumpedIs ==
    ASSUME NEW n \in Nat, NEW es \in SUBSET Entries, NEW rs
    PROVE  Bumped(n, es, rs) \in Nat /\ Bumped(n, es, rs) >= n
<1> DEFINE S == {n} \cup {i + 1 : i \in PersistedIds(es, rs)}
<1>0. MaxId \in Nat BY RegistryAssumption DEF RegistryAssumption
<1>1. PersistedIds(es, rs) \subseteq Ids BY DEF PersistedIds, Entries
<1>2. S \in SUBSET Nat /\ n \in S /\ \A y \in S : y <= n + MaxId + 1
  BY <1>0, <1>1 DEF Ids
<1>3. n + MaxId + 1 \in Nat BY <1>0
<1> HIDE DEF S
<1>4. Max(S) \in S /\ \A y \in S : y <= Max(S) BY <1>2, <1>3, MaxIsGreatest
<1>5. Max(S) \in Nat /\ Max(S) >= n BY <1>2, <1>4
<1> QED BY <1>5 DEF Bumped, S

LEMMA NextIdMoves ==
    ASSUME Variables, Control, Tables, [Next]_vars
    PROVE  nextId' \in Nat /\ (Crash \/ nextId' >= nextId)
<1> DEFINE Goal == nextId' \in Nat /\ (Crash \/ nextId' >= nextId)
<1>0. nextId \in Nat BY DEF Tables
<1>1. ASSUME UNCHANGED nextId PROVE Goal BY <1>0, <1>1
<1>2. ASSUME NEW i \in Ids \cup {0}, nextId' = IF i >= nextId THEN i + 1 ELSE nextId PROVE Goal
  <2>1. i \in Nat BY <1>2 DEF Ids
  <2> QED BY <1>0, <1>2, <2>1
<1>3. ASSUME NEW w \in Workers, Create(w) PROVE Goal
  <2>1. nextId' = Min(FreshIds) + 1 /\ FreshIds # {} BY <1>3 DEF Create
  <2>2. Min(FreshIds) \in Ids /\ Min(FreshIds) >= nextId BY <2>1, FirstFreshId
  <2>3. Min(FreshIds) \in Nat BY <2>2 DEF Ids
  <2> QED BY <1>0, <2>1, <2>2, <2>3
<1>4. ASSUME NEW w \in Workers, Adopt(w) PROVE Goal
  <2>1. \E i \in Ids : nextId' = IF i >= nextId THEN i + 1 ELSE nextId BY <1>4 DEF Adopt
  <2> QED BY <1>2, <2>1
<1>5. ASSUME NEW w \in Workers, Delete(w) \/ Exact(w) PROVE UNCHANGED nextId
  BY <1>5 DEF Delete, Exact, memory
<1>6. ASSUME NEW w \in Workers, Step(w) \/ Cancel(w) PROVE UNCHANGED nextId
  BY <1>6 DEF Step, Bind, Insert, Confirm, Rollback, Forget, Unlaunch, Remove, Kill, Reinsert, Mark,
     Query, ExactKill, Restore, Remark, Receipt, Cleaned, Attach, Snap, Save, Cancel, memory
<1>7. CASE AttachNext
  <2>1. PICK c \in todo : LET i == IF c.id = 0 /\ FreshIds # {} THEN Min(FreshIds) ELSE c.id IN
           nextId' = IF i >= nextId THEN i + 1 ELSE nextId
    BY <1>7 DEF AttachNext
  <2>2. c.id \in Ids \cup {0} BY DEF Tables
  <2>3. CASE c.id = 0 /\ FreshIds # {}
    <3>1. Min(FreshIds) \in Ids BY <2>3, FirstFreshId
    <3> QED BY <1>2, <2>1, <2>3, <3>1
  <2>4. CASE ~ (c.id = 0 /\ FreshIds # {}) BY <1>2, <2>1, <2>2, <2>4
  <2> QED BY <2>3, <2>4
<1>8. CASE LoadAssign
  <2>1. nextId' = Bumped(nextId, loader.registry, loader.records) BY <1>8 DEF LoadAssign
  <2>2. loader.registry \in SUBSET Entries BY DEF Tables
  <2> QED BY <1>0, <2>1, <2>2, BumpedIs
<1>9. CASE Crash
  <2>1. nextId' = Bumped(1, registry, records) \/ nextId' = 1 BY <1>9 DEF Crash
  <2>2. registry \in SUBSET Entries BY DEF Tables
  <2> QED BY <1>9, <2>1, <2>2, BumpedIs
<1>10. ASSUME \/ TmuxNew \/ TmuxEnds \/ Checkpoint \/ LoadRead \/ List \/ Plan \/ Reconcile
              \/ RemoveMissing \/ FinishCollect \/ FinishCommit \/ ReapStep
              \/ (\E p \in Procs : WaitToWrite(p)) \/ UNCHANGED vars
       PROVE  UNCHANGED nextId
  BY <1>10 DEF TmuxNew, TmuxEnds, Checkpoint, LoadRead, List, Plan, Reconcile, RemoveMissing,
     FinishCollect, FinishCommit, ReapStep, CollectExited, Reap, WaitToWrite, vars, memory
<1> QED
  BY <1>1, <1>3, <1>4, <1>5, <1>6, <1>7, <1>8, <1>9, <1>10 DEF Next, Request, Discover, Load

LEMMA NextTables == ASSUME Variables, Control, Known, Tables, [Next]_vars PROVE Tables'
<1> USE DEF memory, disk, scan, bootVars, tmuxVars
<1>0. nextId' \in Nat BY NextIdMoves
<1>1. /\ stale \subseteq Entries /\ registry \subseteq Entries /\ loader.registry \subseteq Entries
      /\ snap \in [Procs -> SUBSET Entries]
      /\ missing \subseteq Entries /\ todo \subseteq [name : Names, id : Ids \cup {0}]
  BY DEF Tables
<1>2. Summaries(handles) \subseteq Entries /\ Summaries(handles') \subseteq Entries
  BY SummariesStay
<1> DEFINE Stale == stale' \subseteq Entries
           Saved == registry' \subseteq Entries /\ loader'.registry \subseteq Entries
           Snaps == snap' \in [Procs -> SUBSET Entries]
           Scans == missing' \subseteq Entries /\ todo' \subseteq [name : Names, id : Ids \cup {0}]
           Goal == Stale /\ Saved /\ Snaps /\ Scans
<1>3. ASSUME UNCHANGED stale PROVE Stale BY <1>1, <1>3
<1>4. ASSUME UNCHANGED <<registry, loader>> PROVE Saved BY <1>1, <1>4
<1>5. ASSUME UNCHANGED snap PROVE Snaps BY <1>1, <1>5
<1>6. ASSUME UNCHANGED <<missing, todo>> PROVE Scans BY <1>1, <1>6
<1>7. ASSUME NEW entries \in SUBSET Entries, SaveFile(entries), UNCHANGED loader PROVE Saved
  BY <1>1, <1>7 DEF SaveFile
<1>8. ASSUME NEW w \in Workers, Request(w) \/ Step(w) \/ Cancel(w) PROVE Goal
  <2>1. Scans BY <1>6, <1>8, ScanStays
  <2>2. Stale
    <3>1. stale' \subseteq stale
      BY <1>8 DEF Request, Create, Delete, Exact, Adopt, Step, Bind, Insert, Confirm, Rollback, Forget,
         Unlaunch, Remove, Kill, Reinsert, Mark, Query, ExactKill, Restore, Remark, Receipt, Cleaned,
         Attach, Snap, Save, Cancel, Unstale
    <3> QED BY <1>1, <3>1
  <2>3. Saved
    <3>1. CASE Save(w)
      <4>1. snap[w] \in SUBSET Entries BY <1>1, Processes
      <4> QED BY <1>7, <3>1, <4>1 DEF Save
    <3>2. CASE ~ Save(w)
      <4>1. UNCHANGED <<registry, loader>>
        BY <1>8, <3>2 DEF Request, Create, Delete, Exact, Adopt, Step, Bind, Insert, Confirm, Rollback,
           Forget, Unlaunch, Remove, Kill, Reinsert, Mark, Query, ExactKill, Restore, Remark, Receipt,
           Cleaned, Attach, Snap, Cancel
      <4> QED BY <1>4, <4>1
    <3> QED BY <3>1, <3>2
  <2>4. Snaps
    <3>1. \/ UNCHANGED snap
          \/ snap' = [snap EXCEPT ![w] = {}]
          \/ snap' = [snap EXCEPT ![w] = Summaries(handles)]
      BY <1>8 DEF Request, Create, Delete, Exact, Adopt, Step, Bind, Insert, Confirm, Rollback, Forget,
         Unlaunch, Remove, Kill, Reinsert, Mark, Query, ExactKill, Restore, Remark, Receipt, Cleaned,
         Attach, Snap, Save, Cancel
    <3> QED BY <1>1, <1>2, <3>1
  <2> QED BY <2>1, <2>2, <2>3, <2>4
<1>9. ASSUME \/ TmuxNew \/ TmuxEnds \/ List \/ CollectExited
           \/ (\E p \in Procs : WaitToWrite(p)) \/ UNCHANGED vars PROVE Goal
  <2>1. UNCHANGED <<stale, registry, loader, snap, missing, todo>>
    BY <1>9 DEF TmuxNew, TmuxEnds, List, CollectExited, WaitToWrite, vars
  <2> QED BY <1>3, <1>4, <1>5, <1>6, <2>1
<1>10. ASSUME Checkpoint \/ Reap PROVE Goal
  <2>1. /\ UNCHANGED <<stale, loader, snap, missing, todo>>
        /\ \/ UNCHANGED registry \/ SaveFile(Summaries(handles)) \/ SaveFile(Summaries(handles'))
    BY <1>10 DEF Checkpoint, Reap
  <2> QED BY <1>2, <1>3, <1>4, <1>5, <1>6, <1>7, <2>1
<1>11. ASSUME Plan PROVE Goal
  <2>1. UNCHANGED <<stale, registry, loader, snap, missing>> BY <1>11 DEF Plan
  <2>2. todo' \subseteq [name : Names, id : Ids \cup {0}]
    <3>1. PICK new : /\ new = {n \in listed : Named(n) = {}}
                     /\ \E pick \in [new -> Ids \cup {0}] :
                           todo' = {[name |-> n, id |-> pick[n]] : n \in new}
      BY <1>11 DEF Plan
    <3>2. new \subseteq Names BY <3>1 DEF Variables
    <3> QED BY <3>1, <3>2
  <2> QED BY <1>1, <1>3, <1>4, <1>5, <2>1, <2>2
<1>12. ASSUME AttachNext PROVE Goal
  <2>1. UNCHANGED <<stale, registry, loader, snap, missing>> /\ todo' \subseteq todo
    BY <1>12 DEF AttachNext
  <2> QED BY <1>1, <1>3, <1>4, <1>5, <2>1
<1>13. ASSUME Reconcile PROVE Goal
  <2>1. /\ UNCHANGED <<registry, loader, snap, todo>> /\ stale' = {}
        /\ missing' = {[id |-> i, name |-> handles[i].name] :
                          i \in {j \in Tracked : handles[j].name \notin listed}}
    BY <1>13 DEF Reconcile
  <2>2. missing' \subseteq Entries BY <2>1, TrackedNames DEF Entries, Tracked
  <2> QED BY <1>1, <1>4, <1>5, <2>1, <2>2
<1>14. ASSUME RemoveMissing PROVE Goal
  <2>1. /\ UNCHANGED <<loader, snap, todo>> /\ missing' = {}
        /\ \E gone \in SUBSET missing : stale' \subseteq stale \cup gone
        /\ UNCHANGED registry \/ SaveFile(Summaries(handles'))
    BY <1>14 DEF RemoveMissing
  <2> QED BY <1>1, <1>2, <1>4, <1>5, <1>7, <2>1
<1>15. ASSUME FinishCollect PROVE Goal
  <2>1. /\ UNCHANGED <<stale, registry, loader, missing, todo>>
        /\ snap' = [snap EXCEPT !["discovery"] = Summaries(handles)]
    BY <1>15 DEF FinishCollect
  <2>2. Snaps BY <1>1, <1>2, <2>1
  <2> QED BY <1>3, <1>4, <1>6, <2>1, <2>2
<1>16. ASSUME FinishCommit PROVE Goal
  <2>1. /\ UNCHANGED <<stale, loader, missing, todo>> /\ SaveFile(snap["discovery"])
        /\ snap' = [snap EXCEPT !["discovery"] = {}]
    BY <1>16 DEF FinishCommit
  <2>2. snap["discovery"] \in SUBSET Entries BY <1>1, Processes
  <2>3. Snaps BY <1>1, <2>1
  <2> QED BY <1>3, <1>6, <1>7, <2>1, <2>2, <2>3
<1>17. ASSUME LoadRead PROVE Goal
  <2>1. UNCHANGED <<stale, registry, snap, missing, todo>> /\ loader'.registry = registry
    BY <1>17 DEF LoadRead
  <2> QED BY <1>1, <1>3, <1>5, <1>6, <2>1
<1>18. ASSUME LoadAssign PROVE Goal
  <2>1. /\ UNCHANGED <<registry, snap, missing, todo>> /\ loader'.registry = {}
        /\ stale' \in {stale, loader.registry}
    BY <1>18 DEF LoadAssign, Loaded
  <2> QED BY <1>1, <1>5, <1>6, <2>1
<1>19. ASSUME Crash PROVE Goal
  <2>1. /\ UNCHANGED registry /\ loader' \in {Loaded, [Loaded EXCEPT !.step = "read"]}
        /\ stale' \in {registry, {}} /\ missing' = {} /\ todo' = {}
        /\ snap' = [p \in Procs |-> {}]
    BY <1>19 DEF Crash
  <2>2. loader'.registry = {} BY <2>1 DEF Loaded
  <2> QED BY <1>1, <2>1, <2>2
<1>20. Goal
  BY <1>8, <1>9, <1>10, <1>11, <1>12, <1>13, <1>14, <1>15, <1>16, <1>17, <1>18, <1>19
  DEF Next, Discover, ReapStep, Load
<1> QED BY <1>0, <1>20 DEF Tables

LEMMA InitTables == Init => Tables
<1> SUFFICES ASSUME Init PROVE Tables OBVIOUS
<1>1. PICK n \in Names : registry = {[id |-> 1, name |-> n]} BY DEF Init
<1>2. 1 \in Ids BY RegistryAssumption DEF RegistryAssumption, Ids
<1>3. loader.registry = {} /\ stale = {} /\ missing = {} /\ todo = {} /\ nextId = 2
      /\ snap = [p \in Procs |-> {}]
  BY DEF Init, Loaded
<1> QED BY <1>1, <1>2, <1>3 DEF Tables, Entries

-----------------------------------------------------------------------------
(* Authorities are durable.  Inductive with it: what a create has bound is  *)
(* what its record says and no client was told of it yet, so that no exact  *)
(* cleanup can be at work on the id of a create.                            *)

OldInc(x) == x = Gone \/ Before(x)
Tell(i, x) == [id |-> i, inc |-> x]

Creates(w) == job[w].op = "create" =>
    /\ pc[w] \in CreateSteps \cup {"snap", "save"}
    /\ job[w].id \in Ids /\ job[w].id < nextId
    /\ \A v \in Workers \ {w} : job[v].op \in {"create", "exact"} => job[v].id # job[w].id
    /\ pc[w] \in {"bind", "insert", "forget", "unlaunch"} => authority[job[w].id] = NoAuthority
    /\ pc[w] = "bind" => LET x == tmux[job[w].handle.name] IN x = Gone \/ Tell(job[w].id, x) \notin given
    /\ pc[w] = "insert" => job[w].id \in lost \/ records[job[w].id].inc = job[w].target.inc
    /\ pc[w] \in {"insert", "confirm", "rollback", "snap", "save"} =>
          job[w].target.phase = "Active" /\ Tell(job[w].id, job[w].target.inc) \notin given
    /\ pc[w] \in {"confirm", "rollback", "snap", "save"} => authority[job[w].id] = job[w].target

Exacts(w) == job[w].op = "exact" =>
    authority[job[w].id].phase # "none" /\ authority[job[w].id].inc = job[w].target.inc

Durable(i) == authority[i] # NoAuthority => i \in lost \/ records[i].inc = authority[i].inc

DurableInv ==
    /\ \A g \in given : g.inc \in Inc /\ OldInc(g.inc)
    /\ boot # "embedded" => /\ loader.step = "done"
                            /\ \A i \in Ids : Durable(i)
                            /\ \A w \in Workers : Creates(w) /\ Exacts(w)

LEMMA BootMoves ==
    ASSUME [Next]_vars, ~ Crash PROVE boot' = "embedded" <=> boot = "embedded"
<1> USE DEF bootVars
<1>1. ASSUME NEW w \in Workers, Request(w) \/ Step(w) \/ Cancel(w) PROVE UNCHANGED boot
  BY <1>1 DEF Request, Create, Delete, Exact, Adopt, Step, Bind, Insert, Confirm, Rollback, Forget,
     Unlaunch, Remove, Kill, Reinsert, Mark, Query, ExactKill, Restore, Remark, Receipt, Cleaned,
     Attach, Snap, Save, Cancel
<1>2. CASE \/ TmuxNew \/ TmuxEnds \/ Checkpoint \/ Load \/ List \/ Discover \/ ReapStep
           \/ (\E p \in Procs : WaitToWrite(p)) \/ UNCHANGED vars
  <2>1. UNCHANGED boot \/ boot' = IF boot = "server" THEN "up" ELSE boot
    BY <1>2 DEF TmuxNew, TmuxEnds, Checkpoint, Load, LoadRead, LoadAssign, List, Discover, Plan,
       AttachNext, Reconcile, RemoveMissing, FinishCollect, FinishCommit, ReapStep, CollectExited, Reap,
       WaitToWrite, vars
  <2> QED BY <2>1
<1> QED BY <1>1, <1>2 DEF Next

\* A client is told the generation of the session that its create has bound.
LEMMA GivenMoves ==
    ASSUME Variables, Control, [Next]_vars, NEW g \in given'
    PROVE  \/ g \in given
           \/ \E w \in Workers : /\ job[w].op = "create" /\ job'[w] = NoJob /\ job[w].id \in Ids
                                 /\ authority[job[w].id] # NoAuthority
                                 /\ g = Tell(job[w].id, authority[job[w].id].inc)
<1> USE DEF history
<1>1. ASSUME NEW w \in Workers, Snap(w) \/ Save(w)
      PROVE  \/ given' = given
             \/ /\ given' = given \cup {[id |-> i, inc |-> authority[i].inc] :
                     i \in {k \in Ids : /\ job[w].op = "create" /\ k = job[w].id
                                     /\ authority[k] # NoAuthority}}
                /\ job[w].op # "exact" => Finish(w)
  BY <1>1 DEF Snap, Save, Return
<1>2. ASSUME NEW w \in Workers, Snap(w) \/ Save(w), g \notin given
      PROVE  /\ job[w].op = "create" /\ job'[w] = NoJob /\ job[w].id \in Ids
             /\ authority[job[w].id] # NoAuthority
             /\ g = Tell(job[w].id, authority[job[w].id].inc)
  <2>1. PICK i \in Ids : /\ g = [id |-> i, inc |-> authority[i].inc]
                         /\ job[w].op = "create" /\ i = job[w].id /\ authority[i] # NoAuthority
    BY <1>1, <1>2
  <2>2. job'[w] = NoJob BY <1>1, <1>2, <2>1, Finished
  <2> QED BY <2>1, <2>2 DEF Tell
<1>3. ASSUME NEW w \in Workers, Request(w) \/ Step(w) \/ Cancel(w), ~ (Snap(w) \/ Save(w))
      PROVE  UNCHANGED given
  BY <1>3 DEF Request, Create, Delete, Exact, Adopt, Step, Bind, Insert, Confirm, Rollback, Forget,
     Unlaunch, Remove, Kill, Reinsert, Mark, Query, ExactKill, Restore, Remark, Receipt, Cleaned,
     Attach, Cancel
<1>4. CASE \/ TmuxNew \/ TmuxEnds \/ Checkpoint \/ Load \/ List \/ Discover \/ ReapStep
           \/ (\E p \in Procs : WaitToWrite(p)) \/ UNCHANGED vars \/ Crash
  <2>1. UNCHANGED given
    BY <1>4 DEF TmuxNew, TmuxEnds, Checkpoint, Load, LoadRead, LoadAssign, List, Discover, Plan,
       AttachNext, Reconcile, RemoveMissing, FinishCollect, FinishCommit, ReapStep, CollectExited, Reap,
       WaitToWrite, vars, Crash
  <2> QED BY <2>1
<1> QED BY <1>2, <1>3, <1>4 DEF Next

LEMMA NextGiven ==
    ASSUME Variables, Control, Known, SoundInv, DurableInv, [Next]_vars
    PROVE  \A g \in given' : g.inc \in Inc /\ OldInc(g.inc)'
<1> SUFFICES ASSUME NEW g \in given' PROVE g.inc \in Inc /\ OldInc(g.inc)' OBVIOUS
<1>1. ASSUME NEW x \in Inc, OldInc(x) PROVE OldInc(x)' BY <1>1, Later DEF Known, OldInc
<1>2. g.inc \in Inc /\ OldInc(g.inc)
  <2>1. CASE g \in given BY <2>1 DEF DurableInv
  <2>2. ASSUME NEW i \in Ids, g = Tell(i, authority[i].inc) PROVE g.inc \in Inc /\ OldInc(g.inc)
    <3>1. authority[i] \in AuthorityType /\ Sound(authority[i]) BY DEF Variables, SoundInv
    <3>2. authority[i].inc \in Inc /\ OldInc(authority[i].inc)
      BY <3>1 DEF AuthorityType, NoAuthority, Sound, Owned, OldInc
    <3> QED BY <2>2, <3>2 DEF Tell
  <2> QED BY <2>1, <2>2, GivenMoves
<1>3. PICK x \in Inc : x = g.inc BY <1>2
<1>4. OldInc(x)' BY <1>1, <1>2, <1>3
<1> QED BY <1>2, <1>3, <1>4 DEF OldInc, Before

\* A request changes the authority and the record of its own id only.
Apart(i) == authority'[i] = authority[i] /\ records'[i] = records[i] /\ (i \in lost => i \in lost')

LEMMA WritesOwn ==
    ASSUME Variables, Control, NEW w \in Workers, Step(w) \/ Cancel(w) \/ Request(w), NEW i \in Ids,
           job[w].op \in {"create", "exact"} => i # job[w].id,
           Exact(w) => i # job'[w].id
    PROVE  Apart(i)
<1> USE DEF memory, disk, history
<1>0. authority \in [Ids -> AuthorityType] /\ records \in [Ids -> AuthorityType] BY DEF Variables
<1>1. ASSUME NEW k, k # i, UNCHANGED <<records, lost>>, NEW r, Authorize(k, r) PROVE Apart(i)
  BY <1>0, <1>1 DEF Authorize, Apart
<1>8. ASSUME NEW k, k # i, UNCHANGED authority, WriteFails(k) \/ \E r : Write(k, r) PROVE Apart(i)
  BY <1>0, <1>8 DEF Write, WriteFails, Apart
<1>2. ASSUME UNCHANGED <<authority, records, lost>> PROVE Apart(i) BY <1>2 DEF Apart
<1>3. CASE Create(w) \/ Delete(w) \/ Adopt(w) \/ Cancel(w)
  BY <1>2, <1>3 DEF Create, Delete, Adopt, Cancel
<1>4. CASE Confirm(w) \/ Unlaunch(w) \/ Remove(w) \/ Kill(w) \/ Reinsert(w) \/ Query(w) \/ ExactKill(w)
           \/ Attach(w)
  BY <1>2, <1>4 DEF Confirm, Unlaunch, Remove, Kill, Reinsert, Query, ExactKill, Attach
<1>5. CASE Snap(w) \/ Save(w)
  BY <1>2, <1>5 DEF Snap, Save, Return
<1>6. CASE Exact(w)
  <2>1. PICK k \in Ids, kill \in BOOLEAN :
           /\ Ask(w, [op |-> "exact", kill |-> kill, id |-> k, handle |-> handles[k],
                      target |-> authority[k]], "mark")
           /\ Authorize(k, In("Cleaning", authority[k])) /\ UNCHANGED <<records, lost>>
    BY <1>6 DEF Exact
  <2>2. job'[w].id = k BY <2>1 DEF Ask, Variables
  <2>3. k # i BY <1>6, <2>2
  <2> QED BY <1>1, <2>1, <2>3
<1>7. CASE Bind(w) \/ Insert(w) \/ Rollback(w) \/ Forget(w) \/ Mark(w) \/ Restore(w) \/ Remark(w)
           \/ Receipt(w) \/ Cleaned(w)
  <2>1. At(w) BY DEF Control
  <2>2. job[w].op \in {"create", "exact"}
    BY <1>7, <2>1 DEF Bind, Insert, Rollback, Forget, Mark, Restore, Remark, Receipt, Cleaned, At,
       CreateSteps, ExactSteps
  <2>3. job[w].id # i BY <2>2
  <2>4. CASE Bind(w) \/ Forget(w) \/ Mark(w) \/ Remark(w) \/ Receipt(w)
    <3>1. UNCHANGED authority
      BY <2>4 DEF Bind, Forget, Mark, Remark, Receipt
    <3>2. \/ UNCHANGED <<records, lost>> \/ WriteFails(job[w].id)
          \/ \E r : Write(job[w].id, r)
      BY <2>4 DEF Bind, Forget, Mark, Remark, Receipt
    <3> QED BY <1>2, <1>8, <2>3, <3>1, <3>2
  <2>5. CASE Insert(w) \/ Rollback(w) \/ Restore(w) \/ Cleaned(w)
    <3>1. UNCHANGED <<records, lost>>
      BY <2>5 DEF Insert, Rollback, Restore, Cleaned
    <3>2. UNCHANGED authority \/ \E r : Authorize(job[w].id, r)
      BY <2>5 DEF Insert, Rollback, Restore, Cleaned
    <3> QED BY <1>1, <1>2, <2>3, <3>1, <3>2
  <2> QED BY <1>7, <2>4, <2>5
<1> QED BY <1>3, <1>4, <1>5, <1>6, <1>7 DEF Step, Request

\* The create of another request keeps what holds of it.
LEMMA CreateKept ==
    ASSUME Variables, Control, Known, Tables, DurableInv, boot # "embedded", [Next]_vars, ~ Crash,
           NEW v \in Workers, Creates(v), job'[v] = job[v], pc'[v] = pc[v],
           job[v].op = "create" =>
              /\ Apart(job[v].id)
              /\ \A u \in Workers \ {v} : job'[u].op \in {"create", "exact"} => job'[u].id # job[v].id
    PROVE  Creates(v)'
<1> SUFFICES ASSUME job[v].op = "create" PROVE Creates(v)' BY DEF Creates
<1> DEFINE i == job[v].id
<1>1. i \in Ids /\ i \in Nat /\ i < nextId BY DEF Creates, Ids
<1>2. i < nextId' BY <1>1, NextIdMoves DEF Tables
<1>3. Apart(i) OBVIOUS
<1>4. ASSUME NEW x, Tell(i, x) \in given' PROVE Tell(i, x) \in given
  <2>1. ASSUME NEW w \in Workers, job[w].op = "create", job'[w] = NoJob, NEW y,
               Tell(i, x) = Tell(job[w].id, y)
        PROVE  FALSE
    <3>1. i = job[w].id BY <2>1 DEF Tell
    <3>2. CASE w = v BY <2>1, <3>2 DEF NoJob
    <3>3. CASE w # v BY <2>1, <3>1, <3>3 DEF Creates
    <3> QED BY <3>2, <3>3
  <2>2. PICK g \in given' : g = Tell(i, x) BY <1>4
  <2> QED BY <2>1, <2>2, GivenMoves
<1>5. pc[v] = "bind" => LET x == tmux'[job[v].handle.name] IN x = Gone \/ Tell(i, x) \notin given'
  <2> SUFFICES ASSUME pc[v] = "bind", tmux'[job[v].handle.name] # Gone,
                      Tell(i, tmux'[job[v].handle.name]) \in given'
               PROVE  FALSE
    OBVIOUS
  <2>1. job[v].handle.name \in Names BY DEF Control, At, CreateSteps
  <2>2. PICK n \in Names : n = job[v].handle.name BY <2>1
  <2>3. Tell(i, tmux'[n]) \in given BY <1>4, <2>2
  <2>4. PICK x \in Inc : x = tmux'[n] /\ OldInc(x) BY <2>3 DEF DurableInv, Tell
  <2>5. x # Gone /\ Before(x) BY <2>2, <2>4 DEF OldInc
  <2>6. tmux[n] = x BY <2>4, <2>5, Later DEF Known
  <2> QED BY <2>2, <2>3, <2>4, <2>5, <2>6 DEF Creates
<1>6. \A u \in Workers \ {v} : job'[u].op \in {"create", "exact"} => job'[u].id # i OBVIOUS
<1> QED BY <1>1, <1>2, <1>3, <1>4, <1>5, <1>6 DEF Creates, Apart

\* The steps of a create keep what holds of it, and what it writes is durable.
LEMMA CreateKeeps ==
    ASSUME Variables, Control, Known, Tables, CleaningInv, SoundInv, DurableInv, boot # "embedded",
           [Next]_vars, ~ Crash, NEW w \in Workers, Step(w) \/ Cancel(w), job[w].op = "create"
    PROVE  Creates(w)' /\ Exacts(w)' /\ \A i \in Ids : i = job[w].id => Durable(i)'
<1> USE Processes DEF Steps, CreateSteps, ExactSteps
<1> DEFINE Goal == Creates(w)' /\ Exacts(w)' /\ \A i \in Ids : i = job[w].id => Durable(i)'
<1>0. PICK i \in Ids : i = job[w].id BY DEF DurableInv, Creates
<1>1. At(w) /\ Durable(i) BY <1>0 DEF Control, DurableInv
<1>2. /\ i < nextId /\ i \in Nat
      /\ \A v \in Workers \ {w} : job[v].op \in {"create", "exact"} => job[v].id # i
      /\ pc[w] \in {"bind", "insert", "forget", "unlaunch"} => authority[i] = NoAuthority
      /\ pc[w] = "insert" => i \in lost \/ records[i].inc = job[w].target.inc
      /\ pc[w] \in {"insert", "confirm", "rollback", "snap", "save"} =>
            job[w].target.phase = "Active" /\ Tell(i, job[w].target.inc) \notin given
      /\ pc[w] \in {"confirm", "rollback", "snap", "save"} => authority[i] = job[w].target
  BY <1>0 DEF DurableInv, Creates, Ids
<1>3. i < nextId' BY <1>2, NextIdMoves DEF Tables
<1>4. Moves(w) BY StepMoves
<1>5. \A v \in Workers \ {w} : job'[v].op \in {"create", "exact"} => job'[v].id # i
  BY <1>2, <1>4 DEF Moves
<1>6. ASSUME Finish(w), UNCHANGED <<authority, records, lost>> PROVE Goal
  <2>1. job'[w] = NoJob BY <1>6, Finished
  <2>2. Creates(w)' /\ Exacts(w)' BY <2>1 DEF Creates, Exacts, NoJob
  <2> QED BY <1>0, <1>1, <1>6, <2>2 DEF Durable
<1>7. ASSUME job'[w].op = "create", job'[w].id = i, NEW x \in CreateSteps \cup {"snap", "save"},
             Goto(w, x), x # "bind",
             x \in {"insert", "forget", "unlaunch"} => authority'[i] = NoAuthority,
             x = "insert" => i \in lost' \/ records'[i].inc = job'[w].target.inc,
             x \in {"insert", "confirm", "rollback", "snap", "save"} =>
                job'[w].target.phase = "Active" /\ Tell(i, job'[w].target.inc) \notin given',
             x \in {"confirm", "rollback", "snap", "save"} => authority'[i] = job'[w].target,
             Durable(i)'
      PROVE  Goal
  <2>1. pc'[w] = x BY <1>7, WentTo
  <2>2. Creates(w)' BY <1>3, <1>5, <1>7, <2>1 DEF Creates
  <2>3. Exacts(w)' BY <1>7 DEF Exacts
  <2> QED BY <1>0, <1>7, <2>2, <2>3
<1>8. ASSUME UNCHANGED <<job, authority, records, lost, given>>,
             NEW x \in CreateSteps \cup {"snap", "save"}, Goto(w, x),
             x \in {"forget", "unlaunch"} => authority[i] = NoAuthority,
             x \in {"confirm", "rollback", "snap", "save"} => pc[w] \in {"confirm", "rollback", "snap", "save"},
             x \notin {"bind", "insert"}
      PROVE  Goal
  <2>1. Durable(i)' BY <1>1, <1>8 DEF Durable
  <2> QED BY <1>0, <1>2, <1>7, <1>8, <2>1
<1> USE DEF memory, disk, history
<1>9. ASSUME Bind(w) PROVE Goal
  <2>1. pc[w] = "bind" /\ UNCHANGED <<authority, given>> BY <1>9 DEF Bind
  <2>2. authority'[i] = NoAuthority BY <1>2, <2>1
  <2>3. Durable(i)' BY <2>2 DEF Durable
  <2>4. CASE Goto(w, "unlaunch") /\ UNCHANGED job
    BY <1>0, <1>7, <2>2, <2>3, <2>4
  <2>5. CASE ~ (Goto(w, "unlaunch") /\ UNCHANGED job)
    <3>1. PICK r : /\ r = [phase |-> "Active", name |-> job[w].handle.name,
                           inc |-> tmux[job[w].handle.name], alive |-> FALSE]
                   /\ Live(job[w].handle.name) /\ Write(i, r)
                   /\ job' = [job EXCEPT ![w].target = r] /\ Goto(w, "insert")
      BY <1>0, <1>9, <2>5 DEF Bind
    <3>2. job[w].handle.name \in Names BY <1>1, <2>1 DEF At
    <3>3. r \in AuthorityType BY <3>1, <3>2 DEF Variables, AuthorityType
    <3>4. job'[w].op = "create" /\ job'[w].id = i /\ job'[w].target = r
      BY <1>0, <3>1, <3>3, Targeted
    <3>5. records'[i] = r BY <3>1 DEF Write, Variables
    <3>6. Tell(i, r.inc) \notin given
      BY <1>0, <2>1, <3>1 DEF DurableInv, Creates, Live
    <3> QED BY <1>7, <2>1, <2>2, <2>3, <3>1, <3>4, <3>5, <3>6
  <2> QED BY <2>4, <2>5
<1>10. ASSUME Insert(w) PROVE Goal
  <2>1. /\ pc[w] = "insert" /\ UNCHANGED <<job, records, lost, given>> /\ Goto(w, "confirm")
        /\ Authorize(i, job[w].target)
    BY <1>0, <1>10 DEF Insert
  <2>2. authority'[i] = job[w].target BY <2>1 DEF Authorize, Variables
  <2>3. Durable(i)' BY <1>2, <2>1, <2>2 DEF Durable
  <2> QED BY <1>0, <1>2, <1>7, <2>1, <2>2, <2>3
<1>11. ASSUME Confirm(w) PROVE Goal
  <2>1. /\ pc[w] = "confirm" /\ UNCHANGED <<job, authority, records, lost, given>>
        /\ Goto(w, "snap") \/ Goto(w, "rollback")
    BY <1>11 DEF Confirm
  <2> QED BY <1>8, <2>1
<1>12. ASSUME Rollback(w) PROVE Goal
  <2>1. UNCHANGED <<job, records, lost, given>> /\ Goto(w, "forget") /\ Authorize(i, NoAuthority)
    BY <1>0, <1>12 DEF Rollback
  <2>2. authority'[i] = NoAuthority BY <2>1 DEF Authorize, Variables
  <2>3. Durable(i)' BY <2>2 DEF Durable
  <2> QED BY <1>0, <1>7, <2>1, <2>2, <2>3
<1>13. ASSUME Forget(w) PROVE Goal
  <2>1. /\ UNCHANGED <<job, authority, given>> /\ Goto(w, "unlaunch") /\ pc[w] = "forget"
    BY <1>13 DEF Forget
  <2>2. authority'[i] = NoAuthority BY <1>2, <2>1
  <2>3. Durable(i)' BY <2>2 DEF Durable
  <2> QED BY <1>0, <1>7, <2>1, <2>2, <2>3
<1>14. ASSUME Unlaunch(w) PROVE Goal
  <2>1. UNCHANGED <<authority, records, lost>> /\ Finish(w) BY <1>14 DEF Unlaunch
  <2> QED BY <1>6, <2>1
<1>15. ASSUME Snap(w) \/ Save(w) PROVE Goal
  <2>1. UNCHANGED <<authority, records, lost>> BY <1>15 DEF Snap, Save, Return
  <2>2. CASE Finish(w) BY <1>6, <2>1, <2>2
  <2>3. CASE ~ Finish(w)
    <3>1. pc[w] = "snap" /\ UNCHANGED <<job, given>> /\ Goto(w, "save")
      BY <1>15, <2>3 DEF Snap, Save, Return
    <3> QED BY <1>8, <2>1, <3>1
  <2> QED BY <2>2, <2>3
<1>16. ASSUME Cancel(w) PROVE Goal
  <2>1. UNCHANGED <<authority, records, lost>> /\ Finish(w) BY <1>16 DEF Cancel
  <2> QED BY <1>6, <2>1
<1>17. ASSUME Remove(w) \/ Kill(w) \/ Reinsert(w) \/ Mark(w) \/ Query(w) \/ ExactKill(w) \/ Restore(w)
              \/ Remark(w) \/ Receipt(w) \/ Cleaned(w) \/ Attach(w)
       PROVE  FALSE
  BY <1>1, <1>17 DEF Remove, Kill, Reinsert, Mark, Query, ExactKill, Restore, Remark, Receipt, Cleaned,
     Attach, At
<1> QED
  BY <1>9, <1>10, <1>11, <1>12, <1>13, <1>14, <1>15, <1>16, <1>17 DEF Step

LEMMA ExactKeeps ==
    ASSUME Variables, Control, CleaningInv, DurableInv, boot # "embedded",
           NEW w \in Workers, Step(w) \/ Cancel(w), job[w].op = "exact"
    PROVE  Creates(w)' /\ Exacts(w)' /\ \A i \in Ids : i = job[w].id => Durable(i)'
<1> USE Processes DEF Steps, CreateSteps, ExactSteps
<1> DEFINE Goal == Creates(w)' /\ Exacts(w)' /\ \A i \in Ids : i = job[w].id => Durable(i)'
<1>0. PICK i \in Ids : i = job[w].id BY DEF CleaningInv, Cleans
<1>1. /\ At(w) /\ Durable(i) /\ job[w].target \in AuthorityType /\ job[w].target.phase = "Active"
      /\ authority[i].phase # "none" /\ authority[i].inc = job[w].target.inc
      /\ authority[i] # NoAuthority
  BY <1>0, JobTypes DEF Control, DurableInv, Exacts, CleaningInv, Cleans, NoAuthority
<1>2. i \in lost \/ records[i].inc = job[w].target.inc BY <1>1 DEF Durable
<1>3. ASSUME Finish(w), Durable(i)' PROVE Goal
  <2>1. job'[w] = NoJob BY <1>3, Finished
  <2>2. Creates(w)' /\ Exacts(w)' BY <2>1 DEF Creates, Exacts, NoJob
  <2> QED BY <1>0, <1>3, <2>2
<1>4. ASSUME UNCHANGED job, authority'[i].phase # "none", authority'[i].inc = job[w].target.inc, Durable(i)'
      PROVE  Goal
  <2>1. Creates(w)' BY <1>4 DEF Creates
  <2>2. Exacts(w)' BY <1>0, <1>4 DEF Exacts
  <2> QED BY <1>0, <1>4, <2>1, <2>2
<1>5. ASSUME UNCHANGED <<authority, records, lost>>, UNCHANGED job \/ Finish(w) PROVE Goal
  <2>1. Durable(i)' BY <1>1, <1>5 DEF Durable
  <2> QED BY <1>1, <1>3, <1>4, <1>5, <2>1
<1>6. ASSUME NEW r, r.inc = job[w].target.inc, Write(i, r) \/ WriteFails(i), UNCHANGED authority
      PROVE  Durable(i)'
  <2>1. records'[i].inc = job[w].target.inc \/ i \in lost'
    BY <1>6 DEF Write, WriteFails, Variables
  <2> QED BY <1>1, <1>6, <2>1 DEF Durable
<1>7. ASSUME NEW r, r.inc = job[w].target.inc, Authorize(i, r), UNCHANGED <<records, lost>>
      PROVE  Durable(i)' /\ authority'[i] = r
  <2>1. authority'[i] = r BY <1>7 DEF Authorize, Variables
  <2> QED BY <1>2, <1>7, <2>1 DEF Durable
<1>8. /\ In("Cleaning", job[w].target).inc = job[w].target.inc
      /\ CleanedBy(w).inc = job[w].target.inc /\ CleanedBy(w).phase = "Cleaned"
  BY <1>1 DEF In, CleanedBy, AuthorityType
<1> USE DEF memory, disk, history
<1>9. ASSUME Mark(w) PROVE Goal
  <2>1. /\ UNCHANGED <<job, authority>>
        /\ Write(i, In("Cleaning", job[w].target)) \/ WriteFails(i)
    BY <1>0, <1>9 DEF Mark
  <2>2. Durable(i)' BY <1>6, <1>8, <2>1
  <2> QED BY <1>1, <1>4, <2>1, <2>2
<1>10. ASSUME Query(w) \/ ExactKill(w) \/ Cancel(w) \/ Snap(w) \/ Save(w) PROVE Goal
  <2>1. UNCHANGED <<authority, records, lost>> /\ (UNCHANGED job \/ Finish(w))
    BY <1>10 DEF Query, ExactKill, Cancel, Snap, Save, Return
  <2> QED BY <1>5, <2>1
<1>11. ASSUME Restore(w) PROVE Goal
  <2>1. CASE Finish(w) /\ UNCHANGED authority
    <3>1. UNCHANGED <<records, lost>> BY <1>11 DEF Restore
    <3> QED BY <1>5, <2>1, <3>1
  <2>2. CASE ~ (Finish(w) /\ UNCHANGED authority)
    <3>1. Authorize(i, job[w].target) /\ UNCHANGED <<records, lost, job>>
      BY <1>0, <1>11, <2>2 DEF Restore
    <3>2. Durable(i)' /\ authority'[i] = job[w].target BY <1>7, <3>1
    <3> QED BY <1>1, <1>4, <3>1, <3>2
  <2> QED BY <2>1, <2>2
<1>12. ASSUME Remark(w) PROVE Goal
  <2>1. /\ UNCHANGED authority /\ Finish(w)
        /\ Write(i, job[w].target) \/ WriteFails(i)
    BY <1>0, <1>12 DEF Remark
  <2>2. Durable(i)' BY <1>6, <2>1
  <2> QED BY <1>3, <2>1, <2>2
<1>13. ASSUME Receipt(w) PROVE Goal
  <2>1. CASE Finish(w) /\ UNCHANGED <<records, lost>>
    <3>1. UNCHANGED authority BY <1>13 DEF Receipt
    <3> QED BY <1>5, <2>1, <3>1
  <2>2. CASE ~ (Finish(w) /\ UNCHANGED <<records, lost>>)
    <3>1. /\ UNCHANGED authority
          /\ Write(i, CleanedBy(w)) \/ WriteFails(i)
          /\ UNCHANGED job \/ Finish(w)
      BY <1>0, <1>13, <2>2 DEF Receipt
    <3>2. Durable(i)' BY <1>6, <1>8, <3>1
    <3> QED BY <1>1, <1>3, <1>4, <3>1, <3>2
  <2> QED BY <2>1, <2>2
<1>14. ASSUME Cleaned(w) PROVE Goal
  <2>1. Authorize(i, CleanedBy(w)) /\ UNCHANGED <<records, lost>> /\ Finish(w)
    BY <1>0, <1>14 DEF Cleaned
  <2>2. Durable(i)' BY <1>7, <1>8, <2>1
  <2> QED BY <1>3, <2>1, <2>2
<1>15. ASSUME Bind(w) \/ Insert(w) \/ Confirm(w) \/ Rollback(w) \/ Forget(w) \/ Unlaunch(w)
              \/ Remove(w) \/ Kill(w) \/ Reinsert(w) \/ Attach(w)
       PROVE  FALSE
  BY <1>1, <1>15 DEF Bind, Insert, Confirm, Rollback, Forget, Unlaunch, Remove, Kill, Reinsert,
     Attach, At
<1> QED
  BY <1>9, <1>10, <1>11, <1>12, <1>13, <1>14, <1>15 DEF Step

\* An exact cleanup is asked for a generation a client was told of: not for the
\* one a create is still at work on.
LEMMA AskedApart ==
    ASSUME Variables, Control, Tables, CleaningInv, DurableInv, boot # "embedded",
           NEW w \in Workers, Request(w) \/ Step(w) \/ Cancel(w),
           NEW v \in Workers \ {w}, job[v].op \in {"create", "exact"}
    PROVE  /\ job[v].id \in Ids
           /\ job[w].op \in {"create", "exact"} => job[w].id # job[v].id
           /\ Exact(w) => job'[w].id # job[v].id
<1>1. Creates(v) /\ Exacts(v) /\ Creates(w) /\ Exacts(w) BY DEF DurableInv
<1>2. job[v].id \in Ids BY <1>1 DEF Creates, CleaningInv, Cleans
<1>3. ASSUME job[w].op \in {"create", "exact"} PROVE job[w].id # job[v].id
  <2>1. CASE job[v].op = "create" \/ job[w].op = "create" BY <1>1, <1>3, <2>1 DEF Creates
  <2>2. CASE job[v].op = "exact" /\ job[w].op = "exact" BY <2>2, ExactAlone
  <2> QED BY <1>3, <2>1, <2>2
<1>4. ASSUME Exact(w) PROVE job'[w].id # job[v].id
  <2>1. PICK i \in Ids, kill \in BOOLEAN :
           /\ Tell(i, authority[i].inc) \in given /\ authority[i].phase = "Active" /\ lock = "none"
           /\ Ask(w, [op |-> "exact", kill |-> kill, id |-> i, handle |-> handles[i],
                      target |-> authority[i]], "mark")
    BY <1>4 DEF Exact, Tell, TakeLock
  <2>2. job'[w].id = i BY <2>1 DEF Ask, Variables
  <2>3. CASE job[v].op = "exact" BY <2>1, <2>3, ExactAlone
  <2>4. CASE job[v].op = "create"
    <3> SUFFICES ASSUME i = job[v].id PROVE FALSE BY <2>2
    <3>1. authority[i] # NoAuthority BY <2>1 DEF NoAuthority
    <3>2. pc[v] \in {"confirm", "rollback", "snap", "save"}
      BY <1>1, <2>4, <3>1 DEF Creates, CreateSteps
    <3> QED BY <1>1, <2>1, <2>4, <3>2 DEF Creates
  <2> QED BY <2>3, <2>4
<1> QED BY <1>2, <1>3, <1>4

LEMMA OthersKeep ==
    ASSUME Variables, Control, Known, Tables, CleaningInv, DurableInv, boot # "embedded",
           [Next]_vars, ~ Crash, NEW w \in Workers, Request(w) \/ Step(w) \/ Cancel(w),
           NEW v \in Workers \ {w}
    PROVE  Creates(v)' /\ Exacts(v)'
<1>0. Moves(w) BY StepMoves, RequestMoves
<1>1. pc'[v] = pc[v] /\ job'[v] = job[v] BY <1>0, Processes DEF Moves
<1>2. Creates(v) /\ Exacts(v) BY DEF DurableInv
<1>3. ASSUME job[v].op \in {"create", "exact"} PROVE Apart(job[v].id)
  <2>1. PICK i \in Ids : i = job[v].id BY <1>3, AskedApart
  <2>2. /\ job[w].op \in {"create", "exact"} => job[w].id # i
        /\ Exact(w) => job'[w].id # i
    BY <1>3, <2>1, AskedApart
  <2>3. Apart(i) BY <2>2, WritesOwn
  <2> QED BY <2>1, <2>3
<1>4. ASSUME job[v].op = "create", NEW u \in Workers \ {v}, job'[u].op \in {"create", "exact"}
      PROVE  job'[u].id # job[v].id
  <2>0. /\ job[v].id \in Nat /\ job[v].id < nextId
        /\ \A x \in Workers \ {v} : job[x].op \in {"create", "exact"} => job[x].id # job[v].id
    BY <1>2, <1>4 DEF Creates, Ids
  <2>1. CASE u # w
    <3>1. job'[u] = job[u] BY <1>0, <2>1 DEF Moves
    <3> QED BY <1>4, <2>0, <3>1
  <2>2. CASE u = w
    <3>1. CASE job'[w].op = job[w].op /\ job'[w].id = job[w].id BY <1>4, <2>0, <2>2, <3>1
    <3>2. CASE Exact(w) BY <1>4, <2>2, <3>2, AskedApart
    <3>3. CASE Create(w)
      <4>1. FreshIds # {} /\ \E h, n : Ask(w, [NoJob EXCEPT !.op = "create", !.id = Min(FreshIds), !.handle = h], "bind")
        BY <3>3 DEF Create
      <4>2. job'[w].id = Min(FreshIds) BY <4>1 DEF Ask, Variables, NoJob
      <4>3. Min(FreshIds) \in Ids /\ Min(FreshIds) >= nextId BY <4>1, FirstFreshId
      <4>4. Min(FreshIds) \in Nat /\ nextId \in Nat BY <4>3 DEF Ids, Tables
      <4> QED BY <2>0, <2>2, <4>2, <4>3, <4>4
    <3>4. job'[w].op \notin {"delete", "adopt"} /\ job'[w] # NoJob BY <1>4, <2>2 DEF NoJob
    <3> QED BY <3>1, <3>2, <3>3, <3>4, JobsMove
  <2> QED BY <2>1, <2>2
<1>5. Creates(v)' BY <1>1, <1>2, <1>3, <1>4, CreateKept
<1>6. Exacts(v)' BY <1>1, <1>2, <1>3 DEF Exacts, Apart
<1> QED BY <1>5, <1>6

LEMMA RequestKeeps ==
    ASSUME Variables, Control, Known, Tables, CleaningInv, DurableInv, boot # "embedded",
           NEW w \in Workers, Request(w)
    PROVE  Creates(w)' /\ Exacts(w)' /\ \A i \in Ids : i = job'[w].id => Durable(i)'
<1> USE DEF memory, disk, history
<1> USE Processes DEF Steps, CreateSteps
<1>1. ASSUME UNCHANGED <<authority, records, lost>> PROVE \A i \in Ids : Durable(i)'
  BY <1>1 DEF DurableInv, Durable
<1>2. CASE Delete(w) \/ Adopt(w)
  <2>1. UNCHANGED <<authority, records, lost>> BY <1>2 DEF Delete, Adopt
  <2>2. job'[w].op \in {"delete", "adopt"}
    <3>1. CASE Delete(w)
      <4>1. \E i, kill : Ask(w, [NoJob EXCEPT !.op = "delete", !.kill = kill, !.id = i], "remove")
        BY <3>1 DEF Delete
      <4> QED BY <4>1 DEF Ask, Variables, NoJob
    <3>2. CASE Adopt(w)
      <4>1. \E i, n : Ask(w, [NoJob EXCEPT !.op = "adopt", !.id = i, !.handle.name = n], "attach")
        BY <3>2 DEF Adopt
      <4> QED BY <4>1 DEF Ask, Variables, NoJob
    <3> QED BY <1>2, <3>1, <3>2
  <2> QED BY <1>1, <2>1, <2>2 DEF Creates, Exacts
<1>3. CASE Create(w)
  <2> DEFINE i == Min(FreshIds)
  <2>1. PICK n \in Names :
           /\ FreshIds # {} /\ MakeTmux(n) /\ nextId' = i + 1 /\ lock = "none"
           /\ Ask(w, [NoJob EXCEPT !.op = "create", !.id = i,
                                   !.handle = [name |-> n, inc |-> tmux'[n]]], "bind")
           /\ UNCHANGED <<authority, records, lost, given>>
    BY <1>3 DEF Create, TakeLock
  <2>2. i \in Ids /\ i >= nextId /\ authority[i] = NoAuthority BY <2>1, FirstFreshId
  <2>3. i \in Nat /\ nextId \in Nat BY <2>2 DEF Ids, Tables
  <2> HIDE DEF i
  <2>4. job'[w].op = "create" /\ job'[w].id = i /\ job'[w].handle.name = n
        /\ \A v \in Workers \ {w} : job'[v] = job[v]
    BY <2>1 DEF Ask, Variables, NoJob
  <2>5. pc'[w] = "bind" BY <2>1, WentTo DEF Ask
  <2>6. ASSUME NEW v \in Workers \ {w}, job[v].op \in {"create", "exact"} PROVE job[v].id # i
    <3>1. CASE job[v].op = "create"
      <4>1. job[v].id < nextId /\ job[v].id \in Nat BY <3>1 DEF DurableInv, Creates, Ids
      <4> QED BY <2>2, <2>3, <4>1
    <3>2. CASE job[v].op = "exact" BY <2>1, <3>2, ExactAlone
    <3> QED BY <2>6, <3>1, <3>2
  <2>7. tmux'[n] = Gone \/ Tell(i, tmux'[n]) \notin given
    <3> SUFFICES ASSUME tmux'[n] # Gone, Tell(i, tmux'[n]) \in given PROVE FALSE OBVIOUS
    <3>1. OldInc(tmux'[n]) BY DEF DurableInv, Tell
    <3>2. ~ Before(tmux'[n]) BY <2>1, FreshIncarnation
    <3> QED BY <3>1, <3>2 DEF OldInc
  <2>8. Creates(w)' BY <2>1, <2>2, <2>3, <2>4, <2>5, <2>6, <2>7 DEF Creates
  <2> QED BY <1>1, <2>1, <2>4, <2>8 DEF Exacts
<1>4. CASE Exact(w)
  <2>1. PICK i \in Ids, kill \in BOOLEAN :
           /\ authority[i].phase = "Active" /\ Authorize(i, In("Cleaning", authority[i]))
           /\ UNCHANGED <<records, lost>>
           /\ Ask(w, [op |-> "exact", kill |-> kill, id |-> i, handle |-> handles[i],
                      target |-> authority[i]], "mark")
    BY <1>4 DEF Exact
  <2>2. job'[w].op = "exact" /\ job'[w].id = i /\ job'[w].target = authority[i]
    BY <2>1 DEF Ask, Variables
  <2>3. authority'[i] = In("Cleaning", authority[i]) /\ authority[i] \in AuthorityType
    BY <2>1 DEF Authorize, Variables
  <2>4. authority'[i].phase = "Cleaning" /\ authority'[i].inc = authority[i].inc
    BY <2>3 DEF In, AuthorityType
  <2>5. authority[i] # NoAuthority /\ Durable(i) BY <2>1 DEF NoAuthority, DurableInv
  <2>6. Durable(i)' BY <2>1, <2>4, <2>5 DEF Durable
  <2> QED BY <2>2, <2>4, <2>6 DEF Creates, Exacts
<1> QED BY <1>2, <1>3, <1>4 DEF Request

LEMMA NextDurable ==
    ASSUME Variables, Control, Known, Tables, CleaningInv, SoundInv, DurableInv, [Next]_vars
    PROVE  DurableInv'
<1> USE DEF memory, disk, history, bootVars
<1> DEFINE Rest == /\ loader'.step = "done" /\ \A i \in Ids : Durable(i)'
                   /\ \A w \in Workers : Creates(w)' /\ Exacts(w)'
<1>1. \A g \in given' : g.inc \in Inc /\ OldInc(g.inc)' BY NextGiven
<1>2. SUFFICES ASSUME boot' # "embedded" PROVE Rest
  <2> HIDE DEF Rest
  <2>1. boot' # "embedded" => Rest BY <1>2
  <2> QED BY <1>1, <2>1 DEF Rest, DurableInv, Durable, Creates, Exacts, OldInc, Before
<1>3. CASE Crash
  <2>1. PICK b \in Boots :
           /\ boot' = b /\ job' = [w \in Workers |-> NoJob] /\ UNCHANGED <<records, lost>>
           /\ b = "server" => authority' = Recovered(records) /\ loader' = Loaded
    BY <1>3 DEF Crash
  <2>2. authority' = Recovered(records) /\ loader' = Loaded
    BY <1>2, <2>1, RegistryAssumption DEF RegistryAssumption
  <2>3. \A w \in Workers : Creates(w)' /\ Exacts(w)' BY <2>1 DEF Creates, Exacts, NoJob
  <2>4. ASSUME NEW i \in Ids PROVE Durable(i)'
    <3>1. authority'[i].inc = records[i].inc
      BY <2>2 DEF Recovered, In, Variables, AuthorityType
    <3> QED BY <2>1, <3>1 DEF Durable
  <2> QED BY <2>2, <2>3, <2>4 DEF Loaded
<1>4. CASE ~ Crash
  <2>0. boot # "embedded" BY <1>2, <1>4, BootMoves
  <2>1. /\ loader.step = "done" /\ \A i \in Ids : Durable(i)
        /\ \A w \in Workers : Creates(w) /\ Exacts(w)
    BY <2>0 DEF DurableInv
  <2>2. ASSUME NEW w \in Workers, Request(w) \/ Step(w) \/ Cancel(w) PROVE Rest
    <3>1. loader' = loader BY <2>2, SoundWrites
    <3>2. \A v \in Workers \ {w} : Creates(v)' /\ Exacts(v)' BY <1>4, <2>0, <2>2, OthersKeep
    <3>3. ASSUME NEW i \in Ids, Apart(i) PROVE Durable(i)' BY <2>1, <3>3 DEF Durable, Apart
    <3>4. CASE Request(w)
      <4>1. Creates(w)' /\ Exacts(w)' /\ \A i \in Ids : i = job'[w].id => Durable(i)'
        BY <2>0, <3>4, RequestKeeps
      <4>2. job[w].op \notin {"create", "exact"}
        <5>1. pc[w] = "idle" BY <3>4 DEF Request, Create, Delete, Exact, Adopt, Ask
        <5> QED BY <5>1 DEF Control, At, NoJob
      <4>3. \A i \in Ids : i # job'[w].id => Apart(i) BY <3>4, <4>2, WritesOwn
      <4> QED BY <2>1, <3>1, <3>2, <3>3, <4>1, <4>3
    <3>5. CASE Step(w) \/ Cancel(w)
      <4>0. ~ Exact(w) /\ ~ Create(w)
        <5>1. pc[w] # "idle"
          BY <3>5 DEF Step, Bind, Insert, Confirm, Rollback, Forget, Unlaunch, Remove, Kill, Reinsert,
             Mark, Query, ExactKill, Restore, Remark, Receipt, Cleaned, Attach, Snap, Save, Cancel
        <5> QED BY <5>1 DEF Exact, Create, Ask
      <4>1. ASSUME NEW i \in Ids, job[w].op \in {"create", "exact"} => i # job[w].id PROVE Durable(i)'
        BY <3>3, <3>5, <4>0, <4>1, WritesOwn
      <4>2. Creates(w)' /\ Exacts(w)' /\ \A i \in Ids : Durable(i)'
        <5>1. CASE job[w].op = "create" BY <1>4, <2>0, <3>5, <4>1, <5>1, CreateKeeps
        <5>2. CASE job[w].op = "exact" BY <2>0, <3>5, <4>1, <5>2, ExactKeeps
        <5>3. CASE job[w].op \notin {"create", "exact"}
          <6>1. job'[w].op \notin {"create", "exact"}
            BY <5>3, <4>0, JobsMove DEF NoJob
          <6> QED BY <4>1, <5>3, <6>1 DEF Creates, Exacts
        <5> QED BY <5>1, <5>2, <5>3
      <4> QED BY <2>1, <3>1, <3>2, <4>2
    <3> QED BY <2>2, <3>4, <3>5
  <2>3. CASE \/ TmuxNew \/ TmuxEnds \/ Checkpoint \/ List \/ Discover \/ ReapStep
             \/ (\E p \in Procs : WaitToWrite(p)) \/ UNCHANGED vars
    <3>1. UNCHANGED <<authority, records, loader, lost>>
      BY <2>3 DEF TmuxNew, TmuxEnds, Checkpoint, List, Discover, Plan, AttachNext, Reconcile,
         RemoveMissing, FinishCollect, FinishCommit, ReapStep, CollectExited, Reap, WaitToWrite, vars
    <3>2. UNCHANGED job /\ \A w \in Workers : pc'[w] = pc[w] BY <2>3, OthersAct DEF Load
    <3>3. \A i \in Ids : Durable(i)' BY <2>1, <3>1 DEF Durable
    <3>4. \A w \in Workers : Exacts(w)' BY <2>1, <3>1, <3>2 DEF Exacts
    <3>5. ASSUME NEW w \in Workers PROVE Creates(w)'
      <4>1. job'[w] = job[w] /\ pc'[w] = pc[w] /\ Creates(w) /\ Apart(job[w].id)
        BY <2>1, <3>1, <3>2 DEF Apart
      <4>2. job[w].op = "create" =>
               \A u \in Workers \ {w} : job'[u].op \in {"create", "exact"} => job'[u].id # job[w].id
        BY <2>1, <3>2 DEF Creates
      <4> QED BY <1>4, <2>0, <4>1, <4>2, CreateKept
    <3> QED BY <2>1, <3>1, <3>3, <3>4, <3>5
  <2>4. ~ Load BY <2>1 DEF Load, LoadRead, LoadAssign
  <2> QED BY <1>4, <2>2, <2>3, <2>4 DEF Next
<1> QED BY <1>3, <1>4

LEMMA InitDurable == Init => DurableInv
<1> SUFFICES ASSUME Init PROVE DurableInv OBVIOUS
<1> DEFINE inc == [server |-> 1, number |-> 0]
<1>1. given = {[id |-> 1, inc |-> inc]} BY DEF Init
<1>2. Before(inc) BY DEF Init, Before
<1>3. inc \in Inc BY FirstIncarnation
<1>4. \A g \in given : g.inc \in Inc /\ OldInc(g.inc)
  <2> HIDE DEF inc
  <2> QED BY <1>1, <1>2, <1>3 DEF OldInc
<1>5. records = authority /\ loader.step = "done" /\ \A w \in Workers : job[w].op = "none"
  BY DEF Init, Loaded, NoJob
<1> QED BY <1>4, <1>5 DEF DurableInv, Durable, Creates, Exacts

(* What a client can name is on disk: "launch does not expose a generation  *)
(* until its active record is atomically durable" (supervisor/lifecycle.rs),*)
(* whatever requests, cancellations, failed writes and restarts there were. *)
THEOREM AuthoritiesAreDurable == Spec => []AuthorityIsDurable
<1> DEFINE Inv == Variables /\ Control /\ Known /\ CleaningInv /\ SoundInv /\ Tables /\ DurableInv
<1>1. Init => Inv
  BY InitVariables, InitKnown, InitCleaning, InitSound, InitTables, InitDurable
<1>2. Inv /\ [Next]_vars => Inv'
  BY NextVariables, NextKnown, NextKeepsCleaning, NextSound, NextTables, NextDurable
<1>3. Inv => AuthorityIsDurable BY DEF DurableInv, Durable, AuthorityIsDurable
<1> QED BY <1>1, <1>2, <1>3, PTL DEF Spec

-----------------------------------------------------------------------------
(* A restart keeps the ids.  Inductive with it: the sessions file has each  *)
(* id and each name once, and until its first discovery ends the server     *)
(* changes nothing but the handles that this discovery attaches, each by    *)
(* its plan: a persisted session that was listed waits in todo or has its   *)
(* handle back.                                                             *)

Unique(S) == \A e, f \in S : e.id = f.id <=> e.name = f.name
Listing == botched = {} => Unique(registry) /\ \A p \in Procs : Unique(snap[p])

Back(e) == handles[e.id].name = e.name
Planned(e) == [name |-> e.name, id |-> e.id] \in todo /\ handles[e.id] = NoHandle /\ Named(e.name) = {}

Booting == boot = "server" =>
    /\ \A w \in Workers : pc[w] = "idle"
    /\ pc["reaper"] = "idle" /\ pc["discovery"] # "removeMissing"
    /\ \A i \in Ids : handles[i] = NoHandle \/ handles[i].name \in listed
    /\ pc["discovery"] \in {"idle", "plan"} => \A i \in Ids : handles[i] = NoHandle
    /\ pc["discovery"] \in {"idle", "plan", "attach"} => stale = registry
    /\ pc["discovery"] = "attach" /\ botched = {} =>
          /\ \A e \in registry : e.name \in listed => Back(e) \/ Planned(e)
          /\ \A c \in todo : IF c.id = 0 THEN \A e \in registry : e.name # c.name
                             ELSE [id |-> c.id, name |-> c.name] \in registry
    /\ IdentitySurvivesRestart

LEMMA SavedMoves ==
    ASSUME Variables, Tables, [Next]_vars
    PROVE  /\ \/ registry' \in {registry, Summaries(handles)}
              \/ registry' = Summaries(handles') /\ UNCHANGED tmux
              \/ \E p \in Procs : registry' = snap[p]
           /\ \A p \in Procs : snap'[p] \in {snap[p], {}, Summaries(handles)}
<1> USE Processes DEF disk
<1> DEFINE Saved == \/ registry' \in {registry, Summaries(handles)}
                    \/ registry' = Summaries(handles') /\ UNCHANGED tmux
                    \/ \E p \in Procs : registry' = snap[p]
           Snapped == \A p \in Procs : snap'[p] \in {snap[p], {}, Summaries(handles)}
<1>0. snap \in [Procs -> SUBSET Entries] BY DEF Tables
<1>1. ASSUME UNCHANGED registry PROVE Saved BY <1>1
<1>2. ASSUME UNCHANGED snap PROVE Snapped BY <1>2
<1>3. ASSUME NEW p \in Procs, snap' = [snap EXCEPT ![p] = {}] PROVE Snapped BY <1>0, <1>3
<1>4. ASSUME NEW p \in Procs, snap' = [snap EXCEPT ![p] = Summaries(handles)] PROVE Snapped
  BY <1>0, <1>4
<1>5. ASSUME NEW p \in Procs, SaveFile(snap[p]) PROVE Saved BY <1>5 DEF SaveFile
<1>6. ASSUME SaveFile(Summaries(handles)) \/ SaveFile(Summaries(handles')), UNCHANGED tmux PROVE Saved
  BY <1>6 DEF SaveFile
<1> HIDE DEF Saved, Snapped
<1>7. ASSUME NEW w \in Workers, Request(w) \/ Step(w) \/ Cancel(w) PROVE Saved /\ Snapped
  <2>1. CASE Save(w)
    <3>1. SaveFile(snap[w]) /\ snap' = [snap EXCEPT ![w] = {}] BY <2>1 DEF Save
    <3> QED BY <1>3, <1>5, <3>1
  <2>2. CASE ~ Save(w)
    <3>1. UNCHANGED registry
      BY <1>7, <2>2 DEF Request, Create, Delete, Exact, Adopt, Step, Bind, Insert, Confirm, Rollback,
         Forget, Unlaunch, Remove, Kill, Reinsert, Mark, Query, ExactKill, Restore, Remark, Receipt,
         Cleaned, Attach, Snap, Cancel
    <3>2. \/ UNCHANGED snap
          \/ snap' = [snap EXCEPT ![w] = {}]
          \/ snap' = [snap EXCEPT ![w] = Summaries(handles)]
      BY <1>7, <2>2 DEF Request, Create, Delete, Exact, Adopt, Step, Bind, Insert, Confirm, Rollback,
         Forget, Unlaunch, Remove, Kill, Reinsert, Mark, Query, ExactKill, Restore, Remark, Receipt,
         Cleaned, Attach, Snap, Cancel
    <3> QED BY <1>1, <1>2, <1>3, <1>4, <3>1, <3>2
  <2> QED BY <2>1, <2>2
<1>8. CASE \/ TmuxNew \/ TmuxEnds \/ List \/ CollectExited \/ Plan \/ AttachNext \/ Reconcile \/ Load
           \/ (\E p \in Procs : WaitToWrite(p)) \/ UNCHANGED vars
  <2>1. UNCHANGED <<registry, snap>>
    BY <1>8 DEF TmuxNew, TmuxEnds, List, CollectExited, Plan, AttachNext, Reconcile, Load, LoadRead,
       LoadAssign, WaitToWrite, vars
  <2> QED BY <1>1, <1>2, <2>1 DEF Saved, Snapped
<1>9. CASE Checkpoint \/ Reap \/ RemoveMissing
  <2>1. /\ UNCHANGED <<snap, tmux>>
        /\ UNCHANGED registry \/ SaveFile(Summaries(handles)) \/ SaveFile(Summaries(handles'))
    BY <1>9 DEF Checkpoint, Reap, RemoveMissing, tmuxVars
  <2> QED BY <1>1, <1>2, <1>6, <2>1 DEF Saved, Snapped
<1>10. CASE FinishCollect
  <2>1. UNCHANGED registry /\ snap' = [snap EXCEPT !["discovery"] = Summaries(handles)]
    BY <1>10 DEF FinishCollect
  <2> QED BY <1>1, <1>4, <2>1 DEF Saved, Snapped
<1>11. CASE FinishCommit
  <2>1. SaveFile(snap["discovery"]) /\ snap' = [snap EXCEPT !["discovery"] = {}]
    BY <1>11 DEF FinishCommit
  <2> QED BY <1>3, <1>5, <2>1 DEF Saved, Snapped
<1>12. CASE Crash
  <2>1. UNCHANGED registry /\ snap' = [p \in Procs |-> {}] BY <1>12 DEF Crash
  <2> QED BY <1>1, <2>1 DEF Saved, Snapped
<1> QED
  BY <1>7, <1>8, <1>9, <1>10, <1>11, <1>12 DEF Saved, Snapped, Next, Discover, ReapStep

LEMMA NextListing ==
    ASSUME Variables, Control, Known, Alone, Tables, Listing, [Next]_vars, Alone'
    PROVE  Listing'
<1> SUFFICES ASSUME botched' = {} PROVE Unique(registry') /\ \A p \in Procs : Unique(snap'[p])
  BY DEF Listing, Unique
<1>1. botched = {} /\ Unique(registry) /\ \A p \in Procs : Unique(snap[p])
  BY BotchedStays DEF Listing
<1>2. Unique(Summaries(handles))
  <2> SUFFICES ASSUME NEW i \in Ids, NEW j \in Ids, Attached(handles[i]), Attached(handles[j])
               PROVE  i = j <=> handles[i].name = handles[j].name
    BY DEF Unique, Summaries
  <2>1. ASSUME handles[i].name = handles[j].name PROVE i = j
    <3>1. handles[i].inc = handles[j].inc BY <2>1 DEF Attached
    <3>2. handles[i] \in HandleType /\ handles[j] \in HandleType BY DEF Variables
    <3>3. handles[i] = handles[j] BY <2>1, <3>1, <3>2 DEF HandleType
    <3> QED BY <1>1, <3>3 DEF Alone
  <2> QED BY <2>1
<1>3. ASSUME UNCHANGED tmux PROVE Unique(Summaries(handles'))
  <2>0. Variables' BY NextVariables
  <2> SUFFICES ASSUME NEW i \in Ids, NEW j \in Ids, Attached(handles'[i]), Attached(handles'[j])
               PROVE  i = j <=> handles'[i].name = handles'[j].name
    BY DEF Unique, Summaries
  <2>1. ASSUME handles'[i].name = handles'[j].name PROVE i = j
    <3>1. handles'[i].inc = handles'[j].inc BY <2>1 DEF Attached
    <3>2. handles'[i] \in HandleType /\ handles'[j] \in HandleType BY <2>0 DEF Variables
    <3>3. handles'[i] = handles'[j] BY <2>1, <3>1, <3>2 DEF HandleType
    <3>4. Attached(handles[i])' BY <1>3 DEF Attached
    <3> QED BY <3>3, <3>4 DEF Alone
  <2> QED BY <2>1
<1>4. Unique({}) BY DEF Unique
<1> HIDE DEF Unique
<1> QED BY <1>1, <1>2, <1>3, <1>4, SavedMoves

\* Until its first discovery ends, nothing but this discovery is at work.
LEMMA BootSteps ==
    ASSUME Variables, Booting, loader.step = "done", [Next]_vars, boot' = "server", ~ Crash
    PROVE  /\ boot = "server" /\ UNCHANGED registry
           /\ botched' = botched /\ \A p \in Workers \cup {"reaper"} : pc'[p] = pc[p]
           /\ \/ UNCHANGED <<handles, stale, listed, todo, pc>>
              \/ List \/ Plan \/ AttachNext \/ Reconcile \/ FinishCollect
<1> USE Processes DEF disk, memory, scan, bootVars, history
<1>1. boot = "server"
  <2>1. ASSUME NEW w \in Workers, Request(w) \/ Step(w) \/ Cancel(w) PROVE UNCHANGED boot
    BY <2>1 DEF Request, Create, Delete, Exact, Adopt, Step, Bind, Insert, Confirm, Rollback, Forget,
       Unlaunch, Remove, Kill, Reinsert, Mark, Query, ExactKill, Restore, Remark, Receipt, Cleaned,
       Attach, Snap, Save, Cancel
  <2>2. ASSUME ~ \E w \in Workers : Request(w) \/ Step(w) \/ Cancel(w)
        PROVE  UNCHANGED boot \/ boot' = IF boot = "server" THEN "up" ELSE boot
    BY <2>2 DEF Next, TmuxNew, TmuxEnds, Checkpoint, Load, LoadRead, LoadAssign, List, Discover, Plan,
       AttachNext, Reconcile, RemoveMissing, FinishCollect, FinishCommit, ReapStep, CollectExited, Reap,
       WaitToWrite, vars
  <2> QED BY <2>1, <2>2
<1>2. ASSUME NEW w \in Workers, Request(w) \/ Step(w) \/ Cancel(w) PROVE FALSE
  <2>1. pc[w] = "idle" BY <1>1 DEF Booting
  <2>2. ~ Request(w) BY <1>1 DEF Request, Create, Delete, Exact, Adopt, Ask
  <2> QED
    BY <1>2, <2>1, <2>2 DEF Step, Bind, Insert, Confirm, Rollback, Forget, Unlaunch, Remove, Kill,
       Reinsert, Mark, Query, ExactKill, Restore, Remark, Receipt, Cleaned, Attach, Snap, Save, Cancel
<1>3. ~ Checkpoint /\ ~ ReapStep /\ ~ RemoveMissing /\ ~ FinishCommit /\ ~ Load
  BY <1>1 DEF Booting, Checkpoint, ReapStep, CollectExited, Reap, RemoveMissing, FinishCommit, Load,
     LoadRead, LoadAssign
<1>4. CASE TmuxNew \/ TmuxEnds \/ (\E p \in Procs : WaitToWrite(p)) \/ UNCHANGED vars
  BY <1>1, <1>4 DEF TmuxNew, TmuxEnds, WaitToWrite, vars
<1>5. CASE List \/ Plan \/ AttachNext \/ Reconcile \/ FinishCollect
  <2>1. UNCHANGED <<registry, botched>>
    BY <1>5 DEF List, Plan, AttachNext, Reconcile, FinishCollect
  <2>2. UNCHANGED pc \/ \E x \in Steps : Goto("discovery", x)
    BY <1>5 DEF List, Plan, AttachNext, Reconcile, FinishCollect, Steps
  <2>3. \A p \in Workers \cup {"reaper"} : pc'[p] = pc[p] BY <2>2, WentTo
  <2> QED BY <1>1, <1>5, <2>1, <2>3
<1> QED BY <1>2, <1>3, <1>4, <1>5 DEF Next, Discover

\* The candidate that is attached next gets its id, and nobody else loses his.
LEMMA AttachBacks ==
    ASSUME Variables, Tables, Listing, Booting, boot = "server", botched = {}, AttachNext,
           NEW e \in registry, e.name \in listed
    PROVE  Back(e)' \/ Planned(e)'
<1>0. /\ pc["discovery"] = "attach" /\ stale = registry /\ Unique(registry) /\ e \in Entries
      /\ Back(e) \/ Planned(e)
      /\ \A c \in todo : IF c.id = 0 THEN \A f \in registry : f.name # c.name
                         ELSE [id |-> c.id, name |-> c.name] \in registry
  BY DEF AttachNext, Booting, Listing, Tables
<1>1. e.id \in Ids /\ e.name \in Names BY <1>0 DEF Entries
<1>2. PICK c, i :
         /\ c \in todo /\ todo' = todo \ {c}
         /\ i = IF c.id = 0 /\ FreshIds # {} THEN Min(FreshIds) ELSE c.id
         /\ IF Named(c.name) = {} /\ i # 0
            THEN SetHandle(i, [name |-> c.name, inc |-> tmux[c.name]])
            ELSE UNCHANGED handles
  <2>1. PICK c \in todo :
           LET j == IF c.id = 0 /\ FreshIds # {} THEN Min(FreshIds) ELSE c.id IN
           /\ todo' = todo \ {c}
           /\ IF Named(c.name) = {} /\ j # 0
              THEN SetHandle(j, [name |-> c.name, inc |-> tmux[c.name]])
              ELSE UNCHANGED handles
    BY Zenon DEF AttachNext
  <2>2. PICK i : i = IF c.id = 0 /\ FreshIds # {} THEN Min(FreshIds) ELSE c.id OBVIOUS
  <2> QED BY ONLY <2>1, <2>2
<1>3. i = e.id => c.name = e.name
  <2> SUFFICES ASSUME i = e.id PROVE c.name = e.name OBVIOUS
  <2>1. CASE c.id = 0
    <3>1. i # 0 BY <1>1 DEF Ids
    <3>2. FreshIds # {} /\ i = Min(FreshIds) BY <1>2, <2>1, <3>1
    <3>3. e.id # i BY <1>0, <3>2, FirstFreshId
    <3> QED BY <3>3
  <2>2. CASE c.id # 0
    <3>1. i = c.id /\ [id |-> c.id, name |-> c.name] \in registry BY <1>0, <1>2, <2>2
    <3> QED BY <1>0, <3>1 DEF Unique
  <2> QED BY <2>1, <2>2
<1>4. handles \in [Ids -> HandleType] BY DEF Variables
<1>5. CASE Back(e)
  <2>1. handles'[e.id].name = e.name BY <1>1, <1>2, <1>3, <1>4, <1>5 DEF SetHandle, Back
  <2> QED BY <2>1 DEF Back
<1>6. CASE Planned(e) /\ c.name = e.name
  <2>1. [id |-> c.id, name |-> c.name] \in registry BY <1>0, <1>2, <1>6
  <2>2. c.id = e.id BY <1>0, <1>6, <2>1 DEF Unique
  <2>3. i = e.id /\ i # 0 BY <1>1, <1>2, <2>2 DEF Ids
  <2>4. handles'[e.id].name = e.name BY <1>1, <1>2, <1>4, <1>6, <2>3 DEF SetHandle, Planned
  <2> QED BY <2>4 DEF Back
<1>7. CASE Planned(e) /\ c.name # e.name
  <2>1. i # e.id BY <1>3, <1>7
  <2>2. [name |-> e.name, id |-> e.id] \in todo' BY <1>2, <1>7 DEF Planned
  <2>3. handles'[e.id] = NoHandle BY <1>1, <1>2, <1>4, <1>7, <2>1 DEF SetHandle, Planned
  <2>4. \A k \in Ids : handles'[k] = handles[k] \/ handles'[k].name = c.name
    BY <1>2, <1>4 DEF SetHandle
  <2>5. Named(e.name)' = {} BY <1>7, <2>4 DEF Planned, Named, Tracked
  <2> QED BY <2>2, <2>3, <2>5 DEF Planned
<1> QED BY <1>0, <1>5, <1>6, <1>7

\* Every persisted session that was listed is planned with its own id.
LEMMA PlansOwnId ==
    ASSUME Tables, Listing, Booting, boot = "server", Plan
    PROVE  /\ botched = {} => \A e \in registry : e.name \in listed => Planned(e)'
           /\ \A c \in todo' : IF c.id = 0 THEN \A e \in registry : e.name # c.name
                               ELSE [id |-> c.id, name |-> c.name] \in registry
<1> USE DEF memory
<1>0. /\ pc["discovery"] = "plan" /\ stale = registry /\ UNCHANGED handles
      /\ \A i \in Ids : handles[i] = NoHandle
  BY DEF Plan, Booting
<1>1. Tracked = {} /\ Tracked' = {} BY <1>0 DEF Tracked
<1>2. (\A n : Named(n) = {}) /\ (\A n : Named(n)' = {}) BY <1>1 DEF Named
<1> DEFINE new == {n \in listed : Named(n) = {}}
           StaleIds(n) == {s.id : s \in {t \in stale : t.name = n}}
<1>3. PICK pick \in [new -> Ids \cup {0}] :
         /\ \A n \in new : pick[n] \in (IF StaleIds(n) = {} THEN {0} ELSE StaleIds(n))
         /\ todo' = {[name |-> n, id |-> pick[n]] : n \in new}
  BY DEF Plan
<1>4. ASSUME NEW e \in registry, e.name \in listed, botched = {} PROVE Planned(e)'
  <2>1. e.name \in new /\ e.id \in StaleIds(e.name) BY <1>0, <1>2, <1>4
  <2>2. pick[e.name] \in StaleIds(e.name) BY <1>3, <2>1
  <2>3. PICK s \in registry : s.name = e.name /\ s.id = pick[e.name] BY <1>0, <2>2
  <2>4. s.id = e.id BY <1>4, <2>3 DEF Listing, Unique
  <2>5. [name |-> e.name, id |-> e.id] \in todo' BY <1>3, <2>1, <2>3, <2>4
  <2>6. e.id \in Ids BY DEF Tables, Entries
  <2>7. handles'[e.id] = NoHandle BY <1>0, <2>6
  <2> QED BY <1>2, <2>5, <2>7 DEF Planned
<1>5. ASSUME NEW c \in todo'
      PROVE  IF c.id = 0 THEN \A e \in registry : e.name # c.name
             ELSE [id |-> c.id, name |-> c.name] \in registry
  <2>1. PICK n \in new : c = [name |-> n, id |-> pick[n]] BY <1>3, <1>5
  <2>2. CASE StaleIds(n) = {}
    <3>1. \A e \in registry : e.name # n BY <1>0, <2>2
    <3>2. pick[n] = 0 BY <1>3, <2>2
    <3> QED BY <2>1, <3>1, <3>2
  <2>3. CASE StaleIds(n) # {}
    <3>1. PICK s \in registry : s.name = n /\ s.id = pick[n] BY <1>0, <1>3, <2>3
    <3>2. s \in Entries BY DEF Tables
    <3>3. s = [id |-> c.id, name |-> c.name] /\ c.id # 0 BY <2>1, <3>1, <3>2 DEF Entries, Ids
    <3> QED BY <3>3
  <2> QED BY <2>2, <2>3
<1> QED BY <1>4, <1>5

LEMMA NextBooting ==
    ASSUME Variables, Control, Tables, Listing, Booting, boot # "embedded" => loader.step = "done",
           [Next]_vars
    PROVE  Booting'
<1> USE Processes DEF memory, disk, scan, bootVars, history
<1> SUFFICES ASSUME boot' = "server" PROVE Booting' BY DEF Booting
<1>1. CASE Crash
  <2>1. /\ handles' = [i \in Ids |-> NoHandle] /\ pc' = [p \in Procs |-> "idle"]
        /\ stale' = registry /\ UNCHANGED registry
    BY <1>1 DEF Crash
  <2>2. \A p \in Procs : pc'[p] = "idle" BY <2>1
  <2> QED BY <2>1, <2>2 DEF Booting, IdentitySurvivesRestart
<1>2. CASE ~ Crash
  <2>0. boot # "embedded"
    <3>1. boot' # "embedded" OBVIOUS
    <3> QED BY <1>2, <3>1, BootMoves
  <2>1. /\ boot = "server" /\ UNCHANGED registry
        /\ botched' = botched /\ \A p \in Workers \cup {"reaper"} : pc'[p] = pc[p]
        /\ \/ UNCHANGED <<handles, stale, listed, todo, pc>>
           \/ List \/ Plan \/ AttachNext \/ Reconcile \/ FinishCollect
    BY <1>2, <2>0, BootSteps
  <2>2. /\ \A w \in Workers : pc[w] = "idle"
        /\ pc["reaper"] = "idle" /\ pc["discovery"] # "removeMissing"
        /\ \A i \in Ids : handles[i] = NoHandle \/ handles[i].name \in listed
        /\ pc["discovery"] \in {"idle", "plan"} => \A i \in Ids : handles[i] = NoHandle
        /\ pc["discovery"] \in {"idle", "plan", "attach"} => stale = registry
        /\ pc["discovery"] = "attach" /\ botched = {} =>
              /\ \A e \in registry : e.name \in listed => Back(e) \/ Planned(e)
              /\ \A c \in todo : IF c.id = 0 THEN \A e \in registry : e.name # c.name
                                 ELSE [id |-> c.id, name |-> c.name] \in registry
        /\ IdentitySurvivesRestart
    BY <2>1 DEF Booting
  <2>3. (\A w \in Workers : pc'[w] = "idle") /\ pc'["reaper"] = "idle" BY <2>1, <2>2
  <2>4. CASE UNCHANGED <<handles, stale, listed, todo, pc>>
    <3>1. \A e \in registry : (Back(e) => Back(e)') /\ (Planned(e) => Planned(e)')
      BY <2>4 DEF Back, Planned, Named, Tracked
    <3>2. IdentitySurvivesRestart' BY <2>1, <2>2, <2>4 DEF IdentitySurvivesRestart
    <3> QED BY <2>1, <2>2, <2>4, <3>1, <3>2 DEF Booting
  <2>5. CASE List
    <3>1. /\ pc["discovery"] = "idle" /\ Goto("discovery", "plan")
          /\ UNCHANGED <<handles, stale>>
      BY <2>5 DEF List
    <3>2. pc'["discovery"] = "plan" BY <3>1, WentTo DEF Steps
    <3> QED BY <2>1, <2>2, <2>3, <3>1, <3>2 DEF Booting, IdentitySurvivesRestart
  <2>6. CASE Plan
    <3>1. /\ pc["discovery"] = "plan" /\ Goto("discovery", "attach")
          /\ UNCHANGED <<handles, stale, listed>>
      BY <2>6 DEF Plan
    <3>2. pc'["discovery"] = "attach" BY <3>1, WentTo DEF Steps
    <3>3. /\ botched = {} => \A e \in registry : e.name \in listed => Planned(e)'
          /\ \A c \in todo' : IF c.id = 0 THEN \A e \in registry : e.name # c.name
                              ELSE [id |-> c.id, name |-> c.name] \in registry
      BY <2>1, <2>6, PlansOwnId
    <3> QED BY <2>1, <2>2, <2>3, <3>1, <3>2, <3>3 DEF Booting, IdentitySurvivesRestart
  <2>7. CASE AttachNext
    <3>1. pc["discovery"] = "attach" /\ UNCHANGED <<stale, listed, pc>> /\ todo' \subseteq todo
      BY <2>7 DEF AttachNext
    <3>2. botched = {} => \A e \in registry : e.name \in listed => Back(e)' \/ Planned(e)'
      BY <2>1, <2>7, AttachBacks
    <3>3. \A i \in Ids : handles'[i] = NoHandle \/ handles'[i].name \in listed
      <4>1. PICK c \in todo :
               \/ \E i : SetHandle(i, [name |-> c.name, inc |-> tmux[c.name]])
               \/ UNCHANGED handles
        BY <2>7 DEF AttachNext
      <4>2. c.name \in listed BY DEF Variables
      <4> QED BY <2>2, <4>1, <4>2 DEF SetHandle, Variables
    <3> QED BY <2>1, <2>2, <2>3, <3>1, <3>2, <3>3 DEF Booting, IdentitySurvivesRestart
  <2>8. CASE Reconcile
    <3>1. /\ pc["discovery"] = "attach" /\ todo = {} /\ UNCHANGED <<handles, listed>>
          /\ missing' = {[id |-> i, name |-> handles[i].name] :
                            i \in {j \in Tracked : handles[j].name \notin listed}}
          /\ Goto("discovery", IF missing' = {} THEN "collect" ELSE "removeMissing")
      BY <2>8 DEF Reconcile
    <3>2. missing' = {} BY <2>2, <3>1 DEF Tracked
    <3>3. pc'["discovery"] = "collect" BY <3>1, <3>2, WentTo DEF Steps
    <3>4. botched = {} => \A e \in registry : e.name \in listed => Back(e) BY <2>2, <3>1 DEF Planned
    <3>5. IdentitySurvivesRestart' BY <2>1, <3>1, <3>4 DEF IdentitySurvivesRestart, Back
    <3> QED BY <2>1, <2>2, <2>3, <3>1, <3>3, <3>5 DEF Booting
  <2>9. CASE FinishCollect
    <3>1. Goto("discovery", "commit") /\ UNCHANGED <<handles, listed>> BY <2>9 DEF FinishCollect
    <3>2. pc'["discovery"] = "commit" BY <3>1, WentTo DEF Steps
    <3> QED BY <2>2, <2>3, <3>1, <3>2 DEF Booting, IdentitySurvivesRestart
  <2> QED BY <2>1, <2>4, <2>5, <2>6, <2>7, <2>8, <2>9
<1> QED BY <1>1, <1>2

(* A restart of the server keeps the ids: when its first discovery ends,    *)
(* each persisted session that tmux still lists has its id again            *)
(* (init_persistence, attach_discovery_candidate in supervisor/discovery.rs)*)
THEOREM IdentitySurvives == Spec => []IdentitySurvivesRestart
<1> DEFINE Inv == /\ Variables /\ Control /\ Known /\ CleaningInv /\ SoundInv /\ Tables /\ DurableInv
                  /\ Alone /\ Listing /\ Booting
<1>1. Init => Inv
  <2> SUFFICES ASSUME Init PROVE Alone /\ Listing /\ Booting
    BY InitVariables, InitKnown, InitCleaning, InitSound, InitTables, InitDurable
  <2>1. \A i \in Ids : i # 1 => handles[i] = NoHandle BY DEF Init
  <2>2. \A w \in Workers : pc[w] = "idle" /\ job[w].op = "none" BY Processes DEF Init, NoJob
  <2>3. Alone BY <2>1, <2>2 DEF Alone, Pends, Attached
  <2>4. (\E n \in Names : registry = {[id |-> 1, name |-> n]}) /\ (\A p \in Procs : snap[p] = {})
        /\ boot = "up"
    BY DEF Init
  <2>5. Listing BY <2>4 DEF Listing, Unique
  <2> QED BY <2>3, <2>4, <2>5 DEF Booting
<1>2. Inv /\ [Next]_vars => Inv'
  <2> SUFFICES ASSUME Inv, [Next]_vars PROVE Inv' OBVIOUS
  <2>1. Variables' /\ Control' /\ Known' /\ CleaningInv' /\ SoundInv' /\ Tables' /\ DurableInv'
    BY NextVariables, NextKnown, NextKeepsCleaning, NextSound, NextTables, NextDurable
  <2>2. Alone' BY <2>1, NextAlone
  <2>3. Listing' BY <2>2, NextListing
  <2>4. Booting' BY NextBooting DEF DurableInv
  <2> QED BY <2>1, <2>2, <2>3, <2>4
<1>3. Inv => IdentitySurvivesRestart BY DEF Booting, IdentitySurvivesRestart
<1> QED BY <1>1, <1>2, <1>3, PTL DEF Spec

-----------------------------------------------------------------------------
(* The type.  What is left: no id beyond the bound is handed out, the lock  *)
(* is held by a request or the discovery, and those who wait are tasks.     *)

Bounds ==
    /\ 1 <= nextId /\ nextId <= MaxId + 1
    /\ lock \in Workers \cup {"none", "discovery"}
    /\ ready \subseteq Ids /\ waiting \subseteq Procs
    /\ boot \in {"server", "up", "embedded"}

LEMMA BumpedIsBounded ==
    ASSUME NEW n \in Nat, n <= MaxId + 1, NEW es \in SUBSET Entries, NEW rs
    PROVE  Bumped(n, es, rs) <= MaxId + 1
<1> DEFINE S == {n} \cup {i + 1 : i \in PersistedIds(es, rs)}
<1>0. MaxId \in Nat BY RegistryAssumption DEF RegistryAssumption
<1>1. PersistedIds(es, rs) \subseteq Ids BY DEF PersistedIds, Entries
<1>2. S \in SUBSET Nat /\ n \in S /\ \A y \in S : y <= MaxId + 1
  BY <1>0, <1>1 DEF Ids
<1>3. MaxId + 1 \in Nat BY <1>0
<1> HIDE DEF S
<1>4. Max(S) \in S BY <1>2, <1>3, MaxIsGreatest
<1> QED BY <1>2, <1>4 DEF Bumped, S

LEMMA IdsAreBounded ==
    ASSUME Variables, Control, Tables, Bounds, [Next]_vars PROVE nextId' <= MaxId + 1
<1> DEFINE Goal == nextId' <= MaxId + 1
<1>0. nextId \in Nat /\ nextId <= MaxId + 1 /\ MaxId \in Nat
  BY RegistryAssumption DEF RegistryAssumption, Tables, Bounds
<1>1. ASSUME UNCHANGED nextId PROVE Goal BY <1>0, <1>1
<1>2. ASSUME NEW i \in Ids \cup {0}, nextId' = IF i >= nextId THEN i + 1 ELSE nextId PROVE Goal
  <2>1. i \in Nat /\ i <= MaxId BY <1>0, <1>2 DEF Ids
  <2> QED BY <1>0, <1>2, <2>1
<1>3. ASSUME NEW w \in Workers, Create(w) PROVE Goal
  <2>1. nextId' = Min(FreshIds) + 1 /\ FreshIds # {} BY <1>3 DEF Create
  <2>2. Min(FreshIds) \in Ids BY <2>1, FirstFreshId
  <2> QED BY <1>0, <2>1, <2>2 DEF Ids
<1>4. ASSUME NEW w \in Workers, Adopt(w) PROVE Goal
  <2>1. \E i \in Ids : nextId' = IF i >= nextId THEN i + 1 ELSE nextId BY <1>4 DEF Adopt
  <2> QED BY <1>2, <2>1
<1>5. ASSUME NEW w \in Workers, Delete(w) \/ Exact(w) PROVE UNCHANGED nextId
  BY <1>5 DEF Delete, Exact, memory
<1>6. ASSUME NEW w \in Workers, Step(w) \/ Cancel(w) PROVE UNCHANGED nextId
  BY <1>6 DEF Step, Bind, Insert, Confirm, Rollback, Forget, Unlaunch, Remove, Kill, Reinsert, Mark,
     Query, ExactKill, Restore, Remark, Receipt, Cleaned, Attach, Snap, Save, Cancel, memory
<1>7. CASE AttachNext
  <2>1. PICK c \in todo : LET i == IF c.id = 0 /\ FreshIds # {} THEN Min(FreshIds) ELSE c.id IN
           nextId' = IF i >= nextId THEN i + 1 ELSE nextId
    BY <1>7 DEF AttachNext
  <2>2. c.id \in Ids \cup {0} BY DEF Tables
  <2>3. CASE c.id = 0 /\ FreshIds # {}
    <3>1. Min(FreshIds) \in Ids BY <2>3, FirstFreshId
    <3> QED BY <1>2, <2>1, <2>3, <3>1
  <2>4. CASE ~ (c.id = 0 /\ FreshIds # {}) BY <1>2, <2>1, <2>2, <2>4
  <2> QED BY <2>3, <2>4
<1>8. CASE LoadAssign
  <2>1. nextId' = Bumped(nextId, loader.registry, loader.records) BY <1>8 DEF LoadAssign
  <2>2. loader.registry \in SUBSET Entries BY DEF Tables
  <2> QED BY <1>0, <2>1, <2>2, BumpedIsBounded
<1>9. CASE Crash
  <2>1. nextId' = Bumped(1, registry, records) \/ nextId' = 1 BY <1>9 DEF Crash
  <2>2. registry \in SUBSET Entries BY DEF Tables
  <2>3. 1 \in Nat /\ 1 <= MaxId + 1 BY <1>0
  <2> QED BY <2>1, <2>2, <2>3, BumpedIsBounded
<1>10. ASSUME \/ TmuxNew \/ TmuxEnds \/ Checkpoint \/ LoadRead \/ List \/ Plan \/ Reconcile
              \/ RemoveMissing \/ FinishCollect \/ FinishCommit \/ ReapStep
              \/ (\E p \in Procs : WaitToWrite(p)) \/ UNCHANGED vars
       PROVE  UNCHANGED nextId
  BY <1>10 DEF TmuxNew, TmuxEnds, Checkpoint, LoadRead, List, Plan, Reconcile, RemoveMissing,
     FinishCollect, FinishCommit, ReapStep, CollectExited, Reap, WaitToWrite, vars, memory
<1> QED
  BY <1>1, <1>3, <1>4, <1>5, <1>6, <1>7, <1>8, <1>9, <1>10 DEF Next, Request, Discover, Load

LEMMA NextBounds ==
    ASSUME Variables, Control, Tables, Bounds, [Next]_vars PROVE Bounds'
<1>1. 1 <= nextId' /\ nextId' <= MaxId + 1
  <2>1. nextId' <= MaxId + 1 BY IdsAreBounded
  <2>2. nextId' >= 1
    <3>1. CASE Crash
      <4>1. nextId' = Bumped(1, registry, records) \/ nextId' = 1 BY <3>1 DEF Crash
      <4>2. registry \in SUBSET Entries BY DEF Tables
      <4> QED BY <4>1, <4>2, BumpedIs
    <3>2. CASE ~ Crash
      <4>1. nextId' \in Nat /\ nextId' >= nextId BY <3>2, NextIdMoves
      <4>2. nextId \in Nat /\ 1 <= nextId BY DEF Tables, Bounds
      <4> QED BY <4>1, <4>2
    <3> QED BY <3>1, <3>2
  <2>3. nextId' \in Nat BY NextIdMoves
  <2> QED BY <2>1, <2>2, <2>3
<1> DEFINE Goal == /\ lock' \in Workers \cup {"none", "discovery"}
                   /\ ready' \subseteq Ids /\ waiting' \subseteq Procs
                   /\ boot' \in {"server", "up", "embedded"}
<1>0. /\ lock \in Workers \cup {"none", "discovery"} /\ ready \subseteq Ids /\ waiting \subseteq Procs
      /\ boot \in {"server", "up", "embedded"}
  BY DEF Bounds
<1>2. ASSUME NEW w \in Workers, Request(w) PROVE Goal
  <2>1. UNCHANGED <<ready, waiting, boot>> /\ lock' \in {lock, w}
    BY <1>2 DEF Request, Create, Delete, Exact, Adopt, TakeLock, bootVars
  <2> QED BY <1>0, <2>1
<1>3. ASSUME NEW w \in Workers, Step(w) \/ Cancel(w) PROVE Goal
  <2>1. /\ UNCHANGED <<ready, boot>> /\ lock' \in {lock, "none"}
        /\ UNCHANGED waiting \/ waiting' = waiting \ {w}
    BY <1>3 DEF Step, Bind, Insert, Confirm, Rollback, Forget, Unlaunch, Remove, Kill, Reinsert, Mark,
       Query, ExactKill, Restore, Remark, Receipt, Cleaned, Attach, Snap, Save, Cancel, Return,
       Finish, Release, bootVars
  <2> QED BY <1>0, <2>1
<1>4. ASSUME NEW p \in Procs, WaitToWrite(p) PROVE Goal
  BY <1>0, <1>4 DEF WaitToWrite, bootVars
<1>5. ASSUME Crash PROVE Goal
  <2>1. lock' = "none" /\ waiting' = {} /\ ready' = {} /\ boot' \in Boots BY <1>5 DEF Crash
  <2> QED BY <2>1, RegistryAssumption DEF RegistryAssumption
<1>6. ASSUME ReapStep PROVE Goal
  BY <1>0, <1>6 DEF ReapStep, CollectExited, Reap, bootVars
<1>7. ASSUME List PROVE Goal BY <1>0, <1>7 DEF List, TakeLock, bootVars
<1>8. ASSUME FinishCommit PROVE Goal BY <1>0, <1>8 DEF FinishCommit
<1>9. ASSUME \/ Plan \/ AttachNext \/ Reconcile \/ RemoveMissing \/ FinishCollect \/ TmuxNew
             \/ TmuxEnds \/ Checkpoint \/ Load \/ UNCHANGED vars
      PROVE  Goal
  <2>1. UNCHANGED <<lock, ready, waiting, boot>>
    BY <1>9 DEF Plan, AttachNext, Reconcile, RemoveMissing, FinishCollect, TmuxNew, TmuxEnds,
       Checkpoint, Load, LoadRead, LoadAssign, vars, bootVars
  <2> QED BY <1>0, <2>1
<1>10. Goal BY <1>2, <1>3, <1>4, <1>5, <1>6, <1>7, <1>8, <1>9 DEF Next, Discover
<1> QED BY <1>1, <1>10 DEF Bounds

LEMMA InitBounds == Init => Bounds
BY RegistryAssumption DEF RegistryAssumption, Init, Bounds, Procs

LEMMA Handles ==
    ASSUME NEW h \in HandleType, OldHandle(h) PROVE h \in Handle
<1>1. h.name \in Names \/ h.name = "none" BY DEF HandleType
<1>2. h = [name |-> h.name, inc |-> h.inc] /\ h.inc \in Incarnations BY DEF HandleType, Inc
<1>3. CASE h.name \in Names BY <1>2, <1>3 DEF Handle
<1>4. CASE h.name = "none" /\ h.name \notin Names
  <2>1. h.inc = Gone BY <1>4 DEF OldHandle
  <2>2. h = NoHandle BY <1>2, <1>4, <2>1 DEF NoHandle
  <2> QED BY <2>2 DEF Handle
<1> QED BY <1>1, <1>3, <1>4

LEMMA Authorities ==
    ASSUME NEW a \in AuthorityType, Sound(a) PROVE a \in Authority
<1>1. CASE a.phase = "none" BY <1>1 DEF Sound, Owned, Authority
<1>2. CASE a.phase # "none"
  <2>1. a.name \in Names BY <1>2 DEF Sound, Owned
  <2> QED BY <1>2, <2>1 DEF AuthorityType, Authority, Inc
<1> QED BY <1>1, <1>2

(* The type of every table and of what the requests and the loops hold.     *)
THEOREM TypeCorrect == Spec => []TypeOK
<1> DEFINE Inv == /\ Variables /\ Control /\ Known /\ CleaningInv /\ SoundInv /\ Tables /\ Bounds
<1>1. Init => Inv
  BY InitVariables, InitKnown, InitCleaning, InitSound, InitTables, InitBounds
<1>2. Inv /\ [Next]_vars => Inv'
  BY NextVariables, NextKnown, NextKeepsCleaning, NextSound, NextTables, NextBounds
<1>3. ASSUME Inv PROVE TypeOK
  <2>1. tmux \in [Names -> Incarnations] BY <1>3 DEF Variables, Inc
  <2>2. \A i \in Ids : handles[i] \in Handle BY <1>3, Handles DEF Variables, Known
  <2>3. handles \in [Ids -> Handle] BY <1>3, <2>2 DEF Variables
  <2>4. \A i \in Ids : authority[i] \in Authority /\ records[i] \in Authority
    BY <1>3, Authorities DEF Variables, SoundInv
  <2>5. authority \in [Ids -> Authority] /\ records \in [Ids -> Authority]
    BY <1>3, <2>4 DEF Variables
  <2>6. nextId \in 1 .. MaxId + 1
    BY <1>3, RegistryAssumption DEF RegistryAssumption, Tables, Bounds
  <2>7. /\ stale \subseteq Entries /\ registry \subseteq Entries /\ missing \subseteq Entries
        /\ todo \subseteq [name : Names, id : Ids \cup {0}] /\ snap \in [Procs -> SUBSET Entries]
        /\ listed \subseteq Names
    BY <1>3 DEF Tables, Variables
  <2>8. /\ lock \in Workers \cup {"none", "discovery"} /\ ready \subseteq Ids
        /\ boot \in {"server", "up", "embedded"} /\ waiting \subseteq Procs
    BY <1>3 DEF Bounds
  <2> QED BY <2>1, <2>3, <2>5, <2>6, <2>7, <2>8 DEF TypeOK
<1> QED BY <1>1, <1>2, <1>3, PTL DEF Spec
=============================================================================
