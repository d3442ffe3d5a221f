--------------------------- MODULE TuiApp_proofs ---------------------------
(***************************************************************************)
(* Proofs about the terminal interface for any set of sessions and any     *)
(* number of events and faults: the types, and that no result lands where  *)
(* it does not belong.                                                     *)
(***************************************************************************)
EXTENDS TuiApp, WellFoundedInduction, TLAPS

Publications == [state : {"idle", "sent", "ok", "failed"}, sel : Selections,
                 queued : SUBSET Selections]
Refreshes == [state : {"none", "asked", "got", "failed"}, epoch : Nat, list : SUBSET Sessions]
Answers == [state : {"none", "ok", "failed"}, got : SUBSET Sessions]

\* No session that is known anywhere is still to be born, and the refresh under
\* way is out of date or brings every session that is shown and alive.
Fresh ==
    /\ alive \cap unborn = {} /\ shown \cap unborn = {}
    /\ answer.got \cap unborn = {} /\ refresh.list \cap unborn = {}
    /\ refresh.epoch <= epoch
    /\ refresh.state = "got" /\ refresh.epoch >= epoch => shown \cap alive \subseteq refresh.list

\* A transcription is sent with the generation it was recorded in.
Owned == TranscriptsStay /\ dictation.start = dictation.sent

\* A clear that has succeeded leaves nothing under way.
Ended == cleared => stage = "done" /\ served = 0 /\ publication.state # "sent"

-----------------------------------------------------------------------------
(* The selection. *)

LEMMA FirstIsIn == ASSUME NEW S \in SUBSET Nat, S # {} PROVE First(S) \in S
<1>1. \E x \in S : \A y \in S : ~ (<<y, x>> \in OpToRel(<, Nat))
  <2> HIDE DEF OpToRel
  <2>1. \A R : IsWellFoundedOn(R, Nat) => \E x \in S : \A y \in S : ~ (<<y, x>> \in R)
    BY WFMin
  <2> QED BY <2>1, NatLessThanWellFounded
<1>2. PICK x \in S : \A y \in S : ~ (<<y, x>> \in OpToRel(<, Nat)) BY <1>1
<1>3. \A y \in S : ~ (y < x)
  <2> TAKE y \in S
  <2> QED BY <1>2 DEF OpToRel
<1>4. \A y \in S : x <= y BY <1>3
<1> QED BY <1>4 DEF First

\* reconcile_selection selects a session or none.
LEMMA ReconciledType ==
    ASSUME NEW list \in SUBSET Sessions, NEW filter \in SUBSET Sessions, NEW sel \in Selections
    PROVE  Reconciled(list, filter, sel) \in Selections
<1>1. CASE list \cap filter = {} BY <1>1 DEF Reconciled, Selections
<1>2. CASE list \cap filter # {}
  <2>1. First(list \cap filter) \in list \cap filter BY <1>2, FirstIsIn, TuiAssumption
  <2> QED BY <1>2, <2>1 DEF Reconciled, Selections
<1> QED BY <1>1, <1>2

LEMMA SpawnedType ==
    ASSUME NEW pub \in Publications, NEW done \in Selections, NEW next \in SUBSET Selections
    PROVE  Spawned(pub, done, next) \in Publications
<1>1. CASE pub.state # "idle"
  BY <1>1 DEF Spawned, Publications
<1>2. CASE pub.state = "idle" /\ next \subseteq {done}
  BY <1>2 DEF Spawned, Publications, Idle, Selections
<1>3. CASE pub.state = "idle" /\ ~ (next \subseteq {done})
  <2>1. (CHOOSE s \in next : TRUE) \in next BY <1>3
  <2>2. (CHOOSE s \in next : TRUE) \in Selections BY <2>1
  <2> HIDE DEF Selections
  <2> QED BY <1>3, <2>2 DEF Spawned, Publications
<1> QED BY <1>1, <1>2, <1>3

LEMMA SyncedType ==
    ASSUME TypeOK, NEW pub \in Publications, NEW sel \in Selections
    PROVE  Synced(pub, sel) \in Publications
BY SpawnedType DEF Synced, TypeOK

LEMMA ChooseType ==
    ASSUME TypeOK, NEW sel \in Selections, Choose(sel)
    PROVE  selected' \in Selections /\ publication' \in Publications
BY SyncedType DEF Choose, TypeOK, Publications

-----------------------------------------------------------------------------
(* The types. *)

LEMMA InitTypes == ASSUME Init PROVE TypeOK
<1>1. refresh \in Refreshes BY DEF Init, NoRefresh, Refreshes
<1>2. publication \in Publications BY DEF Init, Idle, Publications, Selections
<1>3. answer \in Answers BY DEF Init, NoAnswer, Answers
<1>4. dictation \in [start : Nat, sent : Nat] BY DEF Init, NoDictation
<1>5. alive \subseteq Sessions /\ unborn \subseteq Sessions BY DEF Init
<1>6. cleared \in BOOLEAN /\ composer \in BOOLEAN /\ lost \in BOOLEAN BY Zenon DEF Init
<1> QED BY <1>1, <1>2, <1>3, <1>4, <1>5, <1>6, TuiAssumption
      DEF TuiAssumption, Init, TypeOK, Selections, Refreshes, Publications, Answers

LEMMA EventTypes == ASSUME TypeOK, Event PROVE TypeOK'
<1> USE TuiAssumption DEF TuiAssumption, serverVars, listVars, publishVars, jobVars,
                          composerVars, endVars
<1>1. CASE Move
  <2>1. PICK sel \in Selections : Choose(sel)
    BY <1>1 DEF Move, Selections, TypeOK
  <2>2. selected' \in Selections /\ publication' \in Publications BY <2>1, ChooseType
  <2> QED BY <1>1, <2>2 DEF Move, Input, TypeOK, Publications
<1>2. CASE SetFilter
  <2>1. PICK filter \in SUBSET Sessions : filter = matching' BY <1>2 DEF SetFilter
  <2>2. PICK sel : sel = Reconciled(shown, filter, selected) OBVIOUS
  <2>3. sel \in Selections BY <2>2, ReconciledType DEF TypeOK
  <2>4. Choose(sel) BY <1>2, <2>1, <2>2 DEF SetFilter
  <2>5. selected' \in Selections /\ publication' \in Publications BY <2>3, <2>4, ChooseType
  <2> QED BY <1>2, <2>1, <2>5 DEF SetFilter, Input, TypeOK, Publications
<1>3. CASE ManualRefresh BY <1>3 DEF ManualRefresh, Input, Asked, TypeOK
<1>4. CASE OpenComposer BY <1>4 DEF OpenComposer, Input, NewGeneration, TypeOK
<1>5. CASE Escape
  <2>1. composer' \in BOOLEAN BY <1>5, Zenon DEF Escape, NewGeneration
  <2> QED BY <1>5, <2>1 DEF Escape, Input, NewGeneration, TypeOK
<1>6. CASE StartRecording BY <1>6 DEF StartRecording, Input, TypeOK
<1>7. CASE FinishRecording BY <1>7 DEF FinishRecording, Input, Begin, Kinds, TypeOK
<1>8. CASE Submit
  <2>1. awaited' \in Kinds /\ jobs' \subseteq Kinds /\ answer' = answer
    BY <1>8 DEF Submit, Begin, Kinds, TypeOK
  <2> QED BY <1>8, <2>1 DEF Submit, Input, TypeOK
<1>9. CASE Adopt BY <1>9 DEF Adopt, Input, Begin, Kinds, TypeOK
<1>10. CASE Open
  <2>1. PICK sel \in Selections : Choose(sel) BY <1>10 DEF Open, Selections, TypeOK
  <2>2. selected' \in Selections /\ publication' \in Publications BY <2>1, ChooseType
  <2>3. awaited' \in Kinds \cup {"none"} /\ jobs' \subseteq Kinds /\ answer' = answer
    BY <1>10 DEF Open, Begin, Kinds, TypeOK
  <2> QED BY <1>10, <2>2, <2>3 DEF Open, Input, TypeOK, Publications
<1> QED BY <1>1, <1>2, <1>3, <1>4, <1>5, <1>6, <1>7, <1>8, <1>9, <1>10 DEF Event

\* A result that is applied: the list, the selection and the publication.
LEMMA UpsertTypes ==
    ASSUME TypeOK, NEW got \in SUBSET Sessions, Upsert(got)
    PROVE  /\ shown' \subseteq Sessions /\ selected' \in Selections /\ epoch' \in Nat
           /\ publication' \in Publications
<1>1. CASE got = {} BY <1>1 DEF Upsert, TypeOK, listVars, Publications
<1>2. CASE got # {}
  <2>1. shown' \in SUBSET Sessions /\ epoch' \in Nat BY <1>2 DEF Upsert, TypeOK
  <2>2. \A s \in got : Reconciled(shown', matching, s) \in Selections
    BY <2>1, ReconciledType DEF TypeOK, Selections
  <2>3. selected' \in Selections BY <1>2, <2>2 DEF Upsert
  <2>4. Reconciled(shown', matching, selected) \in Selections
    BY <2>1, ReconciledType DEF TypeOK
  <2>5. Synced(publication, Reconciled(shown', matching, selected)) \in Publications
    BY <2>4, SyncedType DEF TypeOK, Publications
  <2>6. publication' \in Publications BY <1>2, <2>3, <2>5, SyncedType DEF Upsert
  <2> QED BY <2>1, <2>3, <2>6
<1> QED BY <1>1, <1>2

LEMMA PollInteractionTypes == ASSUME TypeOK, PollInteraction PROVE TypeOK'
<1> USE TuiAssumption DEF TuiAssumption, serverVars, listVars, publishVars, jobVars,
                          composerVars, endVars
<1>1. CASE answer.state # "ok"
  BY <1>1 DEF PollInteraction, ApplyError, NoAnswer, NoDictation, TypeOK
<1>2. CASE answer.state = "ok"
  <2>1. Apply(awaited, answer.got) /\ answer.got \in SUBSET Sessions
    BY <1>2 DEF PollInteraction, TypeOK
  <2>2. /\ shown' \subseteq Sessions /\ selected' \in Selections /\ epoch' \in Nat
        /\ publication' \in Publications
    <3>1. CASE awaited \in {"create", "adopt"}
      BY <2>1, <3>1, UpsertTypes DEF Apply, Created
    <3>2. CASE awaited \notin {"create", "adopt"}
      BY <2>1, <3>2 DEF Apply, TypeOK, Publications
    <3> QED BY <3>1, <3>2
  <2>3. refresh' \in Refreshes BY <2>1 DEF Apply, Asked, TypeOK, Refreshes
  <2>4. /\ composer' \in BOOLEAN /\ generation' \in Nat /\ recording' \in Nat
        /\ voice' \in {"idle", "recording", "transcribing", "failed"} /\ heard' \subseteq Nat
    <3>1. heard \cup {dictation.start} \subseteq Nat BY DEF TypeOK
    <3>2. \/ NewGeneration(FALSE) \/ UNCHANGED composerVars
          \/ Transcribed
      BY <2>1 DEF Apply, Created, Sent
    <3>3. CASE NewGeneration(FALSE)
      <4>1. composer' \in BOOLEAN BY <3>3, Zenon DEF NewGeneration
      <4> QED BY <3>3, <4>1 DEF NewGeneration, TypeOK
    <3>4. CASE UNCHANGED composerVars BY <3>4 DEF TypeOK
    <3>5. CASE Transcribed BY <3>1, <3>5 DEF Transcribed, TypeOK
    <3> QED BY <3>2, <3>3, <3>4, <3>5
  <2> QED BY <1>2, <2>2, <2>3, <2>4
        DEF PollInteraction, NoAnswer, NoDictation, TypeOK, Refreshes, Publications
<1> QED BY <1>1, <1>2

LEMMA FrameTypes == ASSUME TypeOK, Frame PROVE TypeOK'
<1> USE TuiAssumption DEF TuiAssumption, serverVars, listVars, publishVars, jobVars,
                          composerVars, endVars
<1>1. CASE PollPublication
  <2>1. published' \in Selections BY <1>1 DEF PollPublication, Acknowledged, TypeOK
  <2>2. [publication EXCEPT !.state = "idle"] \in Publications BY DEF TypeOK, Publications
  <2>3. publication.queued \in SUBSET Selections BY DEF TypeOK
  <2>4. publication' \in Publications
    BY <1>1, <2>1, <2>2, <2>3, SpawnedType DEF PollPublication
  <2> QED BY <1>1, <2>1, <2>4 DEF PollPublication, TypeOK, Publications
<1>2. CASE PollInteraction BY <1>2, PollInteractionTypes
<1>3. CASE PollRefresh
  <2>1. CASE Applies
    <3>1. shown' \in SUBSET Sessions BY <1>3, <2>1 DEF PollRefresh, TypeOK
    <3>2. Reconciled(shown', matching, selected) \in Selections
      BY <3>1, ReconciledType DEF TypeOK
    <3>3. selected' \in Selections /\ publication' \in Publications
      BY <1>3, <2>1, <3>2, ChooseType DEF PollRefresh
    <3> QED BY <1>3, <3>1, <3>3 DEF PollRefresh, NoRefresh, TypeOK, Publications
  <2>2. CASE ~ Applies BY <1>3, <2>2 DEF PollRefresh, NoRefresh, TypeOK
  <2> QED BY <2>1, <2>2
<1>4. CASE SpawnRefresh BY <1>4 DEF SpawnRefresh, Asked, TypeOK
<1> QED BY <1>1, <1>2, <1>3, <1>4 DEF Frame

LEMMA TaskTypes == ASSUME TypeOK, Task PROVE TypeOK'
<1> USE TuiAssumption DEF TuiAssumption, serverVars, listVars, publishVars, jobVars,
                          composerVars, endVars
<1>1. CASE Publish
  <2>1. \A state \in {"ok", "failed"} :
          [publication EXCEPT !.state = state] \in Publications
    BY DEF TypeOK, Publications
  <2>2. publication' \in Publications /\ publication.sel \in Selections
    BY <1>1, <2>1 DEF Publish, TypeOK
  <2>3. served' \in Selections /\ faults' \in 0 .. MaxFaults
    BY <1>1, <2>2 DEF Publish, Fault, TypeOK
  <2>4. lost \in BOOLEAN BY DEF TypeOK
  <2>5. lost' \in BOOLEAN BY <1>1, <2>4, Zenon DEF Publish
  <2> QED BY <1>1, <2>2, <2>3, <2>5 DEF Publish, TypeOK, Publications
<1>2. CASE Fetch
  <2>1. /\ [refresh EXCEPT !.state = "got", !.list = alive] \in Refreshes
        /\ [refresh EXCEPT !.state = "failed"] \in Refreshes
    BY DEF TypeOK, Refreshes
  <2>2. refresh' \in Refreshes /\ faults' \in 0 .. MaxFaults
    BY <1>2, <2>1 DEF Fetch, Fault, TypeOK
  <2> QED BY <1>2, <2>2 DEF Fetch, TypeOK, Refreshes
<1>3. CASE Serve
  <2>1. /\ alive' \subseteq Sessions /\ unborn' \subseteq Sessions /\ answer' \in Answers
        /\ faults' \in 0 .. MaxFaults
    <3>1. PICK kind \in jobs :
            IF kind \in {"create", "adopt"}
            THEN \E new \in SUBSET unborn :
                    /\ alive' = alive \cup new /\ unborn' = unborn \ new
                    /\ \/ kind = "create" /\ Reply("ok", new) /\ UNCHANGED faults
                       \/ /\ kind = "adopt" /\ UNCHANGED faults
                          /\ \E s \in alive' : new \subseteq {s} /\ Reply("ok", {s})
                       \/ Fault /\ Reply("failed", {})
            ELSE /\ Reply("ok", {}) \/ Reply("failed", {})
                 /\ UNCHANGED <<serverVars, faults>>
      BY <1>3 DEF Serve
    <3>2. CASE kind \in {"create", "adopt"}
      <4>1. PICK new \in SUBSET unborn :
              /\ alive' = alive \cup new /\ unborn' = unborn \ new
              /\ \/ kind = "create" /\ Reply("ok", new) /\ UNCHANGED faults
                 \/ /\ kind = "adopt" /\ UNCHANGED faults
                    /\ \E s \in alive' : new \subseteq {s} /\ Reply("ok", {s})
                 \/ Fault /\ Reply("failed", {})
        BY <3>1, <3>2
      <4>2. new \in SUBSET Sessions /\ alive' \in SUBSET Sessions
            /\ unborn' \in SUBSET Sessions
        BY <4>1 DEF TypeOK
      <4>3. faults' \in 0 .. MaxFaults BY <4>1 DEF Fault, TypeOK
      <4>4. \E got \in SUBSET Sessions : Reply("ok", got) \/ Reply("failed", got)
        BY <4>1, <4>2
      <4>5. PICK got \in SUBSET Sessions : Reply("ok", got) \/ Reply("failed", got)
        BY <4>4
      <4>6. answer' \in Answers
        <5>1. CASE Reply("ok", got) BY <5>1 DEF Reply, Answers
        <5>2. CASE Reply("failed", got) BY <5>2 DEF Reply, Answers
        <5> QED BY <4>5, <5>1, <5>2
      <4> QED BY <4>2, <4>3, <4>6
    <3>3. CASE kind \notin {"create", "adopt"}
      <4>1. (Reply("ok", {}) \/ Reply("failed", {})) /\ UNCHANGED <<serverVars, faults>>
        BY <3>1, <3>3
      <4>2. answer' \in Answers BY <4>1 DEF Reply, Answers
      <4> QED BY <4>1, <4>2 DEF TypeOK
    <3> QED BY <3>2, <3>3
  <2> QED BY <1>3, <2>1 DEF Serve, TypeOK, Answers
<1> QED BY <1>1, <1>2, <1>3 DEF Task

LEMMA TypeStep == ASSUME TypeOK, [Next]_vars PROVE TypeOK'
<1> USE TuiAssumption DEF TuiAssumption, serverVars, listVars, publishVars, jobVars,
                          composerVars, endVars
<1>1. CASE Quit
  <2>1. refresh' \in Refreshes /\ answer' \in Answers /\ dictation' \in [start : Nat, sent : Nat]
    BY <1>1 DEF Quit, NoRefresh, NoAnswer, NoDictation, Refreshes, Answers
  <2>2. shown' \subseteq Sessions /\ matching' \subseteq Sessions /\ alive' \subseteq Sessions
        /\ unborn' \subseteq Sessions /\ jobs' \subseteq Kinds /\ heard' \subseteq Nat
    BY <1>1 DEF Quit
  <2>3. selected' \in Selections /\ inputs' \in 0 .. MaxInputs BY <1>1 DEF Quit, Selections
  <2> QED BY <1>1, <2>1, <2>2, <2>3 DEF Quit, TypeOK, Refreshes, Answers
<1>2. CASE Clear
  <2>1. published' \in Selections BY <1>2 DEF Clear, Acknowledged, TypeOK, Selections
  <2>2. publication' \in Publications BY <1>2 DEF Clear, Idle, Publications, TypeOK, Selections
  <2>3. stage' = "done" /\ faults' \in 0 .. MaxFaults BY <1>2 DEF Clear, Fault, TypeOK
  <2>5. cleared \in BOOLEAN BY DEF TypeOK
  <2>6. lost' \in BOOLEAN /\ cleared' \in BOOLEAN BY <1>2, <2>5, Zenon DEF Clear
  <2>4. served' \in Selections BY <1>2 DEF Clear, TypeOK, Selections
  <2> QED BY <1>2, <2>1, <2>2, <2>3, <2>4, <2>6 DEF Clear, TypeOK, Publications
<1>3. CASE ServerChanges
  <2>1. alive' \subseteq Sessions /\ unborn' \subseteq Sessions
    BY <1>3 DEF ServerChanges, TypeOK
  <2> QED BY <1>3, <2>1 DEF ServerChanges, TypeOK
<1>4. CASE UNCHANGED vars BY <1>4 DEF vars, TypeOK
<1> QED BY <1>1, <1>2, <1>3, <1>4, EventTypes, FrameTypes, TaskTypes DEF Next

\* The types of the interface's state, for any set of sessions.
THEOREM TypeCorrect == Spec => []TypeOK
<1>1. Init => TypeOK BY InitTypes
<1>2. TypeOK /\ [Next]_vars => TypeOK' BY TypeStep
<1> QED BY <1>1, <1>2, PTL DEF Spec

-----------------------------------------------------------------------------
(* The list. *)

LEMMA ServeIsFresh == ASSUME TypeOK, Fresh, Serve PROVE Fresh'
<1>1. UNCHANGED <<shown, refresh, epoch>> BY DEF Serve, listVars
<1>2. \E new \in SUBSET unborn :
        /\ alive' = alive \cup new /\ unborn' = unborn \ new
        /\ answer'.got \subseteq alive'
  <2>1. PICK kind \in jobs :
          IF kind \in {"create", "adopt"}
          THEN \E new \in SUBSET unborn :
                  /\ alive' = alive \cup new /\ unborn' = unborn \ new
                  /\ \/ kind = "create" /\ Reply("ok", new) /\ UNCHANGED faults
                     \/ /\ kind = "adopt" /\ UNCHANGED faults
                        /\ \E s \in alive' : new \subseteq {s} /\ Reply("ok", {s})
                     \/ Fault /\ Reply("failed", {})
          ELSE /\ Reply("ok", {}) \/ Reply("failed", {})
               /\ UNCHANGED <<serverVars, faults>>
    BY DEF Serve
  <2>2. CASE kind \in {"create", "adopt"} BY <2>1, <2>2 DEF Reply
  <2>3. CASE kind \notin {"create", "adopt"}
    <3>1. alive' = alive /\ unborn' = unborn /\ answer'.got = {}
      BY <2>1, <2>3 DEF Reply, serverVars
    <3> QED BY <3>1
  <2> QED BY <2>2, <2>3
<1>3. PICK new \in SUBSET unborn :
        /\ alive' = alive \cup new /\ unborn' = unborn \ new
        /\ answer'.got \subseteq alive'
  BY <1>2
<1>4. shown \cap alive' = shown \cap alive BY <1>3 DEF Fresh
<1>5. alive' \cap unborn' = {} BY <1>3 DEF Fresh
<1>6. shown' \cap unborn' = {} /\ refresh'.list \cap unborn' = {} BY <1>1, <1>3 DEF Fresh
<1> QED BY <1>1, <1>3, <1>4, <1>5, <1>6 DEF Fresh

LEMMA PollInteractionIsFresh == ASSUME TypeOK, Fresh, PollInteraction PROVE Fresh'
<1>1. alive' = alive /\ unborn' = unborn /\ answer'.got = {}
  BY DEF PollInteraction, serverVars, NoAnswer
<1>2. \/ shown' = shown /\ epoch' = epoch
      \/ shown' = shown \cup answer.got /\ epoch' = epoch + 1 /\ refresh' = refresh
  BY DEF PollInteraction, Apply, ApplyError, Created, Upsert, listVars
<1>3. refresh' = refresh \/ refresh' = Asked
  BY DEF PollInteraction, Apply, ApplyError
<1>4. CASE shown' = shown /\ epoch' = epoch
  BY <1>1, <1>3, <1>4 DEF Fresh, Asked, TypeOK
<1>5. CASE shown' = shown \cup answer.got /\ epoch' = epoch + 1 /\ refresh' = refresh
  <2>1. refresh.epoch \in Nat /\ epoch \in Nat BY DEF TypeOK
  <2>2. refresh.epoch < epoch + 1 BY <2>1 DEF Fresh
  <2>3. shown' \cap unborn' = {} BY <1>1, <1>5 DEF Fresh
  <2> QED BY <1>1, <1>5, <2>1, <2>2, <2>3 DEF Fresh
<1> QED BY <1>2, <1>4, <1>5

LEMMA FreshStep == ASSUME TypeOK, Fresh, [Next]_vars PROVE Fresh'
<1> USE DEF serverVars, listVars, jobVars, endVars
<1>1. CASE UNCHANGED <<alive, unborn, shown, answer, refresh, epoch>>
  BY <1>1 DEF Fresh
<1>2. ASSUME refresh' = Asked, UNCHANGED <<alive, unborn, shown, answer, epoch>>
      PROVE  Fresh'
  BY <1>2 DEF Fresh, Asked, TypeOK
<1>3. CASE Event
  <2>1. CASE ManualRefresh BY <2>1, <1>2 DEF ManualRefresh
  <2>2. CASE FinishRecording \/ Submit \/ Adopt \/ Open
    BY <1>1, <2>2 DEF FinishRecording, Submit, Adopt, Open, Begin, Choose
  <2>3. CASE Move \/ SetFilter \/ OpenComposer \/ Escape \/ StartRecording
    BY <1>1, <2>3 DEF Move, SetFilter, OpenComposer, Escape, StartRecording
  <2> QED BY <1>3, <2>1, <2>2, <2>3 DEF Event
<1>4. CASE PollPublication BY <1>1, <1>4 DEF PollPublication
<1>5. CASE PollRefresh
  <2>1. shown' = shown \/ shown' = refresh.list BY <1>5 DEF PollRefresh
  <2>2. refresh' = NoRefresh /\ UNCHANGED <<alive, unborn, answer, epoch>>
    BY <1>5 DEF PollRefresh
  <2> QED BY <2>1, <2>2 DEF Fresh, NoRefresh, TypeOK
<1>6. CASE SpawnRefresh BY <1>2, <1>6 DEF SpawnRefresh
<1>7. CASE Fetch
  <2>1. UNCHANGED <<alive, unborn, shown, answer, epoch>> BY <1>7 DEF Fetch
  <2>2. \/ refresh' = [refresh EXCEPT !.state = "got", !.list = alive]
        \/ refresh' = [refresh EXCEPT !.state = "failed"]
    BY <1>7 DEF Fetch
  <2>3. refresh'.epoch = refresh.epoch /\ refresh'.list \cap unborn = {}
    BY <2>2 DEF Fresh, TypeOK
  <2>4. refresh'.state = "got" => refresh'.list = alive BY <2>2 DEF TypeOK
  <2> QED BY <2>1, <2>3, <2>4 DEF Fresh
<1>8. CASE Publish BY <1>1, <1>8 DEF Publish
<1>9. CASE Quit BY <1>9 DEF Quit, Fresh, NoRefresh, NoAnswer
<1>10. CASE Clear BY <1>1, <1>10 DEF Clear
<1>11. CASE ServerChanges
  <2>1. UNCHANGED <<shown, answer, refresh, epoch>> BY <1>11 DEF ServerChanges
  <2>2. alive' \cap unborn' = {} /\ unborn' \subseteq unborn
    BY <1>11 DEF ServerChanges, Fresh
  <2>3. shown \cap alive' \subseteq shown \cap alive BY <1>11 DEF ServerChanges, Fresh
  <2> QED BY <2>1, <2>2, <2>3 DEF Fresh
<1>12. CASE UNCHANGED vars BY <1>1, <1>12 DEF vars
<1> QED BY <1>3, <1>4, <1>5, <1>6, <1>7, <1>8, <1>9, <1>10, <1>11, <1>12,
           PollInteractionIsFresh, ServeIsFresh
      DEF Next, Frame, Task

(***************************************************************************)
(* A refresh that was fetched before a session was added, by whatever      *)
(* interleaving of tasks, events and changes at the server, does not drop  *)
(* it from the list: PollRefresh of app.rs with its refresh_epoch.         *)
(***************************************************************************)
THEOREM ListingIsKept == Spec => ListedStays
<1>1. Init => TypeOK /\ Fresh
  <2>1. ASSUME Init PROVE Fresh
    <3>1. shown = {} /\ refresh.epoch = 0 /\ refresh.list = {} /\ answer.got = {} /\ epoch = 0
      BY <2>1 DEF Init, NoRefresh, NoAnswer
    <3>2. alive \cap unborn = {} BY <2>1 DEF Init
    <3> QED BY <3>1, <3>2 DEF Fresh
  <2> QED BY <2>1, InitTypes
<1>2. TypeOK /\ Fresh /\ [Next]_vars => TypeOK' /\ Fresh' BY TypeStep, FreshStep
<1>3. ASSUME TypeOK, Fresh, [Next]_vars, stage' = "run"
      PROVE  shown \cap alive \subseteq shown'
  <2> USE DEF listVars
  <2>1. CASE Event
    BY <2>1 DEF Event, Move, SetFilter, ManualRefresh, OpenComposer, Escape, StartRecording,
                FinishRecording, Submit, Adopt, Open
  <2>2. CASE PollRefresh
    <3>1. CASE Applies
      <4>1. shown' = refresh.list BY <2>2, <3>1 DEF PollRefresh
      <4>2. shown \cap alive \subseteq refresh.list BY <1>3, <3>1 DEF Applies, Fresh
      <4> QED BY <4>1, <4>2
    <3>2. CASE ~ Applies BY <2>2, <3>2 DEF PollRefresh
    <3> QED BY <3>1, <3>2
  <2>3. CASE PollInteraction
    BY <2>3 DEF PollInteraction, Apply, ApplyError, Created, Upsert
  <2>4. CASE PollPublication \/ SpawnRefresh \/ Task \/ ServerChanges
    BY <2>4 DEF PollPublication, SpawnRefresh, Task, Publish, Fetch, Serve, ServerChanges
  <2>5. CASE Quit \/ Clear BY <1>3, <2>5 DEF Quit, Clear
  <2>6. CASE UNCHANGED vars BY <2>6 DEF vars
  <2> QED BY <1>3, <2>1, <2>2, <2>3, <2>4, <2>5, <2>6 DEF Next, Frame
<1>4. TypeOK /\ Fresh /\ [Next]_vars => [stage' = "run" => shown \cap alive \subseteq shown']_vars
  BY <1>3
<1> QED BY <1>1, <1>2, <1>4, PTL DEF Spec, ListedStays

-----------------------------------------------------------------------------
(* The composer. *)

\* What a step does to the composer, if it does anything.
LEMMA ComposerStep ==
    ASSUME TypeOK, Owned, [Next]_vars
    PROVE  \/ UNCHANGED <<composerVars, dictation>>
           \/ UNCHANGED dictation /\ (NewGeneration(TRUE) \/ NewGeneration(FALSE))
           \/ UNCHANGED dictation /\ StartRecording
           \/ FinishRecording
           \/ PollInteraction
           \/ Quit
<1>1. CASE Event
  <2>1. CASE Move \/ SetFilter \/ ManualRefresh \/ Submit \/ Adopt \/ Open
    BY <2>1 DEF Move, SetFilter, ManualRefresh, Submit, Adopt, Open
  <2>2. CASE OpenComposer BY <2>2 DEF OpenComposer
  <2>3. CASE Escape BY <2>3 DEF Escape
  <2>4. CASE StartRecording BY <2>4 DEF StartRecording
  <2> QED BY <1>1, <2>1, <2>2, <2>3, <2>4 DEF Event
<1>2. CASE Frame
  BY <1>2 DEF Frame, PollPublication, PollRefresh, SpawnRefresh
<1>3. CASE Task \/ Clear \/ ServerChanges
  BY <1>3 DEF Task, Publish, Fetch, Serve, Clear, ServerChanges
<1>4. CASE UNCHANGED vars BY <1>4 DEF vars
<1> QED BY <1>1, <1>2, <1>3, <1>4 DEF Next

LEMMA OwnedStep == ASSUME TypeOK, Owned, [Next]_vars PROVE Owned'
<1> USE DEF Owned, TranscriptsStay
<1>1. CASE UNCHANGED <<composerVars, dictation>> BY <1>1 DEF composerVars
<1>2. CASE UNCHANGED dictation /\ (NewGeneration(TRUE) \/ NewGeneration(FALSE))
  BY <1>2 DEF NewGeneration
<1>3. CASE UNCHANGED dictation /\ StartRecording
  BY <1>3 DEF StartRecording, Input
<1>4. CASE FinishRecording
  <2>1. composer /\ UNCHANGED <<composer, generation, heard>> /\ recording' = 0
    BY <1>4 DEF FinishRecording
  <2>2. recording = generation BY <1>4 DEF FinishRecording
  <2>3. dictation'.start = dictation'.sent BY <1>4, <2>2 DEF FinishRecording
  <2> QED BY <2>1, <2>3
<1>5. CASE PollInteraction
  <2>1. dictation'.start = dictation'.sent BY <1>5 DEF PollInteraction, NoDictation
  <2>2. \/ NewGeneration(FALSE) \/ UNCHANGED composerVars \/ Transcribed
        \/ UNCHANGED <<composer, generation, recording, heard>>
    BY <1>5 DEF PollInteraction, Apply, ApplyError, Created, Sent
  <2>3. CASE NewGeneration(FALSE) BY <2>1, <2>3 DEF NewGeneration
  <2>4. CASE UNCHANGED <<composer, generation, recording, heard>> BY <2>1, <2>4
  <2>5. CASE UNCHANGED composerVars BY <2>1, <2>5 DEF composerVars
  <2>6. CASE Transcribed
    <3>1. UNCHANGED <<composer, generation, recording>> BY <2>6 DEF Transcribed
    <3>2. CASE Inserts
      <4>1. dictation.start = generation /\ composer BY <3>2 DEF Inserts
      <4>2. heard' = heard \cup {generation} BY <2>6, <3>2, <4>1 DEF Transcribed
      <4> QED BY <2>1, <3>1, <4>1, <4>2
    <3>3. CASE ~ Inserts BY <2>1, <2>6, <3>1, <3>3 DEF Transcribed
    <3> QED BY <3>2, <3>3
  <2> QED BY <2>2, <2>3, <2>4, <2>5, <2>6
<1>6. CASE Quit BY <1>6 DEF Quit, NoDictation
<1> QED BY <1>1, <1>2, <1>3, <1>4, <1>5, <1>6, ComposerStep

(***************************************************************************)
(* Dictated text stays with its composer, however composers are closed and *)
(* opened while it is transcribed: insert_voice_transcript of app.rs.      *)
(***************************************************************************)
THEOREM TranscriptsAreKept == Spec => []TranscriptsStay
<1>1. Init => TypeOK /\ Owned
  <2>1. ASSUME Init PROVE Owned
    <3>1. dictation.start = dictation.sent BY <2>1 DEF Init, NoDictation
    <3>2. heard = {} /\ recording = 0 BY <2>1 DEF Init
    <3> QED BY <3>1, <3>2 DEF Owned, TranscriptsStay
  <2> QED BY <2>1, InitTypes
<1>2. TypeOK /\ Owned /\ [Next]_vars => TypeOK' /\ Owned' BY TypeStep, OwnedStep
<1>3. Owned => TranscriptsStay BY DEF Owned
<1> QED BY <1>1, <1>2, <1>3, PTL DEF Spec

-----------------------------------------------------------------------------
(* The interactions and the end. *)

(***************************************************************************)
(* No interaction takes another's place: begin_pending_interaction starts  *)
(* a task only when none is awaited, and its result ends both.             *)
(***************************************************************************)
THEOREM InteractionsAreAlone == Spec => []OneInteraction
<1> USE DEF OneInteraction
<1>1. Init => TypeOK /\ OneInteraction BY InitTypes DEF Init
<1>2. ASSUME TypeOK, OneInteraction, [Next]_vars PROVE OneInteraction'
  <2> USE DEF jobVars
  <2>1. CASE UNCHANGED <<awaited, jobs>> BY <1>2, <2>1
  <2>2. ASSUME NEW kind \in Kinds, Begin(kind) PROVE OneInteraction'
    BY <1>2, <2>2 DEF Begin, Kinds
  <2>3. CASE Event
    <3>1. CASE Submit \/ Adopt \/ FinishRecording
      BY <2>2, <3>1 DEF Submit, Adopt, FinishRecording, Kinds
    <3>2. CASE Open BY <2>1, <2>2, <3>2 DEF Open, Kinds
    <3>3. CASE ~ (Submit \/ Adopt \/ FinishRecording \/ Open)
      BY <2>1, <2>3, <3>3 DEF Event, Move, SetFilter, ManualRefresh, OpenComposer, Escape,
                              StartRecording
    <3> QED BY <3>1, <3>2, <3>3
  <2>4. CASE PollInteraction BY <1>2, <2>4 DEF PollInteraction
  <2>5. CASE Quit BY <2>5 DEF Quit
  <2>6. CASE PollPublication \/ PollRefresh \/ SpawnRefresh \/ Task \/ Clear \/ ServerChanges
    BY <2>1, <2>6 DEF PollPublication, PollRefresh, SpawnRefresh, Task, Publish, Fetch, Serve,
                      Clear, ServerChanges
  <2>7. CASE UNCHANGED vars BY <2>1, <2>7 DEF vars
  <2> QED BY <1>2, <2>3, <2>4, <2>5, <2>6, <2>7 DEF Next, Frame
<1>3. TypeOK /\ OneInteraction /\ [Next]_vars => TypeOK' /\ OneInteraction'
  BY <1>2, TypeStep
<1> QED BY <1>1, <1>3, PTL DEF Spec

(***************************************************************************)
(* Nothing is published after the clear: run_tui drains the publication    *)
(* under way before it clears, so none is left to overtake it.             *)
(***************************************************************************)
THEOREM ClearRemains == Spec => []ClearIsLast
<1> USE DEF Ended, endVars
<1>1. Init => Ended BY Zenon DEF Init
<1>2. ASSUME Ended, [Next]_vars PROVE Ended'
  <2>2. CASE Publish
    <3>1. CASE cleared BY <1>2, <2>2, <3>1 DEF Publish
    <3>2. CASE ~ cleared BY <1>2, <2>2, <3>2 DEF Publish
    <3> QED BY <3>1, <3>2
  <2>3. CASE Clear
    <3>1. ~ cleared BY <1>2, <2>3 DEF Clear
    <3>2. publication'.state # "sent" BY <2>3 DEF Clear, Drained, Idle
    <3>3. stage' = "done" BY <2>3 DEF Clear
    <3>4. cleared' => served' = 0 BY <2>3, <3>1 DEF Clear
    <3> QED BY <3>2, <3>3, <3>4
  <2>4. CASE Event \/ Frame \/ Fetch \/ Serve \/ Quit \/ ServerChanges
    <3>1. stage = "run" /\ cleared' = cleared
      BY <2>4 DEF Event, Move, SetFilter, ManualRefresh, OpenComposer, Escape, StartRecording,
                  FinishRecording, Submit, Adopt, Open, Input, Runs, Frame, PollPublication,
                  PollInteraction, PollRefresh, SpawnRefresh, Fetch, Serve, Quit, ServerChanges
    <3>2. ~ cleared BY <1>2, <3>1
    <3> QED BY <3>1, <3>2
  <2>5. CASE UNCHANGED vars BY <1>2, <2>5 DEF vars, publishVars
  <2> QED BY <1>2, <2>2, <2>3, <2>4, <2>5 DEF Next, Task
<1>3. Ended /\ [Next]_vars => Ended' BY <1>2
<1>4. Ended => ClearIsLast BY DEF ClearIsLast
<1> QED BY <1>1, <1>3, <1>4, PTL DEF Spec
=============================================================================
