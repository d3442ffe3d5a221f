------------------------ MODULE SessionStream_proofs ------------------------
(***************************************************************************)
(* Proofs about the stream from an actor to its browsers, for any number   *)
(* of browsers, frames and restarts and any size of ring and channels.     *)
(***************************************************************************)
EXTENDS SessionStream, SequenceTheorems, WellFoundedInduction, TLAPS

-----------------------------------------------------------------------------
(* The inductive invariant, part by part. *)

Frame == [seq : 1 .. MaxFrames, size : 1 .. Capacity, clamped : BOOLEAN]
Command == [op : {"subscribe", "unsubscribe"}, id : Ids, resume : 0 .. MaxFrames]

Typed ==
    /\ latest \in 0 .. MaxFrames /\ clearRing \in BOOLEAN /\ restarts \in Nat
    /\ ring \in Seq(Frame) /\ cmdQ \in Seq(Command)
    /\ subs \subseteq Ids /\ blocked \in Ids \cup {NoId}
    /\ conn \in [Browsers -> Ids \cup {NoId}] /\ phase \in [Browsers -> Phases]
    /\ pos \in [Browsers -> 0 .. MaxFrames] /\ seen \in [Browsers -> 0 .. MaxFrames]
    /\ told \in [Browsers -> BOOLEAN]
    /\ chan \in [Browsers -> Seq(1 .. MaxFrames)]

(* The ring holds the last frames, each behind the one before it. *)
RingInOrder ==
    /\ Len(ring) <= latest
    /\ \A k \in 1 .. Len(ring) : ring[k].seq = latest - Len(ring) + k

(* A connection has one browser; the actor broadcasts to answered ones. *)
Connected ==
    /\ \A b \in Browsers : conn[b] = NoId <=> phase[b] = "off"
    /\ \A a, b \in Browsers : conn[a] = conn[b] /\ conn[a] # NoId => a = b
    /\ \A b \in Browsers : conn[b] \in subs => Streaming(b)
    /\ \A b \in Browsers : conn[b] = blocked /\ blocked # NoId => phase[b] = "waiting"

(* A command about an open connection is the one request it waits for. *)
Requested ==
    /\ \A k \in 1 .. Len(cmdQ) : \A b \in Browsers : conn[b] = cmdQ[k].id =>
          /\ cmdQ[k].op = "subscribe" /\ cmdQ[k].resume = pos[b]
          /\ phase[b] = "waiting" /\ blocked # conn[b]
    /\ \A j, k \in 1 .. Len(cmdQ) : cmdQ[j].id = cmdQ[k].id /\ j # k =>
          \A b \in Browsers : conn[b] # cmdQ[j].id

Bounded ==
    \A b \in Browsers :
        /\ Len(chan[b]) <= ChanBound
        /\ Streaming(b) => \A k \in 1 .. Len(chan[b]) : chan[b][k] <= latest

(* Until a restart, what is rendered, what is resumed from and what waits   *)
(* in the channel follow one another.                                       *)
Ahead ==
    restarts = 0 => \A b \in Browsers :
        /\ seen[b] <= latest /\ pos[b] <= latest
        /\ phase[b] # "off" => seen[b] <= pos[b]
        /\ Streaming(b) /\ chan[b] # <<>> => pos[b] < chan[b][1]

StreamInv ==
    /\ Typed /\ RingInOrder /\ Connected /\ Requested /\ Bounded
    /\ SubscribersAreCurrent /\ StreamHasNoGap /\ Ahead

-----------------------------------------------------------------------------
(* The ring: what push keeps is an end of what was there. *)

LEMMA LeastNat ==
    ASSUME NEW S \in SUBSET Nat, S # {} PROVE \E x \in S : \A y \in S : x <= y
<1>1. PICK x \in S : \A y \in S : ~ (<<y, x>> \in OpToRel(<, Nat))
  BY NatLessThanWellFounded, WFMin
<1>2. ASSUME NEW y \in S PROVE x <= y
  <2>1. ~ (y < x) BY <1>1 DEF OpToRel
  <2> QED BY <2>1
<1> QED BY <1>2

LEMMA KeepsAnEnd ==
    ASSUME NEW frames \in Seq(Frame), NEW size
    PROVE  KeepFrom(frames, size) \in 1 .. Len(frames) + 1
<1> DEFINE Good == {k \in 1 .. Len(frames) + 1 : Fits(frames, k, size)}
<1>1. Len(frames) + 1 \in Good BY DEF Fits
<1>2. Good \in SUBSET Nat OBVIOUS
<1>3. PICK k \in Good : \A j \in Good : k <= j BY <1>1, <1>2, LeastNat
<1>4. \A j \in 1 .. k - 1 : ~ Fits(frames, j, size) BY <1>3
<1> QED BY <1>3, <1>4 DEF KeepFrom

(* The pushed ring is in order again, whatever was evicted. *)
LEMMA PushKeepsOrder ==
    ASSUME Typed, RingInOrder, latest < MaxFrames, NEW size \in Sizes,
           NEW frames, frames = ring \/ frames = <<>>
    PROVE  LET r == Push(frames, latest + 1, size)
           IN  /\ r \in Seq(Frame) /\ Len(r) <= latest + 1
               /\ \A k \in 1 .. Len(r) : r[k].seq = latest + 1 - Len(r) + k
<1> DEFINE retained == IF size > Capacity THEN Capacity ELSE size
           from == KeepFrom(frames, retained)
           new == [seq |-> latest + 1, size |-> retained, clamped |-> size > Capacity]
           kept == SubSeq(frames, from, Len(frames))
           r == Append(kept, new)
<1>1. frames \in Seq(Frame) /\ Len(frames) \in Nat /\ Len(frames) <= latest
  <2>1. CASE frames = ring BY <2>1 DEF Typed, RingInOrder
  <2>2. CASE frames = <<>> BY <2>2, StreamAssumption DEF Typed
  <2> QED BY <2>1, <2>2
<1>2. \A k \in 1 .. Len(frames) : frames[k].seq = latest - Len(frames) + k BY DEF RingInOrder
<1>3. latest \in Nat /\ MaxFrames \in Nat BY StreamAssumption DEF Typed
<1>4. new \in Frame
  <2>1. latest + 1 \in 1 .. MaxFrames BY <1>3
  <2>2. retained \in 1 .. Capacity BY StreamAssumption
  <2> QED BY <2>1, <2>2 DEF Frame
<1>5. from \in 1 .. Len(frames) + 1 BY <1>1, KeepsAnEnd
<1> HIDE DEF from, new
<1>6. /\ kept \in Seq(Frame) /\ Len(kept) = Len(frames) - from + 1
      /\ \A k \in 1 .. Len(kept) : kept[k] = frames[from + k - 1]
  BY <1>1, <1>5, SubSeqProperties
<1> HIDE DEF kept
<1>7. /\ r \in Seq(Frame) /\ Len(r) = Len(kept) + 1
      /\ \A k \in 1 .. Len(kept) : r[k] = kept[k]
      /\ r[Len(kept) + 1] = new
  BY <1>4, <1>6, AppendProperties
<1>8. new.seq = latest + 1 BY DEF new
<1> HIDE DEF r
<1>9. ASSUME NEW k \in 1 .. Len(r) PROVE r[k].seq = latest + 1 - Len(r) + k
  <2>1. CASE k = Len(kept) + 1 BY <1>1, <1>3, <1>5, <1>6, <1>7, <1>8, <2>1
  <2>2. CASE k \in 1 .. Len(kept)
    <3>1. r[k] = frames[from + k - 1] BY <1>6, <1>7, <2>2
    <3>2. from + k - 1 \in 1 .. Len(frames) BY <1>1, <1>5, <1>6, <2>2
    <3>3. frames[from + k - 1].seq = latest - Len(frames) + (from + k - 1) BY <1>2, <3>2
    <3> QED BY <1>1, <1>3, <1>5, <1>6, <1>7, <2>2, <3>1, <3>3
  <2> QED BY <1>1, <1>5, <1>6, <1>7, <2>1, <2>2
<1>10. Len(r) <= latest + 1 BY <1>1, <1>3, <1>5, <1>6, <1>7
<1>11. Push(frames, latest + 1, size) = r BY DEF Push, r, kept, from, new
<1> QED BY <1>7, <1>9, <1>10, <1>11

(* What replay_from returns is every frame after the position, in order. *)
LEMMA ReplayIsWhole ==
    ASSUME Typed, RingInOrder, NEW p \in 0 .. MaxFrames, Replayable(p + 1)
    PROVE  LET s == ReplaySeqs(p + 1)
           IN  /\ s \in Seq(1 .. MaxFrames)
               /\ Len(s) = IF p >= latest THEN 0 ELSE latest - p
               /\ \A k \in 1 .. Len(s) : s[k] = p + k
<1> DEFINE n == Len(ring)
           first == IF p + 1 <= latest - n THEN 1
                    ELSE IF p >= latest THEN n + 1 ELSE p + 1 - (latest - n)
           s == ReplaySeqs(p + 1)
<1>1. /\ ring \in Seq(Frame) /\ n \in Nat /\ n <= latest /\ latest \in Nat /\ p \in Nat
      /\ MaxFrames \in Nat /\ latest <= MaxFrames
  BY StreamAssumption DEF Typed, RingInOrder
<1>2. \A k \in 1 .. n : ring[k].seq = latest - n + k BY DEF RingInOrder
<1>3. p + 1 >= latest - n + 1
  <2>1. CASE ring = <<>> BY <1>1, <2>1 DEF Replayable, WindowStart
  <2>2. CASE ring # <<>>
    <3>1. 1 \in 1 .. n BY <1>1, <2>2
    <3>2. ring[1].seq = latest - n + 1 BY <1>2, <3>1
    <3>3. p + 1 >= ring[1].seq BY <2>2 DEF Replayable, WindowStart
    <3> QED BY <3>2, <3>3
  <2> QED BY <2>1, <2>2
<1> HIDE DEF n
<1>4. /\ first \in 1 .. n + 1
      /\ \A j \in 1 .. n : ring[j].seq >= p + 1 <=> j >= first
  BY <1>1, <1>2, <1>3
<1>5. /\ Start(p + 1) \in 1 .. n + 1
      /\ \A j \in 1 .. n : ring[j].seq >= p + 1 <=> j >= Start(p + 1)
  BY <1>4 DEF Start, n
<1>6. Start(p + 1) = first
  <2> DEFINE st == Start(p + 1)
  <2> HIDE DEF st, first
  <2>1. \A j \in 1 .. n : j >= st <=> j >= first BY <1>4, <1>5 DEF st
  <2>2. st \in 1 .. n + 1 BY <1>5 DEF st
  <2>3. st \in 1 .. n => st >= first BY <2>1, <2>2
  <2>4. first \in 1 .. n => first >= st BY <1>4, <2>1
  <2>5. st = first BY <1>1, <1>4, <2>2, <2>3, <2>4
  <2> QED BY <2>5 DEF st
<1>7. n - first + 1 = IF p >= latest THEN 0 ELSE latest - p BY <1>1, <1>3
<1> HIDE DEF first
<1>8. /\ From(p + 1) \in Seq(Frame) /\ Len(From(p + 1)) = n - first + 1
      /\ \A k \in 1 .. Len(From(p + 1)) : From(p + 1)[k] = ring[first + k - 1]
  <2>1. From(p + 1) = SubSeq(ring, first, n) BY <1>6 DEF From, n
  <2>2. \A i \in first .. n : ring[i] \in Frame BY <1>1, <1>4 DEF n
  <2>3. first \in Int /\ n \in Int BY <1>1, <1>4
  <2>4. /\ SubSeq(ring, first, n) \in Seq(Frame)
        /\ Len(SubSeq(ring, first, n)) = IF first <= n THEN n - first + 1 ELSE 0
        /\ \A i \in 1 .. n - first + 1 : SubSeq(ring, first, n)[i] = ring[first + i - 1]
    BY <2>2, <2>3, SubSeqProperties
  <2>5. (IF first <= n THEN n - first + 1 ELSE 0) = n - first + 1 BY <1>1, <1>4
  <2> QED BY <2>1, <2>4, <2>5
<1>9. /\ s = [k \in 1 .. Len(From(p + 1)) |-> From(p + 1)[k].seq]
      /\ \A k \in 1 .. Len(From(p + 1)) : From(p + 1)[k].seq \in 1 .. MaxFrames
  <2>1. ASSUME NEW k \in 1 .. Len(From(p + 1)) PROVE From(p + 1)[k].seq \in 1 .. MaxFrames
    <3>1. From(p + 1)[k] \in Frame BY <1>8
    <3> QED BY <3>1 DEF Frame
  <2>2. s = [k \in 1 .. Len(From(p + 1)) |-> From(p + 1)[k].seq] BY DEF ReplaySeqs
  <2> QED BY <2>1, <2>2
<1>10. s \in Seq(1 .. MaxFrames) /\ Len(s) = Len(From(p + 1))
  <2> DEFINE f == From(p + 1)
  <2>1. Len(f) \in Nat BY <1>8
  <2> HIDE DEF f, s
  <2>2. s \in [1 .. Len(f) -> 1 .. MaxFrames] BY <1>9 DEF f
  <2>3. s \in Seq(1 .. MaxFrames) BY <2>1, <2>2, SeqDef
  <2>4. Len(s) \in Nat /\ DOMAIN s = 1 .. Len(s) BY <2>3, LenProperties
  <2>5. Len(s) = Len(f) BY <2>1, <2>2, <2>4
  <2> QED BY <2>3, <2>5 DEF f
<1>11. ASSUME NEW k \in 1 .. Len(s) PROVE s[k] = p + k
  <2>1. s[k] = ring[first + k - 1].seq BY <1>8, <1>9, <1>10
  <2>2. first + k - 1 \in 1 .. n BY <1>1, <1>4, <1>8, <1>10
  <2>3. s[k] = latest - n + (first + k - 1) BY <1>2, <2>1, <2>2
  <2>4. p < latest BY <1>1, <1>8, <1>7, <1>10
  <2>5. first = p + 1 - (latest - n) BY <1>1, <1>3, <2>4 DEF first
  <2> QED BY <1>1, <2>3, <2>5
<1> QED BY <1>8, <1>7, <1>10, <1>11

-----------------------------------------------------------------------------
(* One lemma for each action. *)

LEMMA CommandsAreTyped ==
    ASSUME Typed
    PROVE  \A k \in 1 .. Len(cmdQ) : cmdQ[k] \in Command /\ cmdQ[k].id \in Ids
<1>1. \A k \in 1 .. Len(cmdQ) : cmdQ[k] \in Command BY ElementOfSeq DEF Typed
<1> QED BY <1>1 DEF Command

(* Commands stay the requests of their connections while the queue rests.   *)
LEMMA RequestedRests ==
    ASSUME Typed, Requested, cmdQ' = cmdQ, blocked' \in {blocked, NoId},
           \A a \in Browsers : \A k \in 1 .. Len(cmdQ) : conn'[a] = cmdQ[k].id =>
              /\ conn'[a] = conn[a] /\ pos'[a] = pos[a]
              /\ phase[a] = "waiting" => phase'[a] = "waiting"
    PROVE  Requested'
<1>1. \A k \in 1 .. Len(cmdQ) : cmdQ[k].id \in Ids BY CommandsAreTyped
<1>2. NoId \notin Ids BY StreamAssumption
<1>3. ASSUME NEW k \in 1 .. Len(cmdQ'), NEW a \in Browsers, conn'[a] = cmdQ'[k].id
      PROVE  /\ cmdQ'[k].op = "subscribe" /\ cmdQ'[k].resume = pos'[a]
             /\ phase'[a] = "waiting" /\ blocked' # conn'[a]
  BY <1>1, <1>2, <1>3 DEF Requested
<1>4. ASSUME NEW j \in 1 .. Len(cmdQ'), NEW k \in 1 .. Len(cmdQ'), cmdQ'[j].id = cmdQ'[k].id, j # k,
             NEW a \in Browsers
      PROVE  conn'[a] # cmdQ'[j].id
  BY <1>4 DEF Requested
<1> QED BY <1>3, <1>4 DEF Requested

LEMMA ReadyKeeps ==
    ASSUME StreamInv, NEW b \in Browsers, Ready(b) PROVE StreamInv'
<1> USE DEF StreamInv
<1>1. Typed' BY DEF Typed, Ready, actorVars, Phases
<1>2. RingInOrder' BY DEF RingInOrder, Ready, actorVars
<1>3. Connected' BY DEF Typed, Connected, Streaming, Ready, actorVars
<1>4. Requested' BY DEF Requested, Streaming, Ready, actorVars
<1>5. Bounded' BY DEF Bounded, Streaming, Ready, actorVars
<1>6. SubscribersAreCurrent' BY DEF SubscribersAreCurrent, Streaming, Ready, actorVars
<1>7. StreamHasNoGap' BY DEF StreamHasNoGap, Streaming, Ready, actorVars
<1>8. Ahead' BY DEF Ahead, Streaming, Ready, actorVars
<1> QED BY <1>1, <1>2, <1>3, <1>4, <1>5, <1>6, <1>7, <1>8

LEMMA ForgetKeeps ==
    ASSUME StreamInv, NEW b \in Browsers, Forget(b) PROVE StreamInv'
<1> USE DEF StreamInv
<1>1. Typed' BY StreamAssumption DEF Typed, Forget, actorVars
<1>2. RingInOrder' BY DEF RingInOrder, Forget, actorVars
<1>3. Connected' BY DEF Typed, Connected, Streaming, Forget, actorVars
<1>4. Requested' BY RequestedRests DEF Forget, actorVars
<1>5. Bounded' BY DEF Bounded, Streaming, Forget, actorVars
<1>6. SubscribersAreCurrent' BY DEF SubscribersAreCurrent, Streaming, Forget, actorVars
<1>7. StreamHasNoGap' BY DEF StreamHasNoGap, Streaming, Forget, actorVars
<1>8. Ahead' BY DEF Typed, Ahead, Streaming, Forget, actorVars
<1> QED BY <1>1, <1>2, <1>3, <1>4, <1>5, <1>6, <1>7, <1>8

LEMMA SubscribeKeeps ==
    ASSUME StreamInv, NEW b \in Browsers, Subscribe(b) PROVE StreamInv'
<1> USE DEF StreamInv
<1>1. Typed'
  <2> DEFINE c == [op |-> "subscribe", id |-> conn[b], resume |-> pos[b]]
  <2>1. conn[b] \in Ids BY DEF Typed, Connected, Subscribe
  <2>2. c \in Command BY <2>1 DEF Typed, Command
  <2>3. cmdQ' \in Seq(Command) BY <2>2, AppendProperties DEF Typed, Subscribe
  <2> QED BY <2>3 DEF Typed, Subscribe, Phases
<1>2. RingInOrder' BY DEF RingInOrder, Subscribe
<1>3. Connected' BY DEF Typed, Connected, Streaming, Subscribe
<1>4. Requested'
  <2> DEFINE c == [op |-> "subscribe", id |-> conn[b], resume |-> pos[b]]
  <2>1. conn[b] \in Ids BY DEF Typed, Connected, Subscribe
  <2>2. c \in Command BY <2>1 DEF Typed, Command
  <2>3. /\ Len(cmdQ') = Len(cmdQ) + 1 /\ cmdQ'[Len(cmdQ) + 1] = c
        /\ \A k \in 1 .. Len(cmdQ) : cmdQ'[k] = cmdQ[k]
    BY <2>2, AppendProperties DEF Typed, Subscribe
  <2>4. \A k \in 1 .. Len(cmdQ) : cmdQ[k].id # conn[b] BY DEF Requested, Subscribe
  <2>5. c.op = "subscribe" /\ c.id = conn[b] /\ c.resume = pos[b] OBVIOUS
  <2> HIDE DEF c
  <2>6. /\ conn' = conn /\ pos' = pos /\ blocked' = blocked /\ phase[b] = "cursor"
        /\ phase' = [phase EXCEPT ![b] = "waiting"] /\ phase \in [Browsers -> Phases]
    BY DEF Subscribe, Typed
  <2>7. ASSUME NEW k \in 1 .. Len(cmdQ'), NEW a \in Browsers, conn'[a] = cmdQ'[k].id
        PROVE  /\ cmdQ'[k].op = "subscribe" /\ cmdQ'[k].resume = pos'[a]
               /\ phase'[a] = "waiting" /\ blocked' # conn'[a]
    <3>1. CASE k \in 1 .. Len(cmdQ) BY <2>3, <2>4, <2>6, <2>7, <3>1 DEF Requested
    <3>2. CASE k = Len(cmdQ) + 1
      <4>1. a = b BY <2>1, <2>3, <2>5, <2>6, <2>7, <3>2, StreamAssumption DEF Connected
      <4>2. blocked # conn[b] BY <2>1, <2>6, StreamAssumption DEF Connected
      <4> QED BY <2>3, <2>5, <2>6, <3>2, <4>1, <4>2
    <3> QED BY <2>3, <3>1, <3>2, LenProperties DEF Typed
  <2>8. ASSUME NEW j \in 1 .. Len(cmdQ'), NEW k \in 1 .. Len(cmdQ'), cmdQ'[j].id = cmdQ'[k].id, j # k,
               NEW a \in Browsers
        PROVE  conn'[a] # cmdQ'[j].id
    <3>1. CASE j \in 1 .. Len(cmdQ) /\ k \in 1 .. Len(cmdQ)
      BY <2>3, <2>6, <2>8, <3>1 DEF Requested
    <3>2. CASE j = Len(cmdQ) + 1 /\ k \in 1 .. Len(cmdQ) BY <2>3, <2>4, <2>5, <2>8, <3>2
    <3>3. CASE k = Len(cmdQ) + 1 /\ j \in 1 .. Len(cmdQ) BY <2>3, <2>4, <2>5, <2>8, <3>3
    <3> QED BY <2>3, <2>8, <3>1, <3>2, <3>3, LenProperties DEF Typed
  <2> QED BY <2>7, <2>8 DEF Requested
<1>5. Bounded' BY DEF Bounded, Streaming, Subscribe
<1>6. SubscribersAreCurrent' BY DEF SubscribersAreCurrent, Streaming, Subscribe
<1>7. StreamHasNoGap' BY DEF StreamHasNoGap, Streaming, Subscribe
<1>8. Ahead' BY DEF Ahead, Streaming, Subscribe
<1> QED BY <1>1, <1>2, <1>3, <1>4, <1>5, <1>6, <1>7, <1>8

LEMMA DropKeeps ==
    ASSUME StreamInv, NEW b \in Browsers, phase[b] # "off", Drop(b),
           UNCHANGED <<ring, latest, clearRing, subs, blocked, restarts>>,
           \/ cmdQ' = cmdQ
           \/ /\ phase[b] \in {"acked", "attached", "rejected"}
              /\ cmdQ' = Append(cmdQ, [op |-> "unsubscribe", id |-> conn[b], resume |-> 0])
    PROVE  StreamInv'
<1> USE DEF StreamInv
<1>0. conn[b] \in Ids BY DEF Typed, Connected
<1>1. Typed'
  <2> DEFINE c == [op |-> "unsubscribe", id |-> conn[b], resume |-> 0]
  <2>1. c \in Command BY <1>0, StreamAssumption DEF Command
  <2>2. Append(cmdQ, c) \in Seq(Command) BY <2>1, AppendProperties DEF Typed
  <2>3. cmdQ' \in Seq(Command) BY <2>2 DEF Typed
  <2> QED BY <2>3 DEF Typed, Drop, Phases
<1>2. RingInOrder' BY DEF RingInOrder, Drop
<1>10. /\ conn' = [conn EXCEPT ![b] = NoId] /\ phase' = [phase EXCEPT ![b] = "off"]
       /\ chan' = [chan EXCEPT ![b] = <<>>] /\ conn'[b] = NoId /\ pos' = pos /\ blocked' = blocked
       /\ phase'[b] = "off" /\ chan'[b] = <<>>
       /\ \A a \in Browsers : a # b => /\ conn'[a] = conn[a] /\ phase'[a] = phase[a]
                                       /\ chan'[a] = chan[a] /\ told'[a] = told[a]
  BY DEF Typed, Drop
<1>3. Connected' BY <1>10, StreamAssumption DEF Typed, Connected, Streaming
<1>4. Requested'
  <2>1. CASE cmdQ' = cmdQ
    <3>1. \A k \in 1 .. Len(cmdQ) : cmdQ[k].id \in Ids BY CommandsAreTyped
    <3>2. \A a \in Browsers : \A k \in 1 .. Len(cmdQ) : conn'[a] = cmdQ[k].id => a # b
      BY <1>10, <3>1, StreamAssumption
    <3> QED BY <1>10, <2>1, <3>2, RequestedRests
  <2>2. CASE /\ phase[b] \in {"acked", "attached", "rejected"}
             /\ cmdQ' = Append(cmdQ, [op |-> "unsubscribe", id |-> conn[b], resume |-> 0])
    <3> DEFINE c == [op |-> "unsubscribe", id |-> conn[b], resume |-> 0]
    <3>1. c \in Command BY <1>0, StreamAssumption DEF Command
    <3>2. /\ Len(cmdQ') = Len(cmdQ) + 1 /\ cmdQ'[Len(cmdQ) + 1] = c
          /\ \A k \in 1 .. Len(cmdQ) : cmdQ'[k] = cmdQ[k]
      BY <2>2, <3>1, AppendProperties DEF Typed
    <3>3. \A k \in 1 .. Len(cmdQ) : cmdQ[k].id # conn[b] /\ cmdQ[k].id \in Ids
      BY <2>2, CommandsAreTyped DEF Requested
    <3>4. c.id = conn[b] OBVIOUS
    <3>5. \A a \in Browsers : conn'[a] # conn[b]
      BY <1>0, <1>10, StreamAssumption DEF Connected
    <3>6. \A k \in 1 .. Len(cmdQ) + 1 : k \in 1 .. Len(cmdQ) \/ k = Len(cmdQ) + 1
      BY LenProperties DEF Typed
    <3> HIDE DEF c
    <3>7. ASSUME NEW k \in 1 .. Len(cmdQ'), NEW a \in Browsers, conn'[a] = cmdQ'[k].id
          PROVE  /\ cmdQ'[k].op = "subscribe" /\ cmdQ'[k].resume = pos'[a]
                 /\ phase'[a] = "waiting" /\ blocked' # conn'[a]
      <4>1. k \in 1 .. Len(cmdQ) BY <3>2, <3>4, <3>5, <3>6, <3>7
      <4>2. cmdQ'[k] = cmdQ[k] /\ cmdQ[k].id \in Ids BY <3>2, <3>3, <4>1
      <4>3. a # b BY <1>10, <3>7, <4>2, StreamAssumption
      <4> QED BY <1>10, <3>7, <4>1, <4>2, <4>3 DEF Requested
    <3>8. ASSUME NEW j \in 1 .. Len(cmdQ'), NEW k \in 1 .. Len(cmdQ'), cmdQ'[j].id = cmdQ'[k].id, j # k,
                 NEW a \in Browsers
          PROVE  conn'[a] # cmdQ'[j].id
      <4>1. CASE j = Len(cmdQ) + 1 BY <3>2, <3>4, <3>5, <4>1
      <4>2. CASE k = Len(cmdQ) + 1 BY <3>2, <3>4, <3>5, <3>8, <4>2
      <4>3. CASE j \in 1 .. Len(cmdQ) /\ k \in 1 .. Len(cmdQ)
        <5>1. conn[a] # cmdQ[j].id BY <3>2, <3>8, <4>3 DEF Requested
        <5> QED BY <1>10, <3>2, <3>3, <4>3, <5>1, StreamAssumption
      <4> QED BY <3>2, <3>6, <4>1, <4>2, <4>3
    <3> QED BY <3>7, <3>8 DEF Requested
  <2> QED BY <2>1, <2>2
<1>5. Bounded' BY <1>10, StreamAssumption DEF Typed, Bounded, Streaming
<1>6. SubscribersAreCurrent'
  BY <1>10 DEF Typed, SubscribersAreCurrent, Streaming, Consecutive
<1>7. StreamHasNoGap' BY <1>10 DEF Typed, StreamHasNoGap, Streaming
<1>8. Ahead' BY <1>10 DEF Typed, Ahead, Streaming, Drop
<1> QED BY <1>1, <1>2, <1>3, <1>4, <1>5, <1>6, <1>7, <1>8

LEMMA AckTimeoutKeeps ==
    ASSUME StreamInv, NEW b \in Browsers, AckTimeout(b) PROVE StreamInv'
BY DropKeeps DEF AckTimeout, actorVars

LEMMA LeaveKeeps ==
    ASSUME StreamInv, NEW b \in Browsers, phase[b] \in {"acked", "attached", "rejected"}, Leave(b)
    PROVE  StreamInv'
BY DropKeeps DEF Leave

LEMMA RenderKeeps ==
    ASSUME StreamInv, NEW b \in Browsers, Render(b) PROVE StreamInv'
<1> USE DEF StreamInv
<1> DEFINE c == chan[b]
<1>0. /\ c \in Seq(1 .. MaxFrames) /\ c # <<>> /\ Len(c) \in Nat \ {0}
      /\ Head(c) = c[1] /\ Head(c) \in 1 .. MaxFrames
      /\ Tail(c) \in Seq(1 .. MaxFrames) /\ Len(Tail(c)) = Len(c) - 1
      /\ \A k \in 1 .. Len(Tail(c)) : Tail(c)[k] = c[k + 1]
  <2>1. c \in Seq(1 .. MaxFrames) /\ c # <<>> BY DEF Typed, Render
  <2> HIDE DEF c
  <2>2. Len(c) \in Nat \ {0} BY <2>1, EmptySeq
  <2>3. Head(c) = c[1] BY <2>1
  <2>4. /\ Head(c) \in 1 .. MaxFrames
        /\ Tail(c) \in Seq(1 .. MaxFrames) /\ Len(Tail(c)) = Len(c) - 1
        /\ \A k \in 1 .. Len(Tail(c)) : Tail(c)[k] = c[k + 1]
    BY <2>1, HeadTailProperties
  <2> QED BY <2>1, <2>2, <2>3, <2>4
<1>9. /\ phase[b] = "attached"
      /\ UNCHANGED <<ring, latest, clearRing, subs, cmdQ, blocked, conn, phase, told, restarts>>
      /\ pos' = [pos EXCEPT ![b] = Head(c)] /\ seen' = [seen EXCEPT ![b] = Head(c)]
      /\ chan' = [chan EXCEPT ![b] = Tail(c)]
  BY DEF Render, actorVars
<1>10. /\ pos'[b] = c[1] /\ seen'[b] = c[1] /\ chan'[b] = Tail(c)
       /\ \A a \in Browsers : a # b => pos'[a] = pos[a] /\ seen'[a] = seen[a] /\ chan'[a] = chan[a]
  BY <1>0, <1>9 DEF Typed
<1>11. Consecutive(c) /\ (conn[b] \in subs => c[Len(c)] = latest)
  BY <1>0, <1>9 DEF SubscribersAreCurrent, Streaming, Last
<1>12. Streaming(b) BY <1>9 DEF Streaming
<1>1. Typed' BY <1>0, <1>9 DEF Typed
<1> HIDE DEF c
<1>2. RingInOrder' BY <1>9 DEF RingInOrder
<1>3. Connected' BY <1>9 DEF Connected, Streaming
<1>4. Requested'
  <2>1. \A a \in Browsers : \A k \in 1 .. Len(cmdQ) : conn'[a] = cmdQ[k].id => a # b
    BY <1>9 DEF Requested
  <2> QED BY <1>9, <1>10, <2>1, RequestedRests
<1>5. Bounded'
  <2>1. Len(c) <= ChanBound BY DEF Bounded, c
  <2>2. Len(Tail(c)) <= ChanBound BY <1>0, <2>1, StreamAssumption
  <2>3. \A k \in 1 .. Len(c) : c[k] <= latest BY <1>12 DEF Bounded, c
  <2>4. ASSUME NEW k \in 1 .. Len(Tail(c)) PROVE Tail(c)[k] <= latest
    <3>1. k + 1 \in 1 .. Len(c) BY <1>0
    <3> QED BY <1>0, <2>3, <3>1
  <2> QED BY <1>9, <1>10, <2>2, <2>4 DEF Bounded, Streaming
<1>13. Consecutive(Tail(c))
  <2>1. ASSUME NEW k \in 1 .. Len(Tail(c)) - 1 PROVE Tail(c)[k + 1] = Tail(c)[k] + 1
    <3>1. k \in 1 .. Len(Tail(c)) /\ k + 1 \in 1 .. Len(Tail(c)) /\ k + 1 \in 1 .. Len(c) - 1
      BY <1>0
    <3>2. Tail(c)[k] = c[k + 1] /\ Tail(c)[k + 1] = c[(k + 1) + 1] BY <1>0, <3>1
    <3> QED BY <1>11, <3>1, <3>2 DEF Consecutive
  <2> QED BY <2>1 DEF Consecutive
<1>14. Tail(c) # <<>> => /\ 1 \in 1 .. Len(Tail(c)) /\ Tail(c)[1] = c[1] + 1
                         /\ Tail(c)[Len(Tail(c))] = c[Len(c)]
  <2> SUFFICES ASSUME Tail(c) # <<>>
               PROVE  /\ 1 \in 1 .. Len(Tail(c)) /\ Tail(c)[1] = c[1] + 1
                      /\ Tail(c)[Len(Tail(c))] = c[Len(c)]
    OBVIOUS
  <2>1. Len(Tail(c)) \in Nat \ {0} BY <1>0, EmptySeq
  <2>2. 1 \in 1 .. Len(Tail(c)) /\ 1 \in 1 .. Len(c) - 1 BY <1>0, <2>1
  <2>3. Tail(c)[1] = c[1 + 1] /\ c[1 + 1] = c[1] + 1 BY <1>0, <1>11, <2>2 DEF Consecutive
  <2>4. Len(Tail(c)) \in 1 .. Len(Tail(c)) /\ Len(Tail(c)) + 1 = Len(c) BY <1>0, <2>1
  <2>5. Tail(c)[Len(Tail(c))] = c[Len(c)] BY <1>0, <2>4
  <2> QED BY <2>2, <2>3, <2>5
<1>15. Tail(c) = <<>> => c[Len(c)] = c[1]
  <2>1. Tail(c) = <<>> => Len(c) = 1 BY <1>0, EmptySeq
  <2> QED BY <2>1
<1>6. SubscribersAreCurrent'
  <2> SUFFICES ASSUME NEW a \in Browsers, Streaming(a)'
               PROVE  /\ Consecutive(chan'[a])
                      /\ conn'[a] \in subs' /\ chan'[a] # <<>> => Last(chan'[a]) = latest'
    BY DEF SubscribersAreCurrent
  <2>1. CASE a = b BY <1>9, <1>10, <1>11, <1>13, <1>14, <2>1 DEF Last
  <2>2. CASE a # b BY <1>9, <1>10, <2>2 DEF SubscribersAreCurrent, Streaming
  <2> QED BY <2>1, <2>2
<1>7. StreamHasNoGap'
  <2> SUFFICES ASSUME NEW a \in Browsers, Streaming(a)', ~ told'[a], restarts' = 0
               PROVE  IF chan'[a] = <<>> THEN conn'[a] \in subs' => pos'[a] = latest'
                      ELSE chan'[a][1] = pos'[a] + 1
    BY DEF StreamHasNoGap
  <2>1. CASE a = b BY <1>9, <1>10, <1>11, <1>14, <1>15, <2>1
  <2>2. CASE a # b BY <1>9, <1>10, <2>2 DEF StreamHasNoGap, Streaming
  <2> QED BY <2>1, <2>2
<1>8. Ahead'
  <2> SUFFICES ASSUME restarts' = 0, NEW a \in Browsers
               PROVE  /\ seen'[a] <= latest' /\ pos'[a] <= latest'
                      /\ phase'[a] # "off" => seen'[a] <= pos'[a]
                      /\ Streaming(a)' /\ chan'[a] # <<>> => pos'[a] < chan'[a][1]
    BY DEF Ahead
  <2>1. CASE a = b
    <3>1. c[1] <= latest BY <1>0, <1>12 DEF Bounded, c
    <3> QED BY <1>0, <1>9, <1>10, <1>14, <2>1, <3>1
  <2>2. CASE a # b BY <1>9, <1>10, <2>2 DEF Ahead, Streaming
  <2> QED BY <2>1, <2>2
<1> QED BY <1>1, <1>2, <1>3, <1>4, <1>5, <1>6, <1>7, <1>8

LEMMA ConnectKeeps ==
    ASSUME StreamInv, NEW b \in Browsers, Connect(b) PROVE StreamInv'
<1> USE DEF StreamInv
<1>0. PICK id \in Ids \ InUse : conn' = [conn EXCEPT ![b] = id] BY DEF Connect
<1>9. /\ phase[b] = "off" /\ blocked = NoId /\ phase' = [phase EXCEPT ![b] = "cursor"]
      /\ UNCHANGED <<ring, latest, clearRing, subs, cmdQ, blocked, chan, told, seen, restarts>>
      /\ pos' = [pos EXCEPT ![b] = IF seen[b] > 0 THEN seen[b] ELSE WindowStart - 1]
  BY DEF Connect, actorVars
<1>10. /\ id # NoId /\ id \notin subs /\ \A a \in Browsers : conn[a] # id
       /\ \A k \in 1 .. Len(cmdQ) : cmdQ[k].id # id
  BY StreamAssumption DEF InUse
<1>11. WindowStart - 1 \in 0 .. latest
  <2>1. CASE ring = <<>> BY <2>1, StreamAssumption DEF WindowStart, Typed
  <2>2. CASE ring # <<>>
    <3>1. Len(ring) \in Nat \ {0} BY <2>2, EmptySeq DEF Typed
    <3>2. ring[1].seq = latest - Len(ring) + 1 BY <3>1 DEF RingInOrder
    <3> QED BY <2>2, <3>1, <3>2, StreamAssumption DEF WindowStart, Typed, RingInOrder
  <2> QED BY <2>1, <2>2
<1>12. /\ conn'[b] = id /\ phase'[b] = "cursor"
       /\ pos'[b] = IF seen[b] > 0 THEN seen[b] ELSE WindowStart - 1
       /\ \A a \in Browsers : a # b => conn'[a] = conn[a] /\ phase'[a] = phase[a] /\ pos'[a] = pos[a]
  BY <1>0, <1>9 DEF Typed
<1>13. \A a \in Browsers : Streaming(a)' => a # b /\ Streaming(a) BY <1>9, <1>12 DEF Streaming
<1>1. Typed' BY <1>0, <1>9, <1>11, StreamAssumption DEF Typed, Phases
<1>2. RingInOrder' BY <1>9 DEF RingInOrder
<1>3. Connected' BY <1>9, <1>10, <1>12 DEF Connected, Streaming
<1>4. Requested'
  <2>1. \A a \in Browsers : \A k \in 1 .. Len(cmdQ) : conn'[a] = cmdQ[k].id => a # b
    BY <1>10, <1>12
  <2> QED BY <1>9, <1>12, <2>1, RequestedRests
<1>5. Bounded' BY <1>9, <1>13 DEF Bounded
<1>6. SubscribersAreCurrent' BY <1>9, <1>12, <1>13 DEF SubscribersAreCurrent
<1>7. StreamHasNoGap' BY <1>9, <1>12, <1>13 DEF StreamHasNoGap
<1>8. Ahead'
  <2> SUFFICES ASSUME restarts' = 0, NEW a \in Browsers
               PROVE  /\ seen'[a] <= latest' /\ pos'[a] <= latest'
                      /\ phase'[a] # "off" => seen'[a] <= pos'[a]
                      /\ Streaming(a)' /\ chan'[a] # <<>> => pos'[a] < chan'[a][1]
    BY DEF Ahead
  <2>1. CASE a = b
    <3>1. seen[b] \in Nat /\ seen[b] <= latest BY <1>9, StreamAssumption DEF Ahead, Typed
    <3>2. latest \in Nat BY StreamAssumption DEF Typed
    <3>3. ~ Streaming(b)' BY <1>13
    <3> QED BY <1>9, <1>11, <1>12, <2>1, <3>1, <3>2, <3>3
  <2>2. CASE a # b BY <1>9, <1>12, <1>13, <2>2 DEF Ahead
  <2> QED BY <2>1, <2>2
<1> QED BY <1>1, <1>2, <1>3, <1>4, <1>5, <1>6, <1>7, <1>8

LEMMA ReplayAbortsKeeps ==
    ASSUME StreamInv, ReplayAborts PROVE StreamInv'
<1> USE DEF StreamInv
<1>9. blocked' = NoId /\ UNCHANGED <<ring, latest, clearRing, subs, cmdQ, wsVars, restarts>>
  BY DEF ReplayAborts
<1>1. Typed' BY <1>9 DEF Typed, wsVars
<1>2. RingInOrder' BY <1>9 DEF RingInOrder
<1>3. Connected' BY <1>9 DEF Connected, Streaming, wsVars
<1>4. Requested' BY <1>9, RequestedRests DEF wsVars
<1>5. Bounded' BY <1>9 DEF Bounded, Streaming, wsVars
<1>6. SubscribersAreCurrent' BY <1>9 DEF SubscribersAreCurrent, Streaming, wsVars
<1>7. StreamHasNoGap' BY <1>9 DEF StreamHasNoGap, Streaming, wsVars
<1>8. Ahead' BY <1>9 DEF Ahead, Streaming, wsVars
<1> QED BY <1>1, <1>2, <1>3, <1>4, <1>5, <1>6, <1>7, <1>8

LEMMA ServerRestartKeeps ==
    ASSUME StreamInv, ServerRestart PROVE StreamInv'
<1> USE DEF StreamInv
<1>1. Typed'
  <2>1. ring' \in Seq(Frame) /\ cmdQ' \in Seq(Command) BY DEF ServerRestart
  <2>2. chan' \in [Browsers -> Seq(1 .. MaxFrames)] BY DEF ServerRestart
  <2>3. /\ conn' \in [Browsers -> Ids \cup {NoId}] /\ phase' \in [Browsers -> Phases]
        /\ told' \in [Browsers -> BOOLEAN]
    BY DEF ServerRestart, Phases
  <2>4. latest' \in 0 .. MaxFrames /\ restarts' \in Nat
    BY StreamAssumption DEF ServerRestart, Typed
  <2>6. clearRing' \in BOOLEAN BY DEF ServerRestart
  <2>5. subs' \subseteq Ids /\ blocked' \in Ids \cup {NoId} /\ pos' = pos /\ seen' = seen
    BY DEF ServerRestart
  <2> QED BY <2>1, <2>2, <2>3, <2>4, <2>5, <2>6 DEF Typed
<1>2. RingInOrder' BY DEF ServerRestart, RingInOrder
<1>9. /\ restarts' # 0
      /\ \A b \in Browsers : /\ conn'[b] = NoId /\ phase'[b] = "off" /\ chan'[b] = <<>>
                             /\ ~ Streaming(b)'
  BY DEF ServerRestart, Typed, Streaming
<1>3. Connected' BY <1>9 DEF ServerRestart, Connected
<1>4. Requested' BY DEF ServerRestart, Requested
<1>5. Bounded' BY <1>9, StreamAssumption DEF Bounded
<1>6. SubscribersAreCurrent' BY <1>9 DEF SubscribersAreCurrent
<1>7. StreamHasNoGap' BY <1>9 DEF StreamHasNoGap
<1>8. Ahead' BY <1>9 DEF Ahead
<1> QED BY <1>1, <1>2, <1>3, <1>4, <1>5, <1>6, <1>7, <1>8

LEMMA RequestsMoveUp ==
    ASSUME StreamInv, cmdQ # <<>>, cmdQ' = Tail(cmdQ), UNCHANGED <<conn, pos>>,
           \A a \in Browsers : conn[a] # Head(cmdQ).id => phase'[a] = phase[a],
           blocked' \in {NoId, Head(cmdQ).id}
    PROVE  Requested'
<1> USE DEF StreamInv
<1>1. /\ Len(cmdQ) \in Nat \ {0} /\ Len(Tail(cmdQ)) = Len(cmdQ) - 1 /\ Head(cmdQ) = cmdQ[1]
      /\ \A k \in 1 .. Len(Tail(cmdQ)) : Tail(cmdQ)[k] = cmdQ[k + 1]
  <2>1. cmdQ \in Seq(Command) BY DEF Typed
  <2>2. Len(cmdQ) \in Nat \ {0} BY <2>1, EmptySeq
  <2>3. Head(cmdQ) = cmdQ[1] BY <2>1
  <2> QED BY <2>1, <2>2, <2>3, HeadTailProperties
<1>2. \A k \in 1 .. Len(Tail(cmdQ)) : k + 1 \in 1 .. Len(cmdQ) /\ k + 1 # 1 BY <1>1
<1>3. 1 \in 1 .. Len(cmdQ) BY <1>1
<1>4. ASSUME NEW k \in 1 .. Len(Tail(cmdQ)), NEW a \in Browsers, conn[a] = cmdQ[k + 1].id
      PROVE  /\ cmdQ[k + 1].op = "subscribe" /\ cmdQ[k + 1].resume = pos[a]
             /\ phase'[a] = "waiting" /\ blocked' # conn[a]
  <2>1. conn[a] # cmdQ[1].id BY <1>2, <1>3, <1>4 DEF Requested
  <2>2. conn[a] # NoId BY <1>2, <1>4, CommandsAreTyped, StreamAssumption
  <2> QED BY <1>1, <1>2, <1>4, <2>1, <2>2 DEF Requested
<1>5. ASSUME NEW j \in 1 .. Len(Tail(cmdQ)), NEW k \in 1 .. Len(Tail(cmdQ)), j # k,
             cmdQ[j + 1].id = cmdQ[k + 1].id, NEW a \in Browsers
      PROVE  conn[a] # cmdQ[j + 1].id
  <2>1. j + 1 # k + 1 BY <1>5
  <2> QED BY <1>2, <1>5, <2>1 DEF Requested
<1> QED BY <1>1, <1>4, <1>5 DEF Requested

(* A step that only takes subscribers away, or waits for one of them. *)
LEMMA FewerSubscribersKeep ==
    ASSUME StreamInv, subs' \subseteq subs, Requested', cmdQ' \in Seq(Command),
           \/ blocked' = NoId
           \/ blocked' \in Ids /\ \E b \in Browsers : conn[b] = blocked' /\ phase[b] = "waiting",
           UNCHANGED <<ring, latest, clearRing, conn, phase, pos, chan, told, seen, restarts>>
    PROVE  StreamInv'
<1> USE DEF StreamInv
<1>1. Typed' BY DEF Typed
<1>2. RingInOrder' BY DEF RingInOrder
<1>3. Connected' BY StreamAssumption DEF Connected, Streaming
<1>5. Bounded' BY DEF Bounded, Streaming
<1>6. SubscribersAreCurrent' BY DEF SubscribersAreCurrent, Streaming
<1>7. StreamHasNoGap' BY DEF StreamHasNoGap, Streaming
<1>8. Ahead' BY DEF Ahead, Streaming
<1> QED BY <1>1, <1>2, <1>3, <1>5, <1>6, <1>7, <1>8

(* An answer to the connection that waits for it. *)
LEMMA AnswerKeeps ==
    ASSUME StreamInv, NEW b \in Browsers, phase[b] = "waiting",
           NEW outcome \in {"ok", "truncated", "rejected"}, NEW frames \in Seq(1 .. MaxFrames),
           Answer(b, outcome, frames), Len(frames) <= ChanBound, Consecutive(frames),
           \A k \in 1 .. Len(frames) : frames[k] <= latest,
           frames # <<>> => frames[1] = pos[b] + 1 /\ frames[Len(frames)] = latest,
           outcome = "ok" /\ frames = <<>> => pos[b] >= latest,
           subs' \subseteq IF outcome = "rejected" THEN subs ELSE subs \cup {conn[b]},
           Requested', cmdQ' \in Seq(Command), blocked = NoId,
           UNCHANGED <<ring, latest, clearRing, blocked, conn, pos, seen, restarts>>
    PROVE  StreamInv'
<1> USE DEF StreamInv
<1>9. /\ phase'[b] = IF outcome = "rejected" THEN "rejected" ELSE "acked"
      /\ told'[b] = (outcome = "truncated") /\ chan'[b] = frames
      /\ \A a \in Browsers : a # b => phase'[a] = phase[a] /\ told'[a] = told[a] /\ chan'[a] = chan[a]
  BY DEF Typed, Answer
<1>10. conn[b] \in Ids /\ conn[b] \notin subs /\ ~ Streaming(b)
  BY StreamAssumption DEF Typed, Connected, Streaming
<1>11. \A a \in Browsers : a # b => conn[a] # conn[b] BY <1>10, StreamAssumption DEF Connected
<1>12. \A a \in Browsers : a # b => (conn[a] \in subs' => conn[a] \in subs)
                                 /\ (Streaming(a)' <=> Streaming(a))
  BY <1>9, <1>11 DEF Streaming
<1>13. /\ latest \in Nat /\ pos[b] \in Nat /\ Len(frames) \in Nat /\ (frames # <<>> => Len(frames) # 0)
  BY StreamAssumption, EmptySeq DEF Typed
<1>1. Typed'
  <2>1. subs' \subseteq Ids BY <1>10 DEF Typed
  <2>2. /\ phase' \in [Browsers -> Phases] /\ told' \in [Browsers -> BOOLEAN]
        /\ chan' \in [Browsers -> Seq(1 .. MaxFrames)]
    BY DEF Typed, Answer, Phases
  <2> QED BY <2>1, <2>2 DEF Typed
<1>2. RingInOrder' BY DEF RingInOrder
<1>3. Connected'
  <2>1. \A a \in Browsers : conn'[a] = NoId <=> phase'[a] = "off"
    BY <1>9, <1>10, StreamAssumption DEF Connected
  <2>2. \A a, c \in Browsers : conn'[a] = conn'[c] /\ conn'[a] # NoId => a = c
    BY DEF Connected
  <2>3. \A a \in Browsers : conn'[a] \in subs' => Streaming(a)'
    <3>1. conn[b] \in subs' => Streaming(b)' BY <1>9, <1>10 DEF Streaming
    <3> QED BY <1>12, <3>1 DEF Connected
  <2> QED BY <2>1, <2>2, <2>3 DEF Connected
<1>5. Bounded' BY <1>9, <1>12 DEF Bounded
<1>6. SubscribersAreCurrent' BY <1>9, <1>12 DEF SubscribersAreCurrent, Last
<1>7. StreamHasNoGap'
  <2> SUFFICES ASSUME NEW a \in Browsers, Streaming(a)', ~ told'[a], restarts' = 0
               PROVE  IF chan'[a] = <<>> THEN conn'[a] \in subs' => pos'[a] = latest'
                      ELSE chan'[a][1] = pos'[a] + 1
    BY DEF StreamHasNoGap
  <2>1. CASE a = b
    <3>1. outcome = "ok" BY <1>9, <2>1 DEF Streaming
    <3>2. pos[b] <= latest BY DEF Ahead
    <3>3. frames = <<>> => pos[b] = latest BY <1>13, <3>1, <3>2
    <3> QED BY <1>9, <2>1, <3>3
  <2>2. CASE a # b BY <1>9, <1>12, <2>2 DEF StreamHasNoGap
  <2> QED BY <2>1, <2>2
<1>8. Ahead'
  <2> SUFFICES ASSUME restarts' = 0, NEW a \in Browsers
               PROVE  /\ seen'[a] <= latest' /\ pos'[a] <= latest'
                      /\ phase'[a] # "off" => seen'[a] <= pos'[a]
                      /\ Streaming(a)' /\ chan'[a] # <<>> => pos'[a] < chan'[a][1]
    BY DEF Ahead
  <2>1. CASE a = b
    <3>1. frames # <<>> => pos[b] < frames[1] BY <1>13
    <3> QED BY <1>9, <2>1, <3>1 DEF Ahead
  <2>2. CASE a # b BY <1>9, <1>12, <2>2 DEF Ahead
  <2> QED BY <2>1, <2>2
<1> QED BY <1>1, <1>2, <1>3, <1>5, <1>6, <1>7, <1>8

LEMMA HandleCommandKeeps ==
    ASSUME StreamInv, HandleCommand PROVE StreamInv'
<1> USE DEF StreamInv
<1> DEFINE cmd == Head(cmdQ)
<1>1. /\ blocked = NoId /\ cmdQ # <<>> /\ cmdQ' = Tail(cmdQ)
      /\ UNCHANGED <<ring, latest, clearRing, conn, pos, seen, restarts>>
  BY DEF HandleCommand
<1>2. /\ Len(cmdQ) \in Nat \ {0} /\ cmd = cmdQ[1] /\ cmd \in Command /\ cmdQ' \in Seq(Command)
  <2>1. cmdQ \in Seq(Command) BY DEF Typed
  <2>2. cmdQ' \in Seq(Command) /\ cmd \in Command BY <1>1, <2>1, HeadTailProperties
  <2>3. Len(cmdQ) \in Nat \ {0} BY <1>1, <2>1, EmptySeq
  <2> QED BY <2>1, <2>2, <2>3
<1>3. cmd.id \in Ids /\ cmd.id # NoId BY <1>2, StreamAssumption DEF Command
<1>4. \A b \in Browsers : conn[b] = cmd.id =>
         cmd.op = "subscribe" /\ cmd.resume = pos[b] /\ phase[b] = "waiting"
  <2>1. 1 \in 1 .. Len(cmdQ) BY <1>2
  <2> QED BY <1>2, <2>1 DEF Requested
<1>5. CASE subs' \subseteq subs /\ UNCHANGED <<blocked, phase, told, chan>>
  <2>1. Requested' BY <1>1, <1>5, RequestsMoveUp
  <2> QED BY <1>1, <1>2, <1>5, <2>1, FewerSubscribersKeep
<1>6. CASE cmd.op # "unsubscribe" /\ Open(cmd.id)
  <2> DEFINE b == Owner(cmd.id)
             frames == ReplaySeqs(cmd.resume + 1)
  <2>1. b \in Browsers /\ conn[b] = cmd.id BY <1>6 DEF Open, Owner
  <2>2. cmd.resume = pos[b] /\ phase[b] = "waiting" /\ pos[b] \in 0 .. MaxFrames
    BY <1>4, <2>1 DEF Typed
  <2>3. SubscribeOpen(cmd.id, cmd.resume) BY <1>6 DEF HandleCommand
  <2>4. \A a \in Browsers : conn[a] = cmd.id => a = b BY <1>3, <2>1 DEF Connected
  <2>5. OpenSubs \subseteq subs BY DEF OpenSubs
  <2>6. ASSUME NEW outcome, NEW sent, Answer(b, outcome, sent), blocked' = blocked
        PROVE  Requested'
    <3>1. \A a \in Browsers : conn[a] # cmd.id => phase'[a] = phase[a]
      BY <2>1, <2>6 DEF Answer, Typed
    <3> QED BY <1>1, <2>6, <3>1, RequestsMoveUp
  <2> DEFINE none == <<>>
  <2>7. /\ none \in Seq(1 .. MaxFrames) /\ Len(none) = 0 /\ Consecutive(none) /\ Len(none) <= ChanBound
        /\ none = <<>> /\ \A k \in 1 .. Len(none) : none[k] <= latest
    BY StreamAssumption DEF Consecutive
  <2>8. latest \in Nat /\ pos[b] \in Nat BY <2>2, StreamAssumption DEF Typed
  <2> HIDE DEF b, frames, none
  <2>9. CASE subs' = OpenSubs /\ Answer(b, "rejected", none) /\ UNCHANGED blocked
    <3>1. Requested' BY <2>6, <2>9
    <3> QED BY <1>1, <1>2, <2>1, <2>2, <2>5, <2>7, <2>9, <3>1, AnswerKeeps
  <2>10. CASE subs' = OpenSubs \cup {cmd.id} /\ Answer(b, "truncated", none) /\ UNCHANGED blocked
    <3>1. Requested' BY <2>6, <2>10
    <3> QED BY <1>1, <1>2, <2>1, <2>2, <2>5, <2>7, <2>10, <3>1, AnswerKeeps
  <2>11. CASE /\ Replayable(cmd.resume + 1) /\ Len(frames) <= ChanBound
              /\ subs' = OpenSubs \cup {cmd.id} /\ Answer(b, "ok", frames) /\ UNCHANGED blocked
    <3>1. Requested' BY <2>6, <2>11
    <3>2. /\ frames \in Seq(1 .. MaxFrames)
          /\ Len(frames) = IF pos[b] >= latest THEN 0 ELSE latest - pos[b]
          /\ \A k \in 1 .. Len(frames) : frames[k] = pos[b] + k
      BY <2>2, <2>11, ReplayIsWhole DEF frames
    <3>3. Consecutive(frames)
      <4>1. ASSUME NEW k \in 1 .. Len(frames) - 1 PROVE frames[k + 1] = frames[k] + 1
        <5>1. k \in 1 .. Len(frames) /\ k + 1 \in 1 .. Len(frames) BY <2>8, <3>2
        <5>2. frames[k] = pos[b] + k /\ frames[k + 1] = pos[b] + (k + 1) BY <3>2, <5>1
        <5> QED BY <2>8, <5>1, <5>2
      <4> QED BY <4>1 DEF Consecutive
    <3>4. ASSUME frames # <<>> PROVE frames[1] = pos[b] + 1 /\ frames[Len(frames)] = latest
      <4>1. Len(frames) \in Nat \ {0} BY <3>2, <3>4, EmptySeq
      <4>2. Len(frames) = latest - pos[b] BY <2>8, <3>2, <4>1
      <4>3. frames[1] = pos[b] + 1 /\ frames[Len(frames)] = pos[b] + Len(frames) BY <3>2, <4>1
      <4> QED BY <2>8, <4>2, <4>3
    <3>5. frames = <<>> => pos[b] >= latest BY <2>8, <3>2
    <3>6. \A k \in 1 .. Len(frames) : frames[k] <= latest BY <2>8, <3>2
    <3> QED BY <1>1, <1>2, <2>1, <2>2, <2>5, <2>11, <3>1, <3>2, <3>3, <3>4, <3>5, <3>6, AnswerKeeps
  <2>12. CASE subs' = OpenSubs /\ blocked' = cmd.id /\ UNCHANGED <<phase, told, chan>>
    <3>1. Requested' BY <1>1, <2>12, RequestsMoveUp
    <3> QED BY <1>1, <1>2, <1>3, <2>1, <2>2, <2>5, <2>12, <3>1, FewerSubscribersKeep
  <2> QED BY <2>3, <2>9, <2>10, <2>11, <2>12 DEF SubscribeOpen, b, frames, none
<1> QED BY <1>1, <1>5, <1>6 DEF HandleCommand, OpenSubs

LEMMA OutputKeeps ==
    ASSUME StreamInv, Output PROVE StreamInv'
<1> USE DEF StreamInv
<1>1. /\ latest < MaxFrames /\ latest' = latest + 1
      /\ UNCHANGED <<cmdQ, blocked, conn, phase, pos, told, seen, restarts>>
      /\ latest \in Nat /\ MaxFrames \in Nat
  BY StreamAssumption DEF Output, Typed
<1>2. \A b \in Browsers : conn[b] \in subs =>
         /\ conn[b] # NoId /\ Streaming(b) /\ Open(conn[b]) /\ Owner(conn[b]) = b
  <2> SUFFICES ASSUME NEW b \in Browsers, conn[b] \in subs
               PROVE  conn[b] # NoId /\ Streaming(b) /\ Open(conn[b]) /\ Owner(conn[b]) = b
    OBVIOUS
  <2>1. conn[b] # NoId BY StreamAssumption DEF Typed
  <2>2. \A a \in Browsers : conn[a] = conn[b] => a = b BY <2>1 DEF Connected
  <2> QED BY <2>1, <2>2 DEF Connected, Open, Owner
<1>3. /\ subs' \subseteq subs
      /\ \A b \in Browsers : conn[b] \in subs' => Len(chan[b]) < ChanBound
  BY <1>2 DEF Output, Remaining, Delivered
<1>4. ASSUME NEW b \in Browsers
      PROVE  \/ chan'[b] = chan[b] /\ conn[b] \notin subs'
             \/ /\ chan'[b] = Append(chan[b], latest + 1) /\ conn[b] \in subs
                /\ Len(chan[b]) < ChanBound
  <2>1. chan'[b] = IF conn[b] \in subs /\ Delivered(conn[b])
                   THEN Append(chan[b], latest + 1) ELSE chan[b]
    BY DEF Output
  <2> QED BY <1>2, <2>1 DEF Output, Remaining, Delivered
<1>5. ASSUME NEW b \in Browsers
      PROVE  /\ Append(chan[b], latest + 1) \in Seq(1 .. MaxFrames)
             /\ Len(Append(chan[b], latest + 1)) = Len(chan[b]) + 1 /\ Len(chan[b]) \in Nat
             /\ \A k \in 1 .. Len(chan[b]) : Append(chan[b], latest + 1)[k] = chan[b][k]
             /\ Append(chan[b], latest + 1)[Len(chan[b]) + 1] = latest + 1
             /\ chan[b] = <<>> <=> Len(chan[b]) = 0
             /\ Append(chan[b], latest + 1) # <<>>
  <2>1. chan[b] \in Seq(1 .. MaxFrames) /\ latest + 1 \in 1 .. MaxFrames BY <1>1 DEF Typed
  <2>2. /\ Append(chan[b], latest + 1) \in Seq(1 .. MaxFrames)
        /\ Len(Append(chan[b], latest + 1)) = Len(chan[b]) + 1
        /\ \A k \in 1 .. Len(chan[b]) : Append(chan[b], latest + 1)[k] = chan[b][k]
        /\ Append(chan[b], latest + 1)[Len(chan[b]) + 1] = latest + 1
    BY <2>1, AppendProperties
  <2>3. Len(chan[b]) \in Nat /\ (chan[b] = <<>> <=> Len(chan[b]) = 0) BY <2>1, EmptySeq
  <2>4. Append(chan[b], latest + 1) # <<>>
    <3> DEFINE d == Append(chan[b], latest + 1)
    <3>2. d \in Seq(1 .. MaxFrames) /\ Len(d) = Len(chan[b]) + 1 /\ Len(chan[b]) \in Nat
      BY <2>2, <2>3
    <3> HIDE DEF d
    <3>1. d = <<>> => Len(d) = 0 OBVIOUS
    <3>3. d # <<>> BY <3>1, <3>2
    <3> QED BY <3>3 DEF d
  <2> QED BY <2>2, <2>3, <2>4
<1>6. PICK size \in Sizes, idle \in BOOLEAN :
         /\ ring' = Push(IF clearRing /\ idle THEN <<>> ELSE ring, latest + 1, size)
         /\ clearRing' = (clearRing /\ ~ idle)
  BY DEF Output
<1>7. /\ ring' \in Seq(Frame) /\ Len(ring') <= latest + 1
      /\ \A k \in 1 .. Len(ring') : ring'[k].seq = latest + 1 - Len(ring') + k
  <2> DEFINE frames == IF clearRing /\ idle THEN <<>> ELSE ring
  <2>1. frames = ring \/ frames = <<>> OBVIOUS
  <2>2. ring' = Push(frames, latest + 1, size) BY <1>6
  <2> HIDE DEF frames
  <2> QED BY <1>1, <2>1, <2>2, PushKeepsOrder
<1>8. chan' \in [Browsers -> Seq(1 .. MaxFrames)]
  <2>1. \A b \in Browsers : chan'[b] \in Seq(1 .. MaxFrames)
    BY <1>4, <1>5 DEF Typed
  <2>2. chan' = [b \in Browsers |-> chan'[b]] BY DEF Output
  <2> QED BY <2>1, <2>2
<1>9. clearRing' \in BOOLEAN BY <1>6 DEF Typed
<1>10. Typed' BY <1>1, <1>3, <1>7, <1>8, <1>9 DEF Typed
<1>11. RingInOrder' BY <1>1, <1>7 DEF RingInOrder
<1>12. Connected' BY <1>1, <1>3 DEF Connected, Streaming
<1>13. Requested' BY <1>1, RequestedRests
<1>14. Bounded'
  <2> SUFFICES ASSUME NEW b \in Browsers
               PROVE  /\ Len(chan'[b]) <= ChanBound
                      /\ Streaming(b)' => \A k \in 1 .. Len(chan'[b]) : chan'[b][k] <= latest'
    BY DEF Bounded
  <2>1. \A k \in 1 .. Len(chan[b]) : chan[b][k] \in 1 .. MaxFrames BY ElementOfSeq DEF Typed
  <2>2. Streaming(b)' <=> Streaming(b) BY <1>1 DEF Streaming
  <2>3. CASE chan'[b] = chan[b] BY <1>1, <2>1, <2>2, <2>3 DEF Bounded
  <2>4. CASE chan'[b] = Append(chan[b], latest + 1) /\ Len(chan[b]) < ChanBound
    <3>1. Len(chan'[b]) <= ChanBound BY <1>5, <2>4, StreamAssumption
    <3>2. ASSUME Streaming(b), NEW k \in 1 .. Len(chan'[b]) PROVE chan'[b][k] <= latest'
      <4>1. CASE k = Len(chan[b]) + 1 BY <1>1, <1>5, <2>4, <4>1
      <4>2. CASE k \in 1 .. Len(chan[b])
        <5>1. chan'[b][k] = chan[b][k] BY <1>5, <2>4, <4>2
        <5> QED BY <1>1, <2>1, <3>2, <4>2, <5>1 DEF Bounded
      <4> QED BY <1>5, <2>4, <4>1, <4>2
    <3> QED BY <2>2, <3>1, <3>2
  <2> QED BY <1>4, <2>3, <2>4
<1>15. SubscribersAreCurrent'
  <2> SUFFICES ASSUME NEW b \in Browsers, Streaming(b)'
               PROVE  /\ Consecutive(chan'[b])
                      /\ conn'[b] \in subs' /\ chan'[b] # <<>> => Last(chan'[b]) = latest'
    BY DEF SubscribersAreCurrent
  <2>1. Streaming(b) BY <1>1 DEF Streaming
  <2>2. CASE chan'[b] = chan[b] /\ conn[b] \notin subs'
    BY <1>1, <2>1, <2>2 DEF SubscribersAreCurrent
  <2>3. CASE chan'[b] = Append(chan[b], latest + 1) /\ conn[b] \in subs
    <3> DEFINE c == chan[b]  d == Append(c, latest + 1)
    <3>1. Consecutive(c) /\ (c # <<>> => c[Len(c)] = latest)
      BY <2>1, <2>3 DEF SubscribersAreCurrent, Last
    <3>2. ASSUME NEW k \in 1 .. Len(d) - 1 PROVE d[k + 1] = d[k] + 1
      <4>1. k \in 1 .. Len(c) /\ Len(d) = Len(c) + 1 BY <1>5
      <4>2. d[k] = c[k] BY <1>5, <4>1
      <4>3. CASE k = Len(c)
        <5>1. c # <<>> BY <1>5, <4>1
        <5> QED BY <1>1, <1>5, <3>1, <4>2, <4>3, <5>1
      <4>4. CASE k # Len(c)
        <5>1. k + 1 \in 1 .. Len(c) /\ k \in 1 .. Len(c) - 1 BY <1>5, <4>1, <4>4
        <5>2. d[k + 1] = c[k + 1] BY <1>5, <5>1
        <5> QED BY <3>1, <4>2, <5>1, <5>2 DEF Consecutive
      <4> QED BY <4>3, <4>4
    <3>3. Last(d) = latest + 1 BY <1>5 DEF Last
    <3> QED BY <1>1, <2>3, <3>2, <3>3 DEF Consecutive
  <2> QED BY <1>4, <2>2, <2>3
<1>16. StreamHasNoGap'
  <2> SUFFICES ASSUME NEW b \in Browsers, Streaming(b)', ~ told'[b], restarts' = 0
               PROVE  IF chan'[b] = <<>> THEN conn'[b] \in subs' => pos'[b] = latest'
                      ELSE chan'[b][1] = pos'[b] + 1
    BY DEF StreamHasNoGap
  <2>1. Streaming(b) BY <1>1 DEF Streaming
  <2>2. CASE chan'[b] = chan[b] /\ conn[b] \notin subs'
    BY <1>1, <2>1, <2>2 DEF StreamHasNoGap
  <2>3. CASE chan'[b] = Append(chan[b], latest + 1) /\ conn[b] \in subs
    <3>1. CASE chan[b] = <<>>
      <4>1. pos[b] = latest BY <1>1, <2>1, <2>3, <3>1 DEF StreamHasNoGap
      <4>2. chan'[b][1] = latest + 1 BY <1>5, <2>3, <3>1
      <4> QED BY <1>1, <1>5, <2>3, <4>1, <4>2
    <3>2. CASE chan[b] # <<>>
      <4>1. chan[b][1] = pos[b] + 1 BY <1>1, <2>1, <3>2 DEF StreamHasNoGap
      <4>2. 1 \in 1 .. Len(chan[b]) BY <1>5, <3>2
      <4> QED BY <1>1, <1>5, <2>3, <4>1, <4>2
    <3> QED BY <3>1, <3>2
  <2> QED BY <1>4, <2>2, <2>3
<1>17. Ahead'
  <2> SUFFICES ASSUME restarts' = 0, NEW b \in Browsers
               PROVE  /\ seen'[b] <= latest' /\ pos'[b] <= latest'
                      /\ phase'[b] # "off" => seen'[b] <= pos'[b]
                      /\ Streaming(b)' /\ chan'[b] # <<>> => pos'[b] < chan'[b][1]
    BY DEF Ahead
  <2>1. /\ seen[b] \in Nat /\ pos[b] \in Nat /\ seen[b] <= latest /\ pos[b] <= latest
        /\ phase[b] # "off" => seen[b] <= pos[b]
        /\ Streaming(b) /\ chan[b] # <<>> => pos[b] < chan[b][1]
    BY <1>1 DEF Ahead, Typed
  <2>2. Streaming(b)' <=> Streaming(b) BY <1>1 DEF Streaming
  <2>3. ASSUME Streaming(b)', chan'[b] # <<>> PROVE pos'[b] < chan'[b][1]
    <3>1. CASE chan'[b] = chan[b] BY <1>1, <2>1, <2>2, <2>3, <3>1
    <3>2. CASE chan'[b] = Append(chan[b], latest + 1) /\ chan[b] = <<>>
      <4>1. chan'[b][1] = latest + 1 BY <1>5, <3>2
      <4> QED BY <1>1, <2>1, <4>1
    <3>3. CASE chan'[b] = Append(chan[b], latest + 1) /\ chan[b] # <<>>
      <4>1. 1 \in 1 .. Len(chan[b]) BY <1>5, <3>3
      <4>2. chan'[b][1] = chan[b][1] BY <1>5, <3>3, <4>1
      <4> QED BY <1>1, <2>1, <2>2, <2>3, <3>3, <4>2
    <3> QED BY <1>4, <3>1, <3>2, <3>3
  <2> QED BY <1>1, <2>1, <2>3
<1> QED BY <1>10, <1>11, <1>12, <1>13, <1>14, <1>15, <1>16, <1>17

LEMMA StutterKeeps == ASSUME StreamInv, UNCHANGED vars PROVE StreamInv'
<1> USE DEF StreamInv, vars, actorVars, wsVars
<1>1. Typed' /\ RingInOrder' BY DEF Typed, RingInOrder
<1>2. Connected' /\ Bounded' /\ Ahead' BY DEF Connected, Bounded, Ahead, Streaming
<1>3. Requested' BY DEF Requested
<1>4. SubscribersAreCurrent' /\ StreamHasNoGap'
  BY DEF SubscribersAreCurrent, StreamHasNoGap, Streaming
<1> QED BY <1>1, <1>2, <1>3, <1>4

LEMMA StreamInit == Init => StreamInv
<1> SUFFICES ASSUME Init PROVE StreamInv OBVIOUS
<1>1. \A b \in Browsers : /\ conn[b] = NoId /\ phase[b] = "off" /\ pos[b] = 0
                          /\ seen[b] = 0 /\ chan[b] = <<>> /\ ~ Streaming(b)
  BY DEF Init, Streaming
<1>2. Typed
  <2>1. chan \in [Browsers -> Seq(1 .. MaxFrames)] BY DEF Init
  <2>2. ring \in Seq(Frame) /\ cmdQ \in Seq(Command) BY DEF Init
  <2>3. 0 \in 0 .. MaxFrames BY StreamAssumption
  <2> QED BY <2>1, <2>2, <2>3 DEF Init, Typed, Phases
<1>3. RingInOrder /\ Requested BY DEF Init, RingInOrder, Requested
<1>4. Connected BY <1>1 DEF Connected, Init
<1>5. Bounded /\ Ahead BY <1>1, StreamAssumption DEF Bounded, Ahead, Init
<1>6. SubscribersAreCurrent /\ StreamHasNoGap BY <1>1 DEF SubscribersAreCurrent, StreamHasNoGap
<1> QED BY <1>2, <1>3, <1>4, <1>5, <1>6 DEF StreamInv

LEMMA StreamNext == StreamInv /\ [Next]_vars => StreamInv'
<1> SUFFICES ASSUME StreamInv, [Next]_vars PROVE StreamInv' OBVIOUS
<1>1. CASE Output BY <1>1, OutputKeeps
<1>2. CASE HandleCommand BY <1>2, HandleCommandKeeps
<1>3. CASE ReplayAborts BY <1>3, ReplayAbortsKeeps
<1>4. CASE ServerRestart BY <1>4, ServerRestartKeeps
<1>5. ASSUME NEW b \in Browsers, WsStep(b) \/ Disconnect(b) \/ Forget(b) PROVE StreamInv'
  <2>1. CASE Connect(b) BY <2>1, ConnectKeeps
  <2>2. CASE Subscribe(b) BY <2>2, SubscribeKeeps
  <2>3. CASE AckTimeout(b) BY <2>3, AckTimeoutKeeps
  <2>4. CASE Ready(b) BY <2>4, ReadyKeeps
  <2>5. CASE Render(b) BY <2>5, RenderKeeps
  <2>6. CASE StreamEnds(b) BY <2>6, LeaveKeeps DEF StreamEnds
  <2>7. CASE Disconnect(b) BY <2>7, LeaveKeeps DEF Disconnect
  <2>8. CASE Forget(b) BY <2>8, ForgetKeeps
  <2> QED BY <1>5, <2>1, <2>2, <2>3, <2>4, <2>5, <2>6, <2>7, <2>8 DEF WsStep
<1>6. CASE UNCHANGED vars BY <1>6, StutterKeeps
<1> QED BY <1>1, <1>2, <1>3, <1>4, <1>5, <1>6 DEF Next

-----------------------------------------------------------------------------
(* The types of the actor, the channels and the browsers: a channel never   *)
(* exceeds its bound and a browser is off exactly when it has no connection *)
(* (subscribers.rs, ws_events.rs).                                          *)
THEOREM TypeCorrect == Spec => []TypeOK
<1>1. StreamInv => TypeOK
  <2> SUFFICES ASSUME StreamInv PROVE TypeOK OBVIOUS
  <2>1. \A k \in 1 .. Len(ring) : ring[k] \in Frame BY ElementOfSeq DEF StreamInv, Typed
  <2>2. \A b \in Browsers : Len(chan[b]) <= ChanBound /\ (conn[b] = NoId <=> phase[b] = "off")
    BY DEF StreamInv, Bounded, Connected
  <2> QED BY <2>1, <2>2 DEF TypeOK, StreamInv, Typed, Frame
<1> QED BY <1>1, StreamInit, StreamNext, PTL DEF Spec

(* Nobody subscribed misses output without being told: replay and live      *)
(* frames join without a hole or a repetition (handle_subscribe and         *)
(* broadcast in session/actor/subscribers.rs, push and replay_from in       *)
(* session/replay_ring.rs).                                                 *)
THEOREM StreamsAreWhole == Spec => []StreamIsWhole
<1>1. StreamInv => StreamIsWhole BY DEF StreamInv, StreamIsWhole
<1> QED BY <1>1, StreamInit, StreamNext, PTL DEF Spec

(* A browser never goes back, and skips frames only after being told, until *)
(* the server restarts (the resume position of session_socket_controller.js *)
(* and the replay of the actor).                                            *)
THEOREM NeverBack == Spec => NeverBackNeverSkip
<1> DEFINE Forward == \A b \in Browsers : restarts = 0 /\ seen'[b] \notin {0, seen[b]} =>
                         /\ seen'[b] > seen[b]
                         /\ seen'[b] = pos[b] + 1 \/ told[b]
<1>1. StreamInv /\ [Next]_vars => [Forward]_vars
  <2> SUFFICES ASSUME StreamInv, Next, NEW b \in Browsers, restarts = 0,
                      seen'[b] \notin {0, seen[b]}
               PROVE  seen'[b] > seen[b] /\ (seen'[b] = pos[b] + 1 \/ told[b])
    OBVIOUS
  <2>1. seen \in [Browsers -> 0 .. MaxFrames] BY DEF StreamInv, Typed
  <2>2. \E a \in Browsers : Render(a) \/ Forget(a)
    BY DEF Next, Output, HandleCommand, ReplayAborts, wsVars, ServerRestart, WsStep, Connect,
           Subscribe, AckTimeout, Drop, Ready, StreamEnds, Disconnect, Leave
  <2>3. PICK a \in Browsers : Render(a) \/ Forget(a) BY <2>2
  <2>4. a = b /\ Render(b) BY <2>1, <2>3 DEF Render, Forget
  <2>5. phase[b] = "attached" /\ chan[b] # <<>> /\ seen'[b] = chan[b][1]
    <3>1. chan[b] \in Seq(1 .. MaxFrames) /\ chan[b] # <<>> BY <2>4 DEF Render, StreamInv, Typed
    <3>2. Head(chan[b]) = chan[b][1] BY <3>1
    <3> QED BY <2>1, <2>4, <3>2 DEF Render
  <2>6. /\ pos[b] \in Nat /\ seen[b] \in Nat /\ seen[b] <= pos[b] /\ pos[b] < chan[b][1]
        /\ chan[b][1] \in Nat
    <3>1. chan[b] \in Seq(1 .. MaxFrames) /\ Len(chan[b]) \in Nat \ {0}
      BY <2>5, EmptySeq DEF StreamInv, Typed
    <3>2. 1 \in 1 .. Len(chan[b]) BY <3>1
    <3>3. chan[b][1] \in 1 .. MaxFrames BY <3>1, <3>2, ElementOfSeq
    <3> QED BY <2>1, <2>5, <3>3, StreamAssumption DEF StreamInv, Typed, Ahead, Streaming
  <2>7. chan[b][1] = pos[b] + 1 \/ told[b]
    BY <2>5 DEF StreamInv, StreamHasNoGap, Streaming
  <2> QED BY <2>5, <2>6, <2>7
<1>2. Spec => [][Forward]_vars BY <1>1, StreamInit, StreamNext, PTL DEF Spec
<1> QED BY <1>2 DEF NeverBackNeverSkip
=============================================================================
