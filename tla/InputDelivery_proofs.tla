------------------------ MODULE InputDelivery_proofs ------------------------
(***************************************************************************)
(* Proofs about the delivery of input, for any number of requests, chunks, *)
(* probes and hangs of the server: the types, that the breaker's cooldown  *)
(* is justified, that the actor's answers are true, and that no text is    *)
(* typed twice.                                                            *)
(***************************************************************************)
EXTENDS InputDelivery, SequenceTheorems, TLAPS

-----------------------------------------------------------------------------
(* The breaker by itself. *)

BreakerStep ==
    \/ \E c \in Callers : Start(c) \/ Answer(c) \/ TimeOut(c) \/ SpawnFails(c)
    \/ Tick \/ Hang \/ Recover
    \/ UNCHANGED breakerVars

Justified == BreakerTypeOK /\ SkipsAreJustified

LEMMA BreakerInitJustified == ASSUME BreakerInit PROVE Justified
<1>1. 0 \in 0 .. MaxMultiplier /\ 0 \in 0 .. MaxHangs BY BreakerAssumption
<1>2. BreakerTypeOK BY <1>1 DEF BreakerInit, BreakerTypeOK
<1>3. SkipsAreJustified BY DEF BreakerInit, SkipsAreJustified
<1> QED BY <1>2, <1>3 DEF Justified

LEMMA CooldownRange == \A n \in Nat : Cooldown(n) \in 1 .. MaxMultiplier
BY BreakerAssumption DEF Cooldown

LEMMA BreakerKeepsJustified == ASSUME Justified, BreakerStep PROVE Justified'
<1> USE BreakerAssumption DEF Justified, BreakerTypeOK, SkipsAreJustified
<1>1. ASSUME NEW c \in Callers, Start(c) PROVE Justified' BY <1>1 DEF Start
<1>2. ASSUME NEW c \in Callers, Answer(c) PROVE Justified' BY <1>2 DEF Answer, Ended
<1>3. ASSUME NEW c \in Callers, TimeOut(c) PROVE Justified'
  <2>1. timeouts' \in 1 .. MaxMultiplier BY <1>3 DEF TimeOut
  <2>2. cooling' \in 1 .. MaxMultiplier BY <1>3, <2>1, CooldownRange DEF TimeOut
  <2> QED BY <1>3, <2>1, <2>2 DEF TimeOut, Ended
<1>4. ASSUME NEW c \in Callers, SpawnFails(c) PROVE Justified' BY <1>4 DEF SpawnFails, Ended
<1>5. CASE Tick BY <1>5 DEF Tick
<1>6. CASE Hang BY <1>6 DEF Hang
<1>7. CASE Recover BY <1>7 DEF Recover
<1>8. CASE UNCHANGED breakerVars BY <1>8 DEF breakerVars
<1> QED BY <1>1, <1>2, <1>3, <1>4, <1>5, <1>6, <1>7, <1>8 DEF BreakerStep

LEMMA NextIsBreakerStep == [Next]_vars => BreakerStep
<1> SUFFICES ASSUME [Next]_vars PROVE BreakerStep OBVIOUS
<1>1. Actor \in Callers /\ Probes \subseteq Callers BY InputAssumption, BreakerAssumption
<1>2. ASSUME NEW r \in Requests, Send(r) \/ GiveUp(r) PROVE BreakerStep
  BY <1>2 DEF Send, GiveUp, BreakerStep
<1>3. CASE Receive \/ NoticeExit BY <1>3 DEF Receive, NoticeExit, BreakerStep
<1>4. CASE Issue BY <1>1, <1>4 DEF Issue, BreakerStep
<1>5. CASE CommandEnds
  <2>1. CommandSucceeds \/ CommandFails => Answer(Actor) BY DEF CommandSucceeds, CommandFails
  <2>2. CommandTimesOut => TimeOut(Actor) BY DEF CommandTimesOut
  <2>3. CommandNotSpawned => SpawnFails(Actor) BY DEF CommandNotSpawned
  <2> QED BY <1>1, <1>5, <2>1, <2>2, <2>3 DEF CommandEnds, BreakerStep
<1>6. CASE WritePty \/ WritePtyFails BY <1>6 DEF WritePty, WritePtyFails, BreakerStep
<1>7. CASE Relay \/ SessionEnds BY <1>7 DEF Relay, SessionEnds, BreakerStep
<1>8. ASSUME NEW x \in AllKeys, TypeLate(x) PROVE BreakerStep BY <1>8 DEF TypeLate, BreakerStep
<1>9. ASSUME NEW p \in Probes, ProbeStarts(p) \/ ProbeEnds(p) PROVE BreakerStep
  BY <1>1, <1>9 DEF ProbeStarts, ProbeEnds, ProbeIsAnswered, ProbeTimesOut, ProbeNotSpawned, BreakerStep
<1>10. CASE Server BY <1>10 DEF Server, BreakerStep
<1>11. CASE UNCHANGED vars BY <1>11 DEF vars, BreakerStep
<1> QED BY <1>2, <1>3, <1>4, <1>5, <1>6, <1>7, <1>8, <1>9, <1>10, <1>11 DEF Next, ActorStep

LEMMA JustifiedAlways == Spec => []Justified
<1>1. Init => Justified BY BreakerInitJustified DEF Init
<1>2. Justified /\ [Next]_vars => Justified' BY NextIsBreakerStep, BreakerKeepsJustified
<1> QED BY <1>1, <1>2, PTL DEF Spec

(***************************************************************************)
(* A probe is skipped only while the last command that ended timed out:    *)
(* however the commands of many tasks overlap, no cooldown outlives an     *)
(* answer of the server.                                                   *)
(***************************************************************************)
THEOREM SkipsJustified == Spec => []SkipsAreJustified
BY JustifiedAlways, PTL DEF Justified

-----------------------------------------------------------------------------
(* Keys, texts and scripts. *)

Text(n) == [k \in 1 .. n |-> k]

LEMMA Sizes ==
    ASSUME NEW r \in Requests
    PROVE  Size(r) \in Nat \ {0} /\ WholeText(r) = Text(Size(r))
BY InputAssumption DEF Size, WholeText, Text

LEMMA TextIsASeq ==
    ASSUME NEW n \in Nat
    PROVE  /\ Text(n) \in Seq(1 .. n) /\ Len(Text(n)) = n
           /\ \A k \in 1 .. n : Text(n)[k] = k
BY DEF Text

LEMMA TextGrows == ASSUME NEW n \in Nat PROVE Append(Text(n), n + 1) = Text(n + 1)
<1>1. Text(n) \in Seq(Nat) /\ Len(Text(n)) = n BY TextIsASeq, SeqMonotonic, 1 .. n \subseteq Nat
<1>2. Text(n + 1) \in Seq(Nat) /\ Len(Text(n + 1)) = n + 1
  BY TextIsASeq, SeqMonotonic, 1 .. (n + 1) \subseteq Nat
<1>3. /\ Append(Text(n), n + 1) \in Seq(Nat) /\ Len(Append(Text(n), n + 1)) = n + 1
      /\ \A i \in 1 .. n : Append(Text(n), n + 1)[i] = Text(n)[i]
      /\ Append(Text(n), n + 1)[n + 1] = n + 1
  BY <1>1, AppendProperties
<1>4. \A i \in 1 .. (n + 1) : Append(Text(n), n + 1)[i] = Text(n + 1)[i]
  BY <1>3 DEF Text
<1> QED BY <1>2, <1>3, <1>4, SeqEqual

LEMMA TextPrefix ==
    ASSUME NEW n \in Nat, NEW m \in Nat, n <= m
    PROVE  IsPrefix(Text(n), Text(m))
<1>1. Text(n) \in Seq(Nat) /\ Len(Text(n)) = n BY TextIsASeq, SeqMonotonic, 1 .. n \subseteq Nat
<1>2. Text(m) \in Seq(Nat) /\ Len(Text(m)) = m BY TextIsASeq, SeqMonotonic, 1 .. m \subseteq Nat
<1>3. /\ SubSeq(Text(n), 1, n) \in Seq(Nat) /\ Len(SubSeq(Text(n), 1, n)) = n
      /\ \A i \in 1 .. n : SubSeq(Text(n), 1, n)[i] = Text(n)[i]
  BY <1>1
<1>4. /\ SubSeq(Text(m), 1, n) \in Seq(Nat) /\ Len(SubSeq(Text(m), 1, n)) = n
      /\ \A i \in 1 .. n : SubSeq(Text(m), 1, n)[i] = Text(m)[i]
  BY <1>2
<1>5. \A i \in 1 .. n : SubSeq(Text(n), 1, n)[i] = SubSeq(Text(m), 1, n)[i]
  BY <1>3, <1>4 DEF Text
<1>6. SubSeq(Text(n), 1, n) = SubSeq(Text(m), 1, n) BY ONLY <1>3, <1>4, <1>5, SeqEqual
<1> QED BY <1>1, <1>2, <1>6 DEF IsPrefix

\* How many keys the commands before the one at position i have typed.
Typed(r, i) == IF r \in Writes THEN IF i > 2 THEN i - 2 ELSE 0
               ELSE IF i > 3 THEN i - 3 ELSE 0

LEMMA Scripts ==
    ASSUME NEW r \in Requests
    PROVE  /\ Len(Script(r)) \in Nat /\ Len(Script(r)) > 1
           /\ Script(r)[1] = 0
           /\ \A i \in 1 .. Len(Script(r)) :
                  /\ Script(r)[i] = 0 => Typed(r, i + 1) = Typed(r, i) /\ i < Len(Script(r))
                  /\ Script(r)[i] # 0 => /\ Script(r)[i] = Typed(r, i) + 1
                                         /\ Script(r)[i] \in 1 .. Size(r)
                                         /\ Typed(r, i + 1) = Typed(r, i) + 1
                                         /\ i = Len(Script(r)) => Typed(r, i) + 1 = Size(r)
<1>1. CASE r \in Writes
  <2>1. Script(r) = <<0>> \o Text(Chunks) /\ Size(r) = Chunks /\ Chunks \in Nat \ {0}
    BY <1>1, InputAssumption, Sizes DEF Script, Size
  <2>2. Text(Chunks) \in Seq(Nat) /\ Len(Text(Chunks)) = Chunks
    BY <2>1, TextIsASeq, SeqMonotonic, 1 .. Chunks \subseteq Nat
  <2>3. <<0>> \in Seq(Nat) /\ Len(<<0>>) = 1 /\ <<0>>[1] = 0 OBVIOUS
  <2>4. /\ Len(Script(r)) = 1 + Chunks
        /\ \A i \in 1 .. 1 + Chunks : Script(r)[i] = IF i <= 1 THEN 0 ELSE Text(Chunks)[i - 1]
    BY <2>1, <2>2, <2>3, ConcatProperties
  <2>5. \A i \in 1 .. 1 + Chunks : Script(r)[i] = IF i = 1 THEN 0 ELSE i - 1
    <3> TAKE i \in 1 .. 1 + Chunks
    <3>1. i # 1 => i - 1 \in 1 .. Chunks BY <2>1
    <3> QED BY <2>4, <3>1, <2>1 DEF Text
  <2> QED BY <1>1, <2>1, <2>4, <2>5 DEF Typed
<1>2. CASE r \in Submits
  <2>1. r \notin Writes BY <1>2, InputAssumption
  <2>2. Script(r) = <<0, 0, 1, 2, 3>> /\ Size(r) = 3 BY <2>1 DEF Script, Size
  <2> QED BY <2>1, <2>2 DEF Typed
<1> QED BY <1>1, <1>2 DEF Requests

LEMMA KeysAreTyped ==
    ASSUME NEW r \in Requests
    PROVE  /\ Keys(r) \in Seq(AllKeys) /\ Len(Keys(r)) = Size(r)
           /\ \A k \in 1 .. Size(r) : Keys(r)[k] = <<r, k>> /\ <<r, k>> \in AllKeys
<1>1. Size(r) \in Nat BY Sizes
<1>2. \A k \in 1 .. Size(r) : <<r, k>> \in AllKeys BY DEF AllKeys
<1> QED BY <1>1, <1>2 DEF Keys

LEMMA KeyParts ==
    ASSUME NEW x \in AllKeys
    PROVE  x[1] \in Requests /\ x[2] \in 1 .. Size(x[1]) /\ x = <<x[1], x[2]>>
BY DEF AllKeys

-----------------------------------------------------------------------------
(* The types. *)

Answers == Results \cup {"unsent", "nothing", "waiting", "timeout"}

\* Which request is at which stage, and what was said of each.
Control ==
    /\ current \in Requests \cup {NoRequest}
    /\ stage \in {"idle", "tmux", "pty"}
    /\ (stage = "idle") <=> (current = NoRequest)
    /\ at \in Nat \ {0}
    /\ stage = "tmux" => at \in 1 .. Len(Script(current))
    /\ said \in [Requests -> Results \cup {"none"}]
    /\ told \in [Requests -> Answers]

Data ==
    /\ mailbox \in Seq(Requests)
    /\ Actor \in running => stage = "tmux"
    /\ pane \in [Requests -> Seq(Nat)]
    /\ \A r \in Requests : pane[r] \in Seq(1 .. Size(r))
    /\ wire \in Seq(AllKeys)
    /\ late \subseteq unsure
    /\ unsure \subseteq AllKeys
    /\ closed => ~ alive

Shape == Control /\ Data

LEMMA AnsweredTyped ==
    ASSUME Control, NEW r \in Requests, NEW result \in Results, Answered(r, result)
    PROVE  /\ said' \in [Requests -> Results \cup {"none"}] /\ told' \in [Requests -> Answers]
           /\ said'[r] = result /\ told'[r] = IF told[r] = "waiting" THEN result ELSE told[r]
           /\ \A q \in Requests \ {r} : said'[q] = said[q] /\ told'[q] = told[q]
BY DEF Control, Answered, Answers

LEMMA FinishControl ==
    ASSUME Control, stage # "idle", NEW result \in Results, Finish(result)
    PROVE  Control'
<1>1. current \in Requests BY DEF Control
<1>2. said' \in [Requests -> Results \cup {"none"}] /\ told' \in [Requests -> Answers]
  BY <1>1, AnsweredTyped DEF Finish
<1> QED BY <1>2 DEF Finish, Control

\* Every way a command may end moves the script on or ends the request.
LEMMA AdvanceControl == ASSUME Control, stage = "tmux", Advance PROVE Control'
<1>1. current \in Requests BY DEF Control
<1>2. CASE at = Len(Script(current))
  BY <1>2, FinishControl DEF Advance, Results
<1>3. CASE at # Len(Script(current))
  <2>1. at' = at + 1 /\ UNCHANGED <<stage, current, said, told>> BY <1>3 DEF Advance
  <2>2. Len(Script(current)) \in Nat BY <1>1, Scripts
  <2> QED BY <1>3, <2>1, <2>2 DEF Control
<1> QED BY <1>2, <1>3

LEMMA MissedControl == ASSUME Control, stage = "tmux", Missed PROVE Control'
<1>1. CASE at = 1 BY <1>1, AdvanceControl DEF Missed
<1>2. CASE at # 1 /\ ConfirmedChunks > 0 BY <1>2, FinishControl DEF Missed, Results
<1>3. CASE at # 1 /\ ~ (ConfirmedChunks > 0)
  <2>1. stage' = "pty" /\ UNCHANGED <<current, at, said, told>> BY <1>3 DEF Missed
  <2> QED BY <2>1 DEF Control
<1> QED BY <1>1, <1>2, <1>3

LEMMA TypeTyped ==
    ASSUME Data, NEW r \in Requests, NEW k \in 1 .. Size(r), Type(r, k)
    PROVE  /\ pane' \in [Requests -> Seq(Nat)]
           /\ \A q \in Requests : pane'[q] \in Seq(1 .. Size(q))
           /\ pane'[r] = Append(pane[r], k)
           /\ \A q \in Requests \ {r} : pane'[q] = pane[q]
<1>1. Size(r) \in Nat BY Sizes
<1>2. pane \in [Requests -> Seq(Nat)] /\ pane[r] \in Seq(Nat) /\ pane[r] \in Seq(1 .. Size(r))
  BY DEF Data
<1>3. Append(pane[r], k) \in Seq(Nat) /\ Append(pane[r], k) \in Seq(1 .. Size(r))
  BY <1>1, <1>2, AppendProperties
<1>4. pane' = [pane EXCEPT ![r] = Append(pane[r], k)] BY DEF Type
<1>5. /\ pane' \in [Requests -> Seq(Nat)] /\ pane'[r] = Append(pane[r], k)
      /\ \A q \in Requests \ {r} : pane'[q] = pane[q]
  BY ONLY <1>2, <1>3, <1>4
<1> QED BY <1>3, <1>5 DEF Data

LEMMA InitShape == Init => Shape
<1> SUFFICES ASSUME Init PROVE Shape OBVIOUS
<1>1. Control BY InputAssumption DEF Init, Control, Answers
<1>2. Data
  <2>1. << >> \in Seq(Requests) /\ << >> \in Seq(AllKeys) /\ << >> \in Seq(Nat)
    BY EmptySeq
  <2>2. \A r \in Requests : << >> \in Seq(1 .. Size(r)) BY EmptySeq
  <2> QED BY <2>1, <2>2 DEF Init, BreakerInit, Data
<1> QED BY <1>1, <1>2 DEF Shape

LEMMA ClientShape == ASSUME Shape, NEW r \in Requests, Send(r) \/ GiveUp(r) PROVE Shape'
<1>1. told' \in [Requests -> Answers]
  <2>1. told \in [Requests -> Answers] BY DEF Shape, Control
  <2>2. PICK x \in {"waiting", "nothing", "timeout"} : told' = [told EXCEPT ![r] = x]
    BY DEF Send, GiveUp
  <2>3. x \in Answers BY DEF Answers
  <2> QED BY <2>1, <2>2, <2>3
<1>2. mailbox' \in Seq(Requests)
  <2>1. mailbox \in Seq(Requests) BY DEF Shape, Data
  <2>2. mailbox' = mailbox \/ mailbox' = Append(mailbox, r) BY DEF Send, GiveUp
  <2> QED BY <2>1, <2>2, AppendProperties
<1>3. /\ UNCHANGED <<breakerVars, current, stage, at, pane, wire, late, alive, closed, said, unsure>>
      /\ running' = running
  BY DEF Send, GiveUp, breakerVars
<1>4. Control' BY <1>1, <1>3 DEF Shape, Control
<1>5. Data' BY <1>2, <1>3 DEF Shape, Data
<1> QED BY <1>4, <1>5 DEF Shape

LEMMA ReceiveShape == ASSUME Shape, Receive PROVE Shape'
<1> DEFINE r == Head(mailbox)
<1>1. mailbox \in Seq(Requests) /\ mailbox # << >> BY DEF Receive, Shape, Data
<1>2. r \in Requests /\ mailbox' \in Seq(Requests)
  BY <1>1, HeadTailProperties DEF Receive
<1>3. /\ UNCHANGED <<breakerVars, pane, wire, late, alive, closed, unsure>> /\ running' = running
      /\ stage = "idle"
  BY DEF Receive, breakerVars
<1>4. CASE closed
  <2>1. Answered(r, "failed") /\ UNCHANGED <<current, stage, at>> BY <1>4 DEF Receive
  <2>2. said' \in [Requests -> Results \cup {"none"}] /\ told' \in [Requests -> Answers]
    BY <1>2, <2>1, AnsweredTyped DEF Shape, Results
  <2>3. Control' BY <2>1, <2>2 DEF Shape, Control
  <2>4. Data' BY <1>2, <1>3, <2>1 DEF Shape, Data
  <2> QED BY <2>3, <2>4 DEF Shape
<1>5. CASE ~ closed
  <2>1. current' = r /\ stage' \in {"tmux", "pty"} /\ at' = 1 /\ UNCHANGED <<said, told>>
    BY <1>5 DEF Receive
  <2>2. r # NoRequest /\ Len(Script(r)) \in Nat /\ Len(Script(r)) > 1
    BY <1>2, InputAssumption, Scripts
  <2> HIDE DEF r
  <2>3. Control' BY <1>2, <2>1, <2>2 DEF Shape, Control
  <2>4. Data' BY <1>2, <1>3, <2>1 DEF Shape, Data
  <2> QED BY <2>3, <2>4 DEF Shape
<1> QED BY <1>4, <1>5

LEMMA CommandShape == ASSUME Shape, CommandEnds PROVE Shape'
<1>0. stage = "tmux" /\ Actor \in running
  BY DEF CommandEnds, CommandSucceeds, CommandFails, CommandTimesOut, CommandNotSpawned,
         Answer, TimeOut, SpawnFails, Ended, Shape, Data
<1>1. current \in Requests /\ at \in 1 .. Len(Script(current)) BY <1>0, InputAssumption DEF Shape, Control
<1>2. Key # 0 => Key \in 1 .. Size(current) /\ <<current, Key>> \in AllKeys
  BY <1>1, Scripts, KeysAreTyped DEF Key
<1>3. Control'
  BY <1>0, AdvanceControl, MissedControl
  DEF CommandEnds, CommandSucceeds, CommandFails, CommandTimesOut, CommandNotSpawned, Shape
<1>4. Actor \notin running'
  BY DEF CommandEnds, CommandSucceeds, CommandFails, CommandTimesOut, CommandNotSpawned,
         Answer, TimeOut, SpawnFails, Ended
<1>5. UNCHANGED <<mailbox, wire, alive, closed>>
  BY DEF CommandEnds, CommandSucceeds, CommandFails, CommandTimesOut, CommandNotSpawned
<1>6. late' \subseteq unsure' /\ unsure' \subseteq AllKeys
  <2>1. CASE CommandTimesOut
    <3>1. /\ late' = late \/ (Key # 0 /\ late' = late \cup {<<current, Key>>})
          /\ unsure' = IF Key = 0 THEN unsure ELSE unsure \cup {<<current, Key>>}
      BY <2>1 DEF CommandTimesOut
    <3> QED BY <1>2, <3>1 DEF Shape, Data
  <2>2. CASE CommandSucceeds \/ CommandFails \/ CommandNotSpawned
    BY <2>2 DEF CommandSucceeds, CommandFails, CommandNotSpawned, Shape, Data
  <2> QED BY <2>1, <2>2 DEF CommandEnds
<1>7. /\ pane' \in [Requests -> Seq(Nat)]
      /\ \A q \in Requests : pane'[q] \in Seq(1 .. Size(q))
  <2>1. CASE UNCHANGED pane BY <2>1 DEF Shape, Data
  <2>2. CASE Key # 0 /\ Type(current, Key)
    BY <1>1, <1>2, <2>2, TypeTyped DEF Shape
  <2> QED BY <2>1, <2>2 DEF CommandEnds, CommandSucceeds, CommandFails, CommandTimesOut, CommandNotSpawned
<1>8. Data' BY <1>4, <1>5, <1>6, <1>7 DEF Shape, Data
<1> QED BY <1>3, <1>8 DEF Shape

LEMMA PtyShape == ASSUME Shape, WritePty \/ WritePtyFails PROVE Shape'
<1>1. stage = "pty" /\ current \in Requests BY InputAssumption DEF WritePty, WritePtyFails, Shape, Control
<1>2. Control' BY <1>1, FinishControl DEF WritePty, WritePtyFails, Shape, Results
<1>3. /\ UNCHANGED <<breakerVars, mailbox, pane, late, alive, closed, unsure>> /\ running' = running
      /\ stage' = "idle"
  BY DEF WritePty, WritePtyFails, breakerVars, Finish
<1>4. Actor \notin running BY <1>1 DEF Shape, Data
<1>5. Keys(current) \in Seq(AllKeys) /\ Len(Keys(current)) = Size(current) /\ Size(current) \in Nat
  BY <1>1, KeysAreTyped, Sizes
<1>6. wire' \in Seq(AllKeys)
  <2>1. wire \in Seq(AllKeys) BY DEF Shape, Data
  <2>2. CASE WritePty BY <1>5, <2>1, <2>2, ConcatProperties DEF WritePty, Written
  <2>3. CASE WritePtyFails
    <3>1. PICK n \in 0 .. (Size(current) - 1) : wire' = wire \o SubSeq(Keys(current), 1, n)
      BY <2>3 DEF WritePtyFails
    <3>2. SubSeq(Keys(current), 1, n) \in Seq(AllKeys)
      BY <1>5, SubSeqProperties
    <3> QED BY <2>1, <3>1, <3>2, ConcatProperties
  <2> QED BY <2>2, <2>3
<1>7. Data' BY <1>3, <1>4, <1>6 DEF Shape, Data
<1> QED BY <1>2, <1>7 DEF Shape

LEMMA ServerShape ==
    ASSUME Shape, Relay \/ (\E x \in AllKeys : TypeLate(x)) \/ SessionEnds \/ NoticeExit PROVE Shape'
<1>1. UNCHANGED <<breakerVars, mailbox, current, stage, at, said, told>> /\ running' = running
  BY DEF Relay, TypeLate, SessionEnds, NoticeExit, breakerVars
<1>2. Control' BY <1>1 DEF Shape, Control
<1>3. CASE Relay
  <2>1. wire \in Seq(AllKeys) /\ wire # << >> /\ wire' = Tail(wire)
    BY <1>3 DEF Relay, Shape, Data
  <2>2. Head(wire) \in AllKeys /\ wire' \in Seq(AllKeys) BY <2>1, HeadTailProperties
  <2>3. Type(Head(wire)[1], Head(wire)[2]) /\ UNCHANGED <<late, alive, closed, unsure>>
    BY <1>3 DEF Relay
  <2>4. /\ pane' \in [Requests -> Seq(Nat)]
        /\ \A q \in Requests : pane'[q] \in Seq(1 .. Size(q))
    BY <2>2, <2>3, KeyParts, TypeTyped DEF Shape
  <2>5. Data' BY <1>1, <2>2, <2>3, <2>4 DEF Shape, Data
  <2> QED BY <1>2, <2>5 DEF Shape
<1>4. ASSUME NEW x \in AllKeys, TypeLate(x) PROVE Shape'
  <2>1. Type(x[1], x[2]) /\ late' = late \ {x} /\ UNCHANGED <<wire, alive, closed, unsure>>
    BY <1>4 DEF TypeLate
  <2>2. /\ pane' \in [Requests -> Seq(Nat)]
        /\ \A q \in Requests : pane'[q] \in Seq(1 .. Size(q))
    BY <2>1, KeyParts, TypeTyped DEF Shape
  <2>3. Data' BY <1>1, <2>1, <2>2 DEF Shape, Data
  <2> QED BY <1>2, <2>3 DEF Shape
<1>5. CASE SessionEnds \/ NoticeExit
  <2>1. Data' BY <1>1, <1>5 DEF SessionEnds, NoticeExit, Shape, Data
  <2> QED BY <1>2, <2>1 DEF Shape
<1> QED BY <1>3, <1>4, <1>5

LEMMA BreakerShape ==
    ASSUME Shape, UNCHANGED inputVars, Actor \in running' => Actor \in running \/ stage = "tmux"
    PROVE  Shape'
<1>1. Control' BY DEF Shape, Control, inputVars
<1>2. Data' BY DEF Shape, Data, inputVars
<1> QED BY <1>1, <1>2 DEF Shape

\* The steps of others that leave the input alone.
LEMMA OthersStep ==
    ASSUME Issue \/ (\E p \in Probes : ProbeStarts(p) \/ ProbeEnds(p)) \/ Server
    PROVE  UNCHANGED inputVars /\ (Actor \in running' => Actor \in running \/ stage = "tmux")
<1>1. Actor \notin Probes BY InputAssumption
<1>2. CASE Issue BY <1>2 DEF Issue
<1>3. ASSUME NEW p \in Probes, ProbeStarts(p) \/ ProbeEnds(p)
      PROVE  UNCHANGED inputVars /\ (Actor \in running' => Actor \in running)
  BY <1>1, <1>3 DEF ProbeStarts, ProbeEnds, ProbeIsAnswered, ProbeTimesOut, ProbeNotSpawned,
                    Start, Answer, TimeOut, SpawnFails, Ended
<1>4. CASE Server BY <1>4 DEF Server, Hang, Recover, Tick
<1> QED BY <1>2, <1>3, <1>4

LEMMA NextShape == ASSUME Shape, [Next]_vars PROVE Shape'
<1>1. ASSUME NEW r \in Requests, Send(r) \/ GiveUp(r) PROVE Shape' BY <1>1, ClientShape
<1>2. CASE Receive BY <1>2, ReceiveShape
<1>3. CASE CommandEnds BY <1>3, CommandShape
<1>4. CASE WritePty \/ WritePtyFails BY <1>4, PtyShape
<1>5. CASE Relay \/ (\E x \in AllKeys : TypeLate(x)) \/ SessionEnds \/ NoticeExit
  BY <1>5, ServerShape
<1>6. CASE Issue \/ (\E p \in Probes : ProbeStarts(p) \/ ProbeEnds(p)) \/ Server
  BY <1>6, OthersStep, BreakerShape
<1>7. CASE UNCHANGED vars BY <1>7, BreakerShape DEF vars, breakerVars
<1> QED BY <1>1, <1>2, <1>3, <1>4, <1>5, <1>6, <1>7 DEF Next, ActorStep

LEMMA ShapeAlways == Spec => []Shape
BY InitShape, NextShape, PTL DEF Spec

(***************************************************************************)
(* The variables keep their types: the actor has a command running only in *)
(* the stage in which it types with tmux, the script never runs past its   *)
(* end, and only keys of commands that timed out can arrive late.          *)
(***************************************************************************)
THEOREM TypeCorrect == Spec => []TypeOK
<1>1. Shape /\ Justified => TypeOK
  BY DEF Shape, Control, Data, Justified, TypeOK, Answers
<1> QED BY <1>1, ShapeAlways, JustifiedAlways, PTL

-----------------------------------------------------------------------------
(* The answers of the actor. *)

\* A request is in one place: not sent, in the mailbox once, being worked on,
\* or answered.
Placed ==
    /\ \A i, j \in 1 .. Len(mailbox) : mailbox[i] = mailbox[j] => i = j
    /\ \A i \in 1 .. Len(mailbox) :
           /\ mailbox[i] # current
           /\ said[mailbox[i]] = "none" /\ told[mailbox[i]] # "unsent"
    /\ current # NoRequest => said[current] = "none" /\ told[current] # "unsent"
    /\ \A r \in Requests : told[r] = "unsent" => said[r] = "none"

\* Whose keys are on their way.
OnlyTheirs ==
    /\ \A i \in 1 .. Len(wire) : said[wire[i][1]] \in {"pty", "failed"}
    /\ \A x \in late : \/ said[x[1]] \in {"partial", "pty", "failed"}
                       \/ x[1] = current /\ stage = "pty"

\* The keys of a request that the session got so far.
Progress(r) ==
    /\ said[r] = "none" /\ r # current => pane[r] = << >>
    /\ r = current /\ stage = "tmux" => pane[r] = Text(Typed(r, at))
    /\ said[r] = "sent" => pane[r] = Text(Size(r))
    /\ said[r] = "partial" =>
           \E n \in 1 .. Size(r) : /\ pane[r] = Text(n)
                                   /\ \A x \in late : x[1] = r => x[2] = n + 1
    /\ said[r] = "pty" =>
           \A k \in 1 .. Size(r) : \/ \E i \in 1 .. Len(pane[r]) : pane[r][i] = k
                                   \/ \E i \in 1 .. Len(wire) : wire[i] = <<r, k>>

Truth == Placed /\ OnlyTheirs /\ \A r \in Requests : Progress(r)

LEMMA TruthIsTrue == ASSUME Shape, Truth PROVE AnswerIsTrue
<1> SUFFICES ASSUME NEW r \in Requests
             PROVE  /\ said[r] = "sent" => pane[r] = WholeText(r)
                    /\ said[r] = "partial" => pane[r] # << >> /\ IsPrefix(pane[r], WholeText(r))
                    /\ said[r] = "pty" => Arrived(r) \cup OnTheWay(r) = 1 .. Size(r)
  BY DEF AnswerIsTrue
<1>1. Size(r) \in Nat \ {0} /\ WholeText(r) = Text(Size(r)) BY Sizes
<1>2. Progress(r) BY DEF Truth
<1>3. said[r] = "sent" => pane[r] = WholeText(r) BY <1>1, <1>2 DEF Progress
<1>4. ASSUME said[r] = "partial" PROVE pane[r] # << >> /\ IsPrefix(pane[r], WholeText(r))
  <2>1. PICK n \in 1 .. Size(r) : pane[r] = Text(n) BY <1>2, <1>4 DEF Progress
  <2>2. n \in Nat \ {0} /\ n <= Size(r) BY <1>1
  <2>3. Len(pane[r]) = n BY <2>1, <2>2, TextIsASeq
  <2>4. pane[r] # << >> BY <2>2, <2>3
  <2> QED BY <1>1, <2>1, <2>2, <2>4, TextPrefix
<1>5. ASSUME said[r] = "pty" PROVE Arrived(r) \cup OnTheWay(r) = 1 .. Size(r)
  <2>1. pane[r] \in Seq(1 .. Size(r)) /\ wire \in Seq(AllKeys) BY DEF Shape, Data
  <2>2. DOMAIN pane[r] = 1 .. Len(pane[r]) /\ \A i \in 1 .. Len(pane[r]) : pane[r][i] \in 1 .. Size(r)
    BY <2>1, LenProperties, ElementOfSeq
  <2>3. Arrived(r) \subseteq 1 .. Size(r) BY <2>2 DEF Arrived, ToSet
  <2>4. OnTheWay(r) \subseteq 1 .. Size(r) BY DEF OnTheWay
  <2>5. ASSUME NEW k \in 1 .. Size(r) PROVE k \in Arrived(r) \cup OnTheWay(r)
    <3>1. ASSUME NEW i \in 1 .. Len(pane[r]), pane[r][i] = k PROVE k \in Arrived(r)
      BY <2>2, <3>1 DEF Arrived, ToSet
    <3>2. ASSUME NEW i \in 1 .. Len(wire), wire[i] = <<r, k>> PROVE k \in OnTheWay(r)
      BY <3>2 DEF OnTheWay, Contains
    <3> QED BY <1>2, <1>5, <3>1, <3>2 DEF Progress
  <2> QED BY <2>3, <2>4, <2>5
<1> QED BY <1>3, <1>4, <1>5

LEMMA InitTruth == Init => Truth
<1> SUFFICES ASSUME Init PROVE Truth OBVIOUS
<1>1. Len(mailbox) = 0 /\ Len(wire) = 0 BY EmptySeq DEF Init
<1>2. Placed BY <1>1 DEF Init, Placed
<1>3. OnlyTheirs BY <1>1 DEF Init, OnlyTheirs
<1>4. \A r \in Requests : Progress(r) BY InputAssumption DEF Init, Progress
<1> QED BY <1>2, <1>3, <1>4 DEF Truth

LEMMA SendTruth == ASSUME Shape, Truth, NEW r \in Requests, Send(r) PROVE Truth'
<1>1. /\ told[r] = "unsent" /\ mailbox' = Append(mailbox, r)
      /\ UNCHANGED <<current, stage, at, pane, wire, late, said>>
      /\ \A q \in Requests : told'[q] = "unsent" => told[q] = "unsent"
      /\ told'[r] # "unsent"
  <2>1. told \in [Requests -> Answers] BY DEF Shape, Control
  <2>2. told' = [told EXCEPT ![r] = IF r \in Acked THEN "waiting" ELSE "nothing"] BY DEF Send
  <2>3. told'[r] # "unsent" BY <2>1, <2>2
  <2>4. \A q \in Requests : told'[q] = "unsent" => told[q] = "unsent" BY <2>1, <2>2
  <2> QED BY <2>3, <2>4 DEF Send
<1>2. mailbox \in Seq(Requests) BY DEF Shape, Data
<1>3. /\ Len(mailbox') = Len(mailbox) + 1 /\ Len(mailbox) \in Nat
      /\ \A i \in 1 .. Len(mailbox) : mailbox'[i] = mailbox[i] /\ mailbox[i] \in Requests
      /\ mailbox'[Len(mailbox) + 1] = r
  BY <1>1, <1>2, AppendProperties
<1>4. /\ \A i \in 1 .. Len(mailbox) : mailbox[i] # r
      /\ r # current /\ said[r] = "none"
  <2>1. r # NoRequest BY InputAssumption
  <2>2. \A i \in 1 .. Len(mailbox) : mailbox[i] # r BY <1>1 DEF Truth, Placed
  <2>3. r # current /\ said[r] = "none" BY <1>1, <2>1 DEF Truth, Placed
  <2> QED BY <2>2, <2>3
<1>5. current = NoRequest \/ current \in Requests BY DEF Shape, Control
<1>6. Placed'
  <2>1. \A i, j \in 1 .. Len(mailbox') : mailbox'[i] = mailbox'[j] => i = j
    <3> TAKE i, j \in 1 .. Len(mailbox')
    <3>1. i \in 1 .. Len(mailbox) \/ i = Len(mailbox) + 1 BY <1>3
    <3>2. j \in 1 .. Len(mailbox) \/ j = Len(mailbox) + 1 BY <1>3
    <3> QED BY <3>1, <3>2, <1>3, <1>4 DEF Truth, Placed
  <2>2. \A i \in 1 .. Len(mailbox') :
            /\ mailbox'[i] # current'
            /\ said'[mailbox'[i]] = "none" /\ told'[mailbox'[i]] # "unsent"
    <3> TAKE i \in 1 .. Len(mailbox')
    <3>1. i \in 1 .. Len(mailbox) \/ i = Len(mailbox) + 1 BY <1>3
    <3> QED BY <3>1, <1>1, <1>3, <1>4 DEF Truth, Placed
  <2> QED BY <2>1, <2>2, <1>1, <1>5 DEF Truth, Placed
<1>7. OnlyTheirs' BY <1>1 DEF Truth, OnlyTheirs
<1>8. ASSUME NEW q \in Requests PROVE Progress(q)' BY <1>1 DEF Truth, Progress
<1> QED BY <1>6, <1>7, <1>8 DEF Truth

LEMMA GiveUpTruth == ASSUME Shape, Truth, NEW r \in Requests, GiveUp(r) PROVE Truth'
<1>1. /\ UNCHANGED <<mailbox, current, stage, at, pane, wire, late, said>>
      /\ \A q \in Requests : told'[q] = "unsent" <=> told[q] = "unsent"
  BY DEF GiveUp, Shape, Control
<1>2. /\ \A i \in 1 .. Len(mailbox) : mailbox[i] \in Requests
      /\ current = NoRequest \/ current \in Requests
  BY DEF Shape, Control, Data
<1>3. Placed' BY <1>1, <1>2 DEF Truth, Placed
<1>4. OnlyTheirs' BY <1>1 DEF Truth, OnlyTheirs
<1>5. ASSUME NEW q \in Requests PROVE Progress(q)' BY <1>1 DEF Truth, Progress
<1> QED BY <1>3, <1>4, <1>5 DEF Truth

LEMMA ReceiveTruth == ASSUME Shape, Truth, Receive PROVE Truth'
<1> DEFINE r == Head(mailbox)
<1>1. mailbox \in Seq(Requests) /\ mailbox # << >> /\ mailbox' = Tail(mailbox)
  BY DEF Receive, Shape, Data
<1>2. /\ r \in Requests /\ r = mailbox[1] /\ Len(mailbox) \in Nat \ {0}
      /\ Len(mailbox') = Len(mailbox) - 1
      /\ \A i \in 1 .. Len(mailbox') : mailbox'[i] = mailbox[i + 1] /\ i + 1 \in 1 .. Len(mailbox)
      /\ \A i \in 1 .. Len(mailbox) : mailbox[i] \in Requests
  BY <1>1, HeadTailProperties
<1>p. /\ \A i, j \in 1 .. Len(mailbox) : mailbox[i] = mailbox[j] => i = j
      /\ \A i \in 1 .. Len(mailbox) :
            mailbox[i] # current /\ said[mailbox[i]] = "none" /\ told[mailbox[i]] # "unsent"
  BY DEF Truth, Placed
<1>3. /\ \A i \in 1 .. Len(mailbox') : mailbox'[i] # r
      /\ said[r] = "none" /\ told[r] # "unsent" /\ r # current
  <2> HIDE DEF r
  <2>1. 1 \in 1 .. Len(mailbox) BY <1>2
  <2>2. said[r] = "none" /\ told[r] # "unsent" /\ r # current BY ONLY <1>2, <1>p, <2>1
  <2>3. ASSUME NEW i \in 1 .. Len(mailbox') PROVE mailbox'[i] # r
    <3>1. i + 1 \in 1 .. Len(mailbox) /\ i + 1 # 1 BY <1>2
    <3>2. mailbox[i + 1] # mailbox[1] BY ONLY <1>p, <2>1, <3>1
    <3> QED BY ONLY <1>2, <3>2, i \in 1 .. Len(mailbox')
  <2> QED BY <2>2, <2>3
<1>4. /\ \A i, j \in 1 .. Len(mailbox') : mailbox'[i] = mailbox'[j] => i = j
      /\ \A i \in 1 .. Len(mailbox') : /\ mailbox'[i] # current /\ mailbox'[i] \in Requests
                                       /\ said[mailbox'[i]] = "none" /\ told[mailbox'[i]] # "unsent"
  <2> HIDE DEF r
  <2>1. ASSUME NEW i \in 1 .. Len(mailbox'), NEW j \in 1 .. Len(mailbox'),
               mailbox'[i] = mailbox'[j]
        PROVE  i = j
    <3>1. /\ i + 1 \in 1 .. Len(mailbox) /\ j + 1 \in 1 .. Len(mailbox)
          /\ mailbox[i + 1] = mailbox[j + 1]
      BY ONLY <1>2, <2>1
    <3>2. i + 1 = j + 1 BY ONLY <1>p, <3>1
    <3> QED BY <3>2
  <2>2. ASSUME NEW i \in 1 .. Len(mailbox')
        PROVE  /\ mailbox'[i] # current /\ mailbox'[i] \in Requests
               /\ said[mailbox'[i]] = "none" /\ told[mailbox'[i]] # "unsent"
    <3>1. i + 1 \in 1 .. Len(mailbox) /\ mailbox'[i] = mailbox[i + 1] BY ONLY <1>2, <2>2
    <3> QED BY ONLY <1>2, <1>p, <3>1
  <2> QED BY <2>1, <2>2
<1>5. UNCHANGED <<pane, wire, late>> /\ stage = "idle" /\ current = NoRequest
  BY DEF Receive, Shape, Control
<1>6. wire \in Seq(AllKeys) /\ late \subseteq AllKeys /\ r # NoRequest
  BY <1>2, InputAssumption DEF Shape, Data
<1>7. pane[r] = << >> BY <1>2, <1>3 DEF Truth, Progress
<1>8. /\ \A i \in 1 .. Len(wire) : said[wire[i][1]] \in {"pty", "failed"}
      /\ \A x \in late : said[x[1]] \in {"partial", "pty", "failed"}
      /\ \A i \in 1 .. Len(wire) : wire[i][1] \in Requests /\ wire[i][1] # r
      /\ \A x \in late : x[1] \in Requests /\ x[1] # r
  <2>1. \A i \in 1 .. Len(wire) : wire[i] \in AllKeys BY <1>6, ElementOfSeq
  <2>2. \A x \in AllKeys : x[1] \in Requests /\ x[1] # NoRequest BY KeyParts, InputAssumption
  <2>3. \A i \in 1 .. Len(wire) : said[wire[i][1]] \in {"pty", "failed"}
    BY DEF Truth, OnlyTheirs
  <2>4. \A x \in late : said[x[1]] \in {"partial", "pty", "failed"}
    BY <1>5, <1>6, <2>2 DEF Truth, OnlyTheirs
  <2> HIDE DEF r
  <2>5. \A i \in 1 .. Len(wire) : wire[i][1] \in Requests /\ wire[i][1] # r
    BY <1>3, <2>1, <2>2, <2>3
  <2>6. \A x \in late : x[1] \in Requests /\ x[1] # r
    BY <1>3, <1>6, <2>2, <2>4
  <2> QED BY <2>3, <2>4, <2>5, <2>6
<1>9. CASE closed
  <2>1. Answered(r, "failed") /\ UNCHANGED <<current, stage, at>> BY <1>9 DEF Receive
  <2>2. /\ said'[r] = "failed" /\ told'[r] # "unsent"
        /\ \A q \in Requests \ {r} : said'[q] = said[q] /\ told'[q] = told[q]
    BY <1>2, <1>3, <2>1, AnsweredTyped DEF Shape, Results
  <2>3. Placed' BY <1>3, <1>4, <1>5, <2>1, <2>2 DEF Truth, Placed
  <2>4. OnlyTheirs' BY <1>5, <1>8, <2>2 DEF OnlyTheirs
  <2>5. ASSUME NEW q \in Requests PROVE Progress(q)'
    <3>1. CASE q = r BY <1>5, <1>6, <2>1, <2>2, <3>1 DEF Progress
    <3>2. CASE q # r BY <1>5, <2>1, <2>2, <3>2 DEF Truth, Progress
    <3> QED BY <3>1, <3>2
  <2> QED BY <2>3, <2>4, <2>5 DEF Truth
<1>10. CASE ~ closed
  <2>1. current' = r /\ at' = 1 /\ UNCHANGED <<said, told>>
    BY <1>10 DEF Receive
  <2> HIDE DEF r
  <2>2. Placed' BY <1>3, <1>4, <2>1 DEF Truth, Placed
  <2>3. OnlyTheirs' BY <1>5, <1>8, <2>1 DEF OnlyTheirs
  <2>4. ASSUME NEW q \in Requests PROVE Progress(q)'
    <3>1. CASE q = r
      <4>1. Typed(r, 1) = 0 /\ Text(0) = << >> BY DEF Typed, Text
      <4> QED BY <1>3, <1>5, <1>7, <2>1, <3>1, <4>1 DEF Progress
    <3>2. CASE q # r
      <4>1. q # current BY <1>5, InputAssumption
      <4> QED BY <1>5, <2>1, <3>2, <4>1 DEF Truth, Progress
    <3> QED BY <3>1, <3>2
  <2> QED BY <2>2, <2>3, <2>4 DEF Truth
<1> QED BY <1>9, <1>10

\* A step that works on the current request leaves the others where they are.
LEMMA OthersKeep ==
    ASSUME Shape, Truth, NEW q \in Requests, q # current, current' \in {current, NoRequest},
           said'[q] = said[q], pane'[q] = pane[q],
           \A x \in late' : x[1] = q => x \in late,
           \A i \in 1 .. Len(wire) : \E j \in 1 .. Len(wire') : wire'[j] = wire[i]
    PROVE  Progress(q)'
<1>1. Progress(q) BY DEF Truth
<1>2. q # current' BY InputAssumption
<1>3. (said[q] = "none" /\ q # current => pane[q] = << >>)' BY <1>1 DEF Progress
<1>4. (said[q] = "sent" => pane[q] = Text(Size(q)))' BY <1>1 DEF Progress
<1>5. (said[q] = "partial" =>
           \E n \in 1 .. Size(q) : /\ pane[q] = Text(n)
                                   /\ \A x \in late : x[1] = q => x[2] = n + 1)'
  BY <1>1 DEF Progress
<1>6. (said[q] = "pty" =>
           \A k \in 1 .. Size(q) : \/ \E i \in 1 .. Len(pane[q]) : pane[q][i] = k
                                   \/ \E i \in 1 .. Len(wire) : wire[i] = <<q, k>>)'
  <2> SUFFICES ASSUME said[q] = "pty", NEW k \in 1 .. Size(q)
               PROVE  \/ \E i \in 1 .. Len(pane[q]) : pane[q][i] = k
                      \/ \E i \in 1 .. Len(wire') : wire'[i] = <<q, k>>
    OBVIOUS
  <2>1. \/ \E i \in 1 .. Len(pane[q]) : pane[q][i] = k
        \/ \E i \in 1 .. Len(wire) : wire[i] = <<q, k>>
    BY <1>1 DEF Progress
  <2> QED BY <2>1
<1> QED BY <1>2, <1>3, <1>4, <1>5, <1>6 DEF Progress

\* The current request is in no other place and its result changes nothing else.
LEMMA FinishPlaced ==
    ASSUME Shape, Truth, stage # "idle", NEW result \in Results, Finish(result), mailbox' = mailbox
    PROVE  /\ Placed' /\ current \in Requests /\ said[current] = "none"
           /\ current' = NoRequest /\ stage' = "idle" /\ said'[current] = result
           /\ \A q \in Requests \ {current} : said'[q] = said[q]
<1>1. current \in Requests /\ current # NoRequest BY InputAssumption DEF Shape, Control
<1>2. /\ current' = NoRequest /\ stage' = "idle" /\ said'[current] = result
      /\ told'[current] = IF told[current] = "waiting" THEN result ELSE told[current]
      /\ \A q \in Requests \ {current} : said'[q] = said[q] /\ told'[q] = told[q]
  BY <1>1, AnsweredTyped DEF Finish, Shape
<1>3. said[current] = "none" /\ told[current] # "unsent" BY <1>1 DEF Truth, Placed
<1>4. told'[current] # "unsent" BY <1>2, <1>3 DEF Results
<1>5. \A i \in 1 .. Len(mailbox) : mailbox[i] \in Requests BY ElementOfSeq DEF Shape, Data
<1>6. \A i \in 1 .. Len(mailbox) :
          /\ mailbox[i] # NoRequest
          /\ said'[mailbox[i]] = "none" /\ told'[mailbox[i]] # "unsent"
  BY <1>2, <1>5, InputAssumption DEF Truth, Placed
<1>7. \A q \in Requests : told'[q] = "unsent" => said'[q] = "none"
  BY <1>2, <1>4 DEF Truth, Placed
<1>8. Placed' BY <1>2, <1>6, <1>7 DEF Truth, Placed
<1> QED BY <1>1, <1>2, <1>3, <1>8

\* Nothing of a request that is typed with tmux is on its way by itself.
LEMMA CurrentIsClean ==
    ASSUME Shape, Truth, stage = "tmux"
    PROVE  /\ \A i \in 1 .. Len(wire) : wire[i][1] \in Requests /\ wire[i][1] # current
           /\ \A x \in late : x[1] \in Requests /\ x[1] # current
           /\ pane[current] = Text(Typed(current, at))
<1>1. current \in Requests /\ current # NoRequest BY InputAssumption DEF Shape, Control
<1>2. said[current] = "none" BY <1>1 DEF Truth, Placed
<1>3. \A i \in 1 .. Len(wire) : wire[i] \in AllKeys BY ElementOfSeq DEF Shape, Data
<1>4. late \subseteq AllKeys BY DEF Shape, Data
<1>5. \A i \in 1 .. Len(wire) : wire[i][1] \in Requests /\ wire[i][1] # current
  BY <1>2, <1>3, KeyParts DEF Truth, OnlyTheirs
<1>6. \A x \in late : x[1] \in Requests /\ x[1] # current
  BY <1>2, <1>4, KeyParts DEF Truth, OnlyTheirs
<1> QED BY <1>1, <1>5, <1>6 DEF Truth, Progress

LEMMA SucceedsTruth == ASSUME Shape, Truth, stage = "tmux", CommandSucceeds PROVE Truth'
<1>0. /\ current \in Requests /\ at \in 1 .. Len(Script(current)) /\ current # NoRequest
      /\ Typed(current, at) \in Nat
  BY InputAssumption DEF Shape, Control, Typed
<1>r. PICK r \in Requests : r = current BY <1>0
<1>n. PICK n \in Nat : n = Typed(r, at) BY <1>0, <1>r
<1>1. at \in 1 .. Len(Script(r)) /\ r # NoRequest BY <1>0, <1>r
<1>2. UNCHANGED <<mailbox, wire, late>> /\ Advance /\ (Key = 0 => pane' = pane) /\ (Key # 0 => Type(r, Key))
  BY <1>r DEF CommandSucceeds
<1>3. /\ \A i \in 1 .. Len(wire) : wire[i][1] \in Requests /\ wire[i][1] # r
      /\ \A x \in late : x[1] \in Requests /\ x[1] # r
      /\ pane[r] = Text(n)
  BY <1>r, <1>n, CurrentIsClean
<1>4. /\ Key = 0 => Typed(r, at + 1) = n /\ at # Len(Script(r))
      /\ Key # 0 => /\ Key = n + 1 /\ Key \in 1 .. Size(r) /\ Typed(r, at + 1) = n + 1
                    /\ at = Len(Script(r)) => n + 1 = Size(r)
  BY <1>r, <1>n, <1>1, Scripts DEF Key
<1>5. /\ \A q \in Requests \ {r} : pane'[q] = pane[q]
      /\ pane'[r] = IF Key = 0 THEN Text(n) ELSE Text(n + 1)
  <2>1. CASE Key = 0 BY <1>2, <1>3, <1>r, <2>1
  <2>2. CASE Key # 0
    <3>1. pane'[r] = Append(Text(n), n + 1) /\ \A q \in Requests \ {r} : pane'[q] = pane[q]
      BY <1>r, <1>2, <1>3, <1>4, <2>2, TypeTyped DEF Shape
    <3> QED BY <1>1, <2>2, <3>1, TextGrows
  <2> QED BY <2>1, <2>2
<1>6. CASE at = Len(Script(r))
  <2>1. Finish("sent") /\ Key # 0 BY <1>r, <1>2, <1>4, <1>6 DEF Advance
  <2>2. /\ Placed' /\ current' = NoRequest /\ stage' = "idle" /\ said'[r] = "sent"
        /\ \A q \in Requests \ {r} : said'[q] = said[q]
    BY <1>2, <2>1, <1>r, FinishPlaced DEF Results
  <2>3. OnlyTheirs' BY <1>2, <1>3, <2>2 DEF Truth, OnlyTheirs
  <2>3a. pane'[r] = Text(Size(r)) BY <1>4, <1>5, <1>6, <2>1
  <2>4. Progress(r)' BY <1>1, <2>2, <2>3a DEF Progress
  <2>5. ASSUME NEW q \in Requests, q # r PROVE Progress(q)'
    BY <1>2, <1>5, <2>2, <2>5, <1>r, OthersKeep
  <2> QED BY <2>2, <2>3, <2>4, <2>5 DEF Truth
<1>7. CASE at # Len(Script(r))
  <2>1. at' = at + 1 /\ UNCHANGED <<stage, current, said, told>> BY <1>r, <1>2, <1>7 DEF Advance
  <2>2. Placed' BY <1>2, <2>1 DEF Truth, Placed
  <2>3. OnlyTheirs' BY <1>2, <2>1 DEF Truth, OnlyTheirs
  <2>4. said[r] = "none" BY <1>r, <1>1 DEF Truth, Placed
  <2>5. pane'[r] = Text(Typed(r, at + 1)) BY <1>4, <1>5
  <2>6. Progress(r)' BY <1>r, <2>1, <2>4, <2>5 DEF Progress
  <2>7. ASSUME NEW q \in Requests, q # r PROVE Progress(q)'
    BY <1>2, <1>5, <2>1, <2>7, <1>r, OthersKeep
  <2> QED BY <2>2, <2>3, <2>6, <2>7 DEF Truth
<1> QED BY <1>6, <1>7

LEMMA MissedTruth ==
    ASSUME Shape, Truth, stage = "tmux", Missed, UNCHANGED <<mailbox, wire, pane>>,
           late' = late \/ (Key # 0 /\ late' = late \cup {<<current, Key>>})
    PROVE  Truth'
<1>0. /\ current \in Requests /\ at \in 1 .. Len(Script(current)) /\ current # NoRequest
      /\ Typed(current, at) \in Nat
  BY InputAssumption DEF Shape, Control, Typed
<1>r. PICK r \in Requests : r = current BY <1>0
<1>n. PICK n \in Nat : n = Typed(r, at) BY <1>0, <1>r
<1>1. at \in 1 .. Len(Script(r)) /\ r # NoRequest BY <1>0, <1>r
<1>2. /\ \A i \in 1 .. Len(wire) : wire[i][1] \in Requests /\ wire[i][1] # r
      /\ \A x \in late : x[1] \in Requests /\ x[1] # r
      /\ pane[r] = Text(n)
  BY <1>r, <1>n, CurrentIsClean
<1>3. /\ Key = 0 => Typed(r, at + 1) = n /\ at # Len(Script(r))
      /\ Key # 0 => Key = n + 1 /\ Key \in 1 .. Size(r)
  BY <1>r, <1>n, <1>1, Scripts DEF Key
<1>4. said[r] = "none" BY <1>r, <1>1 DEF Truth, Placed
<1>5. /\ \A x \in late' : x \in late \/ (x[1] = r /\ x[2] = n + 1)
      /\ \A x \in late' : x[1] # r => x \in late
  BY <1>r, <1>3
<1>6. CASE at = 1
  <2>1. Key = 0 /\ at # Len(Script(r)) BY <1>r, <1>1, <1>6, Scripts DEF Key
  <2>2. at' = at + 1 /\ UNCHANGED <<stage, current, said, told>> /\ late' = late
    BY <1>r, <1>3, <1>6, <2>1 DEF Missed, Advance
  <2>3. Placed' BY <1>r, <2>2 DEF Truth, Placed
  <2>4. OnlyTheirs' BY <2>2 DEF Truth, OnlyTheirs
  <2>5. pane'[r] = Text(Typed(r, at + 1)) BY <1>2, <1>3, <2>1
  <2>6. Progress(r)' BY <1>r, <1>4, <2>2, <2>5 DEF Progress
  <2>7. ASSUME NEW q \in Requests, q # r PROVE Progress(q)'
    BY <2>2, <2>7, <1>r, OthersKeep
  <2> QED BY <2>3, <2>4, <2>6, <2>7 DEF Truth
<1>7. CASE at # 1 /\ ConfirmedChunks > 0
  <2>1. Finish("partial") /\ r \in Writes /\ at > 2 /\ n = at - 2
    BY <1>r, <1>n, <1>1, <1>7 DEF Missed, ConfirmedChunks, Typed
  <2>2. Key # 0
    <3>1. Typed(r, at + 1) = at - 1 BY <1>1, <2>1 DEF Typed
    <3> QED BY <1>1, <1>3, <2>1, <3>1
  <2>3. n \in 1 .. Size(r) BY <1>1, <1>3, <2>1, <2>2, Sizes
  <2>4. /\ Placed' /\ current' = NoRequest /\ stage' = "idle" /\ said'[r] = "partial"
        /\ \A q \in Requests \ {r} : said'[q] = said[q]
    BY <2>1, <1>r, FinishPlaced DEF Results
  <2>5. OnlyTheirs'
    <3>1. \A x \in late : said'[x[1]] \in {"partial", "pty", "failed"}
      BY <1>2, <2>4 DEF Truth, OnlyTheirs
    <3> QED BY <1>2, <1>5, <2>4, <3>1 DEF Truth, OnlyTheirs
  <2>6. \A x \in late' : x[1] = r => x[2] = n + 1 BY <1>2, <1>5
  <2>7. Progress(r)' BY <1>1, <1>2, <2>3, <2>4, <2>6 DEF Progress
  <2>8. ASSUME NEW q \in Requests, q # r PROVE Progress(q)'
    BY <1>5, <2>4, <2>8, <1>r, OthersKeep
  <2> QED BY <2>4, <2>5, <2>7, <2>8 DEF Truth
<1>8. CASE at # 1 /\ ~ (ConfirmedChunks > 0)
  <2>1. stage' = "pty" /\ UNCHANGED <<current, at, said, told>> BY <1>8 DEF Missed
  <2>2. Placed' BY <1>r, <2>1 DEF Truth, Placed
  <2>3. OnlyTheirs' BY <1>r, <1>2, <1>5, <2>1 DEF Truth, OnlyTheirs
  <2>4. Progress(r)' BY <1>r, <1>4, <2>1 DEF Progress
  <2>5. ASSUME NEW q \in Requests, q # r PROVE Progress(q)'
    BY <1>5, <2>1, <2>5, <1>r, OthersKeep
  <2> QED BY <2>2, <2>3, <2>4, <2>5 DEF Truth
<1> QED BY <1>6, <1>7, <1>8

LEMMA CommandTruth == ASSUME Shape, Truth, CommandEnds PROVE Truth'
<1>1. stage = "tmux"
  BY DEF CommandEnds, CommandSucceeds, CommandFails, CommandTimesOut, CommandNotSpawned,
         Answer, TimeOut, SpawnFails, Ended, Shape, Data
<1>2. CASE CommandSucceeds BY <1>1, <1>2, SucceedsTruth
<1>3. CASE CommandFails \/ CommandNotSpawned
  BY <1>1, <1>3, MissedTruth DEF CommandFails, CommandNotSpawned
<1>4. CASE CommandTimesOut
  <2>1. /\ late' = late \/ (Key # 0 /\ late' = late \cup {<<current, Key>>})
        /\ Missed /\ UNCHANGED <<mailbox, wire, pane>>
    BY <1>4 DEF CommandTimesOut
  <2> QED BY <1>1, <2>1, MissedTruth
<1> QED BY <1>2, <1>3, <1>4 DEF CommandEnds

LEMMA SameTruth ==
    ASSUME Shape, Truth, UNCHANGED <<mailbox, current, stage, at, pane, wire, late, said, told>>
    PROVE  Truth'
<1>1. Placed' BY DEF Truth, Placed
<1>2. OnlyTheirs' BY DEF Truth, OnlyTheirs
<1>3. ASSUME NEW q \in Requests PROVE Progress(q)' BY DEF Truth, Progress
<1> QED BY <1>1, <1>2, <1>3 DEF Truth

\* The request goes to the PTY, all of it or a beginning.
LEMMA PtyWires ==
    ASSUME Shape, NEW r \in Requests, r = current, WritePty \/ WritePtyFails
    PROVE  \E n \in 0 .. Size(r), result \in {"pty", "failed"} :
              /\ Finish(result) /\ (result = "pty" => n = Size(r))
              /\ Len(wire) \in Nat /\ Len(wire') = Len(wire) + n
              /\ \A i \in 1 .. Len(wire) : wire'[i] = wire[i]
              /\ \A i \in 1 .. n : wire'[Len(wire) + i] = <<r, i>>
<1>r. r = current OBVIOUS
<1>1. /\ Keys(r) \in Seq(AllKeys) /\ Len(Keys(r)) = Size(r) /\ Size(r) \in Nat
      /\ \A k \in 1 .. Size(r) : Keys(r)[k] = <<r, k>>
      /\ wire \in Seq(AllKeys)
  BY KeysAreTyped, Sizes DEF Shape, Data
<1>2. PICK n \in 0 .. Size(r) :
          /\ wire' = wire \o SubSeq(Keys(r), 1, n)
          /\ \/ Finish("pty") /\ n = Size(r)
             \/ Finish("failed")
  <2>1. CASE WritePty
    <3>1. SubSeq(Keys(r), 1, Size(r)) = Keys(r) BY <1>1, SubSeqProperties, SeqEqual
    <3>2. wire' = wire \o Keys(r) /\ Finish("pty") BY <1>r, <2>1 DEF WritePty, Written
    <3>3. wire' = wire \o SubSeq(Keys(r), 1, Size(r)) BY <3>1, <3>2
    <3>4. Size(r) \in 0 .. Size(r) BY <1>1
    <3> QED BY <3>2, <3>3, <3>4
  <2>2. CASE WritePtyFails
    <3>1. PICK n \in 0 .. (Size(r) - 1) : wire' = wire \o SubSeq(Keys(r), 1, n)
      BY <1>r, <2>2 DEF WritePtyFails
    <3>2. Finish("failed") /\ n \in 0 .. Size(r) BY <1>1, <2>2 DEF WritePtyFails
    <3> QED BY <3>1, <3>2
  <2> QED BY <2>1, <2>2
<1>3. PICK result \in {"pty", "failed"} : Finish(result) /\ (result = "pty" => n = Size(r))
  BY <1>2
<1>4. /\ SubSeq(Keys(r), 1, n) \in Seq(AllKeys) /\ Len(SubSeq(Keys(r), 1, n)) = n
      /\ \A i \in 1 .. n : SubSeq(Keys(r), 1, n)[i] = <<r, i>>
  BY <1>1, SubSeqProperties
<1>5. /\ Len(wire) \in Nat /\ Len(wire') = Len(wire) + n
      /\ \A i \in 1 .. Len(wire) : wire'[i] = wire[i]
      /\ \A i \in 1 .. n : wire'[Len(wire) + i] = <<r, i>>
  <2> DEFINE tail == SubSeq(Keys(r), 1, n)
  <2>1. wire' = wire \o tail /\ tail \in Seq(AllKeys) /\ Len(tail) = n BY <1>2, <1>4
  <2>2. \A i \in 1 .. n : tail[i] = <<r, i>> BY <1>4
  <2> HIDE DEF tail
  <2>3. Len(wire) \in Nat BY <1>1
  <2>4. /\ Len(wire') = Len(wire) + n
        /\ \A i \in 1 .. Len(wire) + n : wire'[i] = IF i <= Len(wire) THEN wire[i] ELSE tail[i - Len(wire)]
    BY <1>1, <2>1, ConcatProperties
  <2>5. \A i \in 1 .. Len(wire) : wire'[i] = wire[i] BY <2>3, <2>4
  <2>6. ASSUME NEW i \in 1 .. n PROVE wire'[Len(wire) + i] = <<r, i>>
    <3>1. Len(wire) + i \in 1 .. Len(wire) + n /\ ~ (Len(wire) + i <= Len(wire))
          /\ Len(wire) + i - Len(wire) = i
      BY <2>3
    <3> QED BY <2>2, <2>4, <3>1
  <2> QED BY <2>3, <2>4, <2>5, <2>6
<1> QED BY <1>3, <1>5

LEMMA PtyTruth == ASSUME Shape, Truth, WritePty \/ WritePtyFails PROVE Truth'
<1>0. stage = "pty" /\ current \in Requests
  BY InputAssumption DEF WritePty, WritePtyFails, Shape, Control
<1>r. PICK r \in Requests : r = current BY <1>0
<1>1. wire \in Seq(AllKeys) BY DEF Shape, Data
<1>3. PICK n \in 0 .. Size(r), result \in {"pty", "failed"} :
         /\ Finish(result) /\ (result = "pty" => n = Size(r))
         /\ Len(wire) \in Nat /\ Len(wire') = Len(wire) + n
         /\ \A i \in 1 .. Len(wire) : wire'[i] = wire[i]
         /\ \A i \in 1 .. n : wire'[Len(wire) + i] = <<r, i>>
  BY <1>r, PtyWires
<1>7. /\ Len(wire) \in Nat /\ Len(wire') = Len(wire) + n
      /\ \A i \in 1 .. Len(wire) : wire'[i] = wire[i]
      /\ \A i \in 1 .. n : wire'[Len(wire) + i] = <<r, i>>
  BY <1>3
<1>4. /\ Placed' /\ current' = NoRequest /\ said'[r] = result
      /\ \A q \in Requests \ {r} : said'[q] = said[q]
  <2>1. mailbox' = mailbox /\ stage # "idle" BY <1>0 DEF WritePty, WritePtyFails
  <2>2. result \in Results BY DEF Results
  <2> QED BY <1>r, <1>3, <2>1, <2>2, FinishPlaced
<1>5. UNCHANGED <<pane, late>> BY DEF WritePty, WritePtyFails
<1>8. OnlyTheirs'
  <2>1. ASSUME NEW i \in 1 .. Len(wire') PROVE said'[wire'[i][1]] \in {"pty", "failed"}
    <3>1. CASE i \in 1 .. Len(wire)
      <4>1. wire[i] \in AllKeys /\ wire[i][1] \in Requests BY <1>1, <3>1, ElementOfSeq, KeyParts
      <4>2. said[wire[i][1]] \in {"pty", "failed"} BY <3>1 DEF Truth, OnlyTheirs
      <4> QED BY <1>4, <1>7, <3>1, <4>1, <4>2
    <3>2. CASE i \notin 1 .. Len(wire)
      <4>1. i - Len(wire) \in 1 .. n /\ Len(wire) + (i - Len(wire)) = i BY <1>7, <3>2
      <4>2. wire'[i] = <<r, i - Len(wire)>> BY <1>7, <4>1
      <4> QED BY <1>4, <4>2
    <3> QED BY <3>1, <3>2
  <2>2. ASSUME NEW x \in late PROVE said'[x[1]] \in {"partial", "pty", "failed"}
    <3>1. x[1] \in Requests BY KeyParts DEF Shape, Data
    <3>2. x[1] = r \/ said[x[1]] \in {"partial", "pty", "failed"} BY <1>r DEF Truth, OnlyTheirs
    <3> QED BY <1>4, <3>1, <3>2
  <2> QED BY <1>5, <2>1, <2>2 DEF OnlyTheirs
<1>9. Progress(r)'
  <2>1. ASSUME result = "pty", NEW k \in 1 .. Size(r)
        PROVE  \E i \in 1 .. Len(wire') : wire'[i] = <<r, k>>
    <3>1. k \in 1 .. n BY <1>3, <2>1
    <3>2. Len(wire) + k \in 1 .. Len(wire') BY <1>7, <3>1
    <3> QED BY <1>7, <3>1, <3>2
  <2>2. r # current' /\ said'[r] \in {"pty", "failed"} BY <1>4, InputAssumption
  <2> QED BY <1>4, <2>1, <2>2 DEF Progress
<1>10. ASSUME NEW q \in Requests, q # r PROVE Progress(q)'
  <2>1. \A i \in 1 .. Len(wire) : \E j \in 1 .. Len(wire') : wire'[j] = wire[i]
    <3> TAKE i \in 1 .. Len(wire)
    <3>1. i \in 1 .. Len(wire') BY <1>7
    <3> QED BY <1>7, <3>1
  <2>2. q # current /\ said'[q] = said[q] /\ pane'[q] = pane[q] /\ late' = late
    BY <1>r, <1>4, <1>5, <1>10
  <2> QED BY <1>4, <2>1, <2>2, OthersKeep
<1> QED BY <1>4, <1>8, <1>9, <1>10 DEF Truth

\* A key moves from the PTY to the session.
LEMMA RelayTruth == ASSUME Shape, Truth, Relay PROVE Truth'
<1>1. /\ wire \in Seq(AllKeys) /\ wire # << >> /\ wire' = Tail(wire)
      /\ UNCHANGED <<mailbox, current, stage, at, late, said, told>>
  BY DEF Relay, Shape, Data
<1>2. /\ Head(wire) \in AllKeys /\ Head(wire) = wire[1] /\ Len(wire) \in Nat \ {0}
      /\ Len(wire') = Len(wire) - 1
      /\ \A i \in 1 .. Len(wire') : wire'[i] = wire[i + 1]
  BY <1>1, HeadTailProperties
<1>a. PICK r \in Requests : \E k \in 1 .. Size(r) : Head(wire) = <<r, k>> BY <1>2 DEF AllKeys
<1>3. PICK key \in 1 .. Size(r) : Head(wire) = <<r, key>> BY <1>a
<1>4. Type(r, key) BY <1>3 DEF Relay
<1>5. /\ pane'[r] = Append(pane[r], key) /\ pane[r] \in Seq(1 .. Size(r))
      /\ \A q \in Requests \ {r} : pane'[q] = pane[q]
  BY <1>4, TypeTyped DEF Shape, Data
<1>6. said[r] \in {"pty", "failed"} BY <1>2, <1>3 DEF Truth, OnlyTheirs
<1>7. \A i \in 2 .. Len(wire) : i - 1 \in 1 .. Len(wire') /\ wire'[i - 1] = wire[i]
  <2> TAKE i \in 2 .. Len(wire)
  <2>1. i - 1 \in 1 .. Len(wire') /\ (i - 1) + 1 = i BY <1>2
  <2> QED BY <1>2, <2>1
<1>8. Placed' BY <1>1 DEF Truth, Placed
<1>9. OnlyTheirs'
  <2>1. ASSUME NEW i \in 1 .. Len(wire') PROVE said[wire'[i][1]] \in {"pty", "failed"}
    <3>1. i + 1 \in 1 .. Len(wire) /\ wire'[i] = wire[i + 1] BY <1>2
    <3> QED BY <3>1 DEF Truth, OnlyTheirs
  <2> QED BY <1>1, <2>1 DEF Truth, OnlyTheirs
<1>10. ASSUME NEW q \in Requests, NEW k \in 1 .. Size(q), said[q] = "pty"
       PROVE  \/ \E i \in 1 .. Len(pane'[q]) : pane'[q][i] = k
              \/ \E i \in 1 .. Len(wire') : wire'[i] = <<q, k>>
  <2>1. \/ \E i \in 1 .. Len(pane[q]) : pane[q][i] = k
        \/ \E i \in 1 .. Len(wire) : wire[i] = <<q, k>>
    BY <1>10 DEF Truth, Progress
  <2>2. /\ Len(pane'[r]) = Len(pane[r]) + 1 /\ Len(pane[r]) \in Nat
        /\ \A i \in 1 .. Len(pane[r]) : pane'[r][i] = pane[r][i]
        /\ pane'[r][Len(pane[r]) + 1] = key
    BY <1>5, AppendProperties
  <2>3. ASSUME NEW i \in 1 .. Len(pane[q]), pane[q][i] = k
        PROVE  \E j \in 1 .. Len(pane'[q]) : pane'[q][j] = k
    <3>1. CASE q = r
      <4>1. i \in 1 .. Len(pane'[r]) BY <2>2, <3>1
      <4> QED BY <2>2, <2>3, <3>1, <4>1
    <3>2. CASE q # r BY <1>5, <2>3, <3>2
    <3> QED BY <3>1, <3>2
  <2>4. ASSUME NEW i \in 1 .. Len(wire), wire[i] = <<q, k>>
        PROVE  \/ \E j \in 1 .. Len(pane'[q]) : pane'[q][j] = k
               \/ \E j \in 1 .. Len(wire') : wire'[j] = <<q, k>>
    <3>1. CASE i = 1
      <4>1. q = r /\ k = key BY <1>2, <1>3, <2>4, <3>1
      <4>2. Len(pane[r]) + 1 \in 1 .. Len(pane'[r]) BY <2>2
      <4> QED BY <2>2, <4>1, <4>2
    <3>2. CASE i # 1
      <4>1. i \in 2 .. Len(wire) BY <1>2, <3>2
      <4> QED BY <1>7, <2>4, <4>1
    <3> QED BY <3>1, <3>2
  <2> QED BY <2>1, <2>3, <2>4
<1>11. ~ (r = current /\ stage = "tmux")
  BY <1>2, <1>3, CurrentIsClean
<1>12. ASSUME NEW q \in Requests PROVE Progress(q)'
  <2>1. CASE q = r BY <1>1, <1>6, <1>10, <1>11, <2>1 DEF Progress
  <2>2. CASE q # r
    <3>1. pane'[q] = pane[q] BY <1>5, <2>2
    <3>2. Progress(q) BY DEF Truth
    <3>3. (said[q] = "pty" =>
              \A k \in 1 .. Size(q) : \/ \E i \in 1 .. Len(pane[q]) : pane[q][i] = k
                                      \/ \E i \in 1 .. Len(wire) : wire[i] = <<q, k>>)'
      BY <1>1, <1>10
    <3> QED BY <1>1, <3>1, <3>2, <3>3 DEF Progress
  <2> QED BY <2>1, <2>2
<1> QED BY <1>8, <1>9, <1>12 DEF Truth

\* A key of a command that timed out is typed after all.
LEMMA LateTruth == ASSUME Shape, Truth, NEW x \in AllKeys, TypeLate(x) PROVE Truth'
<1>1. /\ x \in late /\ late' = late \ {x}
      /\ UNCHANGED <<mailbox, current, stage, at, wire, said, told>>
  BY DEF TypeLate
<1>a. PICK r \in Requests : \E k \in 1 .. Size(r) : x = <<r, k>> BY DEF AllKeys
<1>2. PICK key \in 1 .. Size(r) : x = <<r, key>> BY <1>a
<1>3. Type(r, key) BY <1>2 DEF TypeLate
<1>4. /\ pane'[r] = Append(pane[r], key) /\ pane[r] \in Seq(1 .. Size(r))
      /\ \A q \in Requests \ {r} : pane'[q] = pane[q]
  BY <1>3, TypeTyped DEF Shape, Data
<1>5. said[r] \in {"partial", "pty", "failed"} \/ (r = current /\ stage = "pty")
  BY <1>1, <1>2 DEF Truth, OnlyTheirs
<1>6. Placed' BY <1>1 DEF Truth, Placed
<1>7. OnlyTheirs' BY <1>1 DEF Truth, OnlyTheirs
<1>8. Progress(r)'
  <2>1. Progress(r) /\ Size(r) \in Nat BY Sizes DEF Truth
  <2>2. (r = current /\ stage = "tmux" => pane[r] = Text(Typed(r, at)))'
    BY <1>1, <1>2, CurrentIsClean
  <2>3. said[r] = "none" => r = current BY <1>5
  <2>4. said[r] # "sent"
    <3>1. r = current => r # NoRequest BY InputAssumption
    <3>2. r = current => said[r] = "none" BY <3>1 DEF Truth, Placed
    <3> QED BY <1>5, <3>2
  <2>5. ASSUME said[r] = "partial"
        PROVE  \E n \in 1 .. Size(r) : /\ pane'[r] = Text(n)
                                       /\ \A y \in late' : y[1] = r => y[2] = n + 1
    <3>1. PICK n \in 1 .. Size(r) : /\ pane[r] = Text(n)
                                    /\ \A y \in late : y[1] = r => y[2] = n + 1
      BY <2>1, <2>5 DEF Progress
    <3>2. key = n + 1 /\ n \in Nat BY <1>1, <1>2, <2>1, <3>1
    <3>3. n + 1 \in 1 .. Size(r) /\ pane'[r] = Text(n + 1)
      BY <1>4, <3>1, <3>2, TextGrows
    <3>4. \A y \in late' : y[1] # r
      <4> SUFFICES ASSUME NEW y \in late', y[1] = r PROVE FALSE OBVIOUS
      <4>1. y \in late /\ y # x BY <1>1
      <4>2. y = <<y[1], y[2]>> BY <4>1, KeyParts DEF Shape, Data
      <4> QED BY <1>2, <3>1, <3>2, <4>1, <4>2
    <3> QED BY <3>3, <3>4
  <2>6. ASSUME said[r] = "pty", NEW k \in 1 .. Size(r)
        PROVE  \/ \E i \in 1 .. Len(pane'[r]) : pane'[r][i] = k
               \/ \E i \in 1 .. Len(wire') : wire'[i] = <<r, k>>
    <3>1. \/ \E i \in 1 .. Len(pane[r]) : pane[r][i] = k
          \/ \E i \in 1 .. Len(wire) : wire[i] = <<r, k>>
      BY <2>1, <2>6 DEF Progress
    <3>2. /\ Len(pane'[r]) = Len(pane[r]) + 1 /\ Len(pane[r]) \in Nat
          /\ \A i \in 1 .. Len(pane[r]) : pane'[r][i] = pane[r][i]
      BY <1>4, AppendProperties
    <3>3. \A i \in 1 .. Len(pane[r]) : i \in 1 .. Len(pane'[r]) BY <3>2
    <3> QED BY <1>1, <3>1, <3>2, <3>3
  <2> QED BY <1>1, <2>2, <2>3, <2>4, <2>5, <2>6 DEF Progress
<1>9. ASSUME NEW q \in Requests, q # r PROVE Progress(q)'
  <2>1. pane'[q] = pane[q] BY <1>4, <1>9
  <2>2. Progress(q) BY DEF Truth
  <2>3. (said[q] = "partial" =>
           \E n \in 1 .. Size(q) : /\ pane[q] = Text(n)
                                   /\ \A y \in late : y[1] = q => y[2] = n + 1)'
    BY <1>1, <2>1, <2>2 DEF Progress
  <2> QED BY <1>1, <2>1, <2>2, <2>3 DEF Progress
<1> QED BY <1>6, <1>7, <1>8, <1>9 DEF Truth

LEMMA NextTruth == ASSUME Shape, Truth, [Next]_vars PROVE Truth'
<1>1. ASSUME NEW r \in Requests, Send(r) \/ GiveUp(r) PROVE Truth'
  BY <1>1, SendTruth, GiveUpTruth
<1>2. CASE Receive BY <1>2, ReceiveTruth
<1>3. CASE CommandEnds BY <1>3, CommandTruth
<1>4. CASE WritePty \/ WritePtyFails BY <1>4, PtyTruth
<1>5. CASE Relay BY <1>5, RelayTruth
<1>6. ASSUME NEW x \in AllKeys, TypeLate(x) PROVE Truth' BY <1>6, LateTruth
<1>7. CASE SessionEnds \/ NoticeExit BY <1>7, SameTruth DEF SessionEnds, NoticeExit
<1>8. CASE Issue \/ (\E p \in Probes : ProbeStarts(p) \/ ProbeEnds(p)) \/ Server
  BY <1>8, OthersStep, SameTruth DEF inputVars
<1>9. CASE UNCHANGED vars BY <1>9, SameTruth DEF vars, inputVars
<1> QED BY <1>1, <1>2, <1>3, <1>4, <1>5, <1>6, <1>7, <1>8, <1>9 DEF Next, ActorStep

(***************************************************************************)
(* The actor's answers are true however commands fail, time out and take   *)
(* effect late: "sent" is said of a request that was typed completely,     *)
(* once and in order, "partial" of a beginning of it that was typed once,  *)
(* and all of a request written to the PTY is at the session or on its way *)
(* (tmux_write_input, tmux_write_input_error_result, the PTY fallback).    *)
(***************************************************************************)
THEOREM AnswersAreTrue == Spec => []AnswerIsTrue
<1>1. Init => Shape /\ Truth BY InitShape, InitTruth
<1>2. Shape /\ Truth /\ [Next]_vars => (Shape /\ Truth)' BY NextShape, NextTruth
<1>3. Shape /\ Truth => AnswerIsTrue BY TruthIsTrue
<1> QED BY <1>1, <1>2, <1>3, PTL DEF Spec

-----------------------------------------------------------------------------
(* No key arrives twice but the first.  Inductive with it: a key that may   *)
(* not repeat is in one place only, in the session, on the wire to it, or   *)
(* late; and a write that falls back to the PTY has typed nothing that is   *)
(* certain, and left nothing late but its first chunk.                      *)

Single(r, k) == k # 1 \/ <<r, 1>> \notin unsure

Once(r) ==
    /\ \A i, j \in 1 .. Len(pane[r]) : pane[r][i] = pane[r][j] /\ Single(r, pane[r][i]) => i = j
    /\ \A i \in 1 .. Len(pane[r]), m \in 1 .. Len(wire) :
           Single(r, pane[r][i]) => wire[m] # <<r, pane[r][i]>>
    /\ \A l, m \in 1 .. Len(wire) :
           wire[l] = wire[m] /\ wire[l][1] = r /\ Single(r, wire[l][2]) => l = m
    /\ \A x \in late : x[1] = r /\ Single(r, x[2]) =>
           /\ \A i \in 1 .. Len(pane[r]) : pane[r][i] # x[2]
           /\ \A m \in 1 .. Len(wire) : wire[m] # x
    /\ r = current /\ stage = "pty" =>
           /\ \A i \in 1 .. Len(pane[r]) : ~ Single(r, pane[r][i])
           /\ \A x \in late : x[1] = r => x[2] = 1

OnceEach == \A r \in Writes : Once(r)

LEMMA WritesAreRequests == ASSUME NEW r \in Writes PROVE r \in Requests /\ r # NoRequest
BY InputAssumption DEF Requests

LEMMA SameSingle == ASSUME UNCHANGED unsure, NEW r, NEW k PROVE Single(r, k)' <=> Single(r, k)
BY DEF Single

\* The keys of a request are where they were.
LEMMA SameOnce ==
    ASSUME NEW r, Once(r), pane'[r] = pane[r], UNCHANGED wire, unsure \subseteq unsure',
           \A x \in late' : x[1] = r => x \in late,
           r = current' /\ stage' = "pty" => r = current /\ stage = "pty"
    PROVE  Once(r)'
BY DEF Once, Single

LEMMA ReceiveOnce == ASSUME Shape, Truth, OnceEach, Receive PROVE OnceEach'
<1> SUFFICES ASSUME NEW r \in Writes PROVE Once(r)' BY DEF OnceEach
<1>1. r \in Requests /\ r # NoRequest /\ Once(r) BY WritesAreRequests DEF OnceEach
<1>2. /\ UNCHANGED <<pane, wire, late, unsure>> /\ stage = "idle" /\ mailbox # << >>
      /\ current' = current \/ current' = Head(mailbox)
      /\ closed => UNCHANGED <<current, stage>>
  BY DEF Receive
<1>3. CASE r # current' \/ stage' # "pty" BY <1>1, <1>2, <1>3, SameOnce
<1>4. CASE r = current' /\ stage' = "pty"
  <2>1. r = Head(mailbox) BY <1>1, <1>2, <1>4 DEF Shape, Control
  <2>2. r = mailbox[1] /\ 1 \in 1 .. Len(mailbox)
    BY <1>2, <2>1, HeadTailProperties DEF Shape, Data
  <2>3. said[r] = "none" /\ r # current BY <2>2 DEF Truth, Placed
  <2>4. pane[r] = << >> BY <1>1, <2>3 DEF Truth, Progress
  <2>5. Len(pane'[r]) = 0 BY <1>2, <2>4
  <2>6. \A x \in late : x[1] # r BY <1>2, <2>3 DEF Truth, OnlyTheirs
  <2> QED BY <1>1, <1>2, <2>5, <2>6 DEF Once, Single
<1> QED BY <1>3, <1>4

\* What is at the session is a beginning of the text, and nothing is on its way
\* but perhaps the next key.
LEMMA TextOnce ==
    ASSUME NEW r, NEW n \in Nat, pane'[r] = Text(n), \A m \in 1 .. Len(wire') : wire'[m][1] # r,
           \A x \in late' : x[1] = r => x[2] = n + 1,
           r = current' /\ stage' = "pty" => n = 0
    PROVE  Once(r)'
<1>1. Len(pane'[r]) = n /\ \A i \in 1 .. n : pane'[r][i] = i BY TextIsASeq
<1>2. \A i, j \in 1 .. Len(pane'[r]) : pane'[r][i] = pane'[r][j] => i = j
  BY <1>1
<1>3. \A x \in late' : x[1] = r =>
         (\A i \in 1 .. Len(pane'[r]) : pane'[r][i] # x[2]) /\ \A m \in 1 .. Len(wire') : wire'[m] # x
  BY <1>1
<1>4. r = current' /\ stage' = "pty" =>
           /\ Len(pane'[r]) = 0
           /\ \A x \in late' : x[1] = r => x[2] = 1
  BY <1>1
<1>5. \A i \in 1 .. Len(pane'[r]), m \in 1 .. Len(wire') : wire'[m] # <<r, pane'[r][i]>> OBVIOUS
<1> QED BY <1>2, <1>3, <1>4, <1>5 DEF Once

LEMMA SucceedsOnce ==
    ASSUME Shape, Truth, OnceEach, stage = "tmux", CommandSucceeds PROVE OnceEach'
<1> SUFFICES ASSUME NEW r \in Writes PROVE Once(r)' BY DEF OnceEach
<1>1. r \in Requests /\ r # NoRequest /\ Once(r) BY WritesAreRequests DEF OnceEach
<1>2. /\ UNCHANGED <<wire, late, unsure>> /\ (Key = 0 => pane' = pane) /\ (Key # 0 => Type(current, Key))
      /\ stage' # "pty" /\ current' \in {current, NoRequest}
  BY DEF CommandSucceeds, Advance, Finish
<1>3. current \in Requests /\ at \in 1 .. Len(Script(current)) BY InputAssumption DEF Shape, Control
<1>4. Key # 0 => Key \in 1 .. Size(current) BY <1>3, Scripts DEF Key
<1>5. CASE r # current
  <2>1. pane'[r] = pane[r] BY <1>1, <1>2, <1>3, <1>4, <1>5, TypeTyped DEF Shape
  <2> QED BY <1>1, <1>2, <2>1, SameOnce
<1>6. CASE r = current
  <2>1. PICK n \in Nat : n = Typed(r, at) BY <1>3, <1>6 DEF Typed, Shape, Control
  <2>2. /\ \A m \in 1 .. Len(wire) : wire[m][1] # r
        /\ \A x \in late : x[1] # r
        /\ pane[r] = Text(n)
    BY <1>6, <2>1, CurrentIsClean
  <2>3. Key # 0 => Key = n + 1 BY <1>3, <1>6, <2>1, Scripts DEF Key
  <2>4. pane'[r] = Text(n) \/ pane'[r] = Text(n + 1)
    <3>1. CASE Key = 0 BY <1>2, <2>2, <3>1
    <3>2. CASE Key # 0
      <4>1. pane'[r] = Append(Text(n), n + 1)
        BY <1>1, <1>2, <1>4, <1>6, <2>2, <2>3, <3>2, TypeTyped DEF Shape
      <4> QED BY <4>1, TextGrows
    <3> QED BY <3>1, <3>2
  <2>5. PICK k \in Nat : pane'[r] = Text(k) BY <2>4
  <2>6. (\A m \in 1 .. Len(wire') : wire'[m][1] # r) /\ \A x \in late' : x[1] # r BY <1>2, <2>2
  <2> QED BY <1>2, <2>5, <2>6, TextOnce
<1> QED BY <1>5, <1>6

LEMMA MissedOnce ==
    ASSUME Shape, Truth, OnceEach, stage = "tmux", Missed, UNCHANGED <<wire, pane>>,
           late' = late \/ (Key # 0 /\ late' = late \cup {<<current, Key>>}), unsure \subseteq unsure'
    PROVE  OnceEach'
<1> SUFFICES ASSUME NEW r \in Writes PROVE Once(r)' BY DEF OnceEach
<1>1. r \in Requests /\ r # NoRequest /\ Once(r) BY WritesAreRequests DEF OnceEach
<1>2. current' \in {current, NoRequest} BY DEF Missed, Advance, Finish
<1>3. CASE r # current
  <2>1. \A x \in late' : x[1] = r => x \in late BY <1>3
  <2> QED BY <1>1, <1>2, <1>3, <2>1, SameOnce
<1>4. CASE r = current
  <2>0. at \in 1 .. Len(Script(r)) /\ at \in Nat \ {0} BY <1>4 DEF Shape, Control
  <2>1. PICK n \in Nat : n = Typed(r, at) BY <2>0 DEF Typed
  <2>2. /\ \A m \in 1 .. Len(wire) : wire[m][1] # r
        /\ \A x \in late : x[1] # r
        /\ pane[r] = Text(n)
    BY <1>4, <2>1, CurrentIsClean
  <2>3. Key # 0 => Key = n + 1 BY <1>1, <1>4, <2>0, <2>1, Scripts DEF Key
  <2>4. \A x \in late' : x[1] = r => x[2] = n + 1 BY <1>4, <2>2, <2>3
  <2>5. r = current' /\ stage' = "pty" => n = 0
    <3>1. SUFFICES ASSUME stage' = "pty" PROVE n = 0 OBVIOUS
    <3>2. at # 1 /\ ~ (ConfirmedChunks > 0) BY <3>1 DEF Missed, Advance, Finish
    <3>3. ConfirmedChunks = at - 2 BY <1>4 DEF ConfirmedChunks
    <3> QED BY <2>0, <2>1, <3>2, <3>3 DEF Typed
  <2>6. pane'[r] = Text(n) /\ \A m \in 1 .. Len(wire') : wire'[m][1] # r BY <2>2
  <2> QED BY <2>4, <2>5, <2>6, TextOnce
<1> QED BY <1>3, <1>4

LEMMA CommandOnce == ASSUME Shape, Truth, OnceEach, CommandEnds PROVE OnceEach'
<1>1. stage = "tmux"
  BY DEF CommandEnds, CommandSucceeds, CommandFails, CommandTimesOut, CommandNotSpawned,
         Answer, TimeOut, SpawnFails, Ended, Shape, Data
<1>2. CASE CommandSucceeds BY <1>1, <1>2, SucceedsOnce
<1>3. CASE CommandFails \/ CommandNotSpawned
  BY <1>1, <1>3, MissedOnce DEF CommandFails, CommandNotSpawned
<1>4. CASE CommandTimesOut
  <2>1. /\ late' = late \/ (Key # 0 /\ late' = late \cup {<<current, Key>>})
        /\ Missed /\ UNCHANGED <<wire, pane>> /\ unsure \subseteq unsure'
    BY <1>4 DEF CommandTimesOut
  <2> QED BY <1>1, <2>1, MissedOnce
<1> QED BY <1>2, <1>3, <1>4 DEF CommandEnds

LEMMA PtyOnce == ASSUME Shape, Truth, OnceEach, WritePty \/ WritePtyFails PROVE OnceEach'
<1> SUFFICES ASSUME NEW q \in Writes PROVE Once(q)' BY DEF OnceEach
<1>0. /\ q \in Requests /\ q # NoRequest /\ Once(q)
      /\ current \in Requests /\ stage = "pty" /\ current' = NoRequest
      /\ UNCHANGED <<pane, late, unsure>>
  BY WritesAreRequests, InputAssumption DEF OnceEach, WritePty, WritePtyFails, Finish, Shape, Control
<1>r. PICK r \in Requests : r = current BY <1>0
<1>p. PICK n \in 0 .. Size(r), result \in {"pty", "failed"} :
         /\ Finish(result) /\ (result = "pty" => n = Size(r))
         /\ Len(wire) \in Nat /\ Len(wire') = Len(wire) + n
         /\ \A i \in 1 .. Len(wire) : wire'[i] = wire[i]
         /\ \A i \in 1 .. n : wire'[Len(wire) + i] = <<r, i>>
  BY <1>r, PtyWires
<1>1. /\ n \in Nat
      /\ Len(wire) \in Nat /\ Len(wire') = Len(wire) + n
      /\ \A i \in 1 .. Len(wire) : wire'[i] = wire[i]
      /\ \A i \in 1 .. n : wire'[Len(wire) + i] = <<r, i>>
  <2>1. n \in Nat BY Sizes
  <2> QED BY ONLY <1>p, <2>1
<1>2. ASSUME NEW m \in 1 .. Len(wire')
      PROVE  \/ m \in 1 .. Len(wire) /\ wire'[m] = wire[m]
             \/ \E i \in 1 .. n : m = Len(wire) + i /\ wire'[m] = <<r, i>>
  <2>1. CASE m <= Len(wire) BY <1>1, <2>1
  <2>2. CASE m > Len(wire)
    <3>1. m - Len(wire) \in 1 .. n /\ m = Len(wire) + (m - Len(wire)) BY <1>1, <2>2
    <3> QED BY <1>1, <3>1
  <2> QED BY <1>1, <2>1, <2>2
<1>5. q # r => \A m \in 1 .. Len(wire') :
                  wire'[m][1] = q => m \in 1 .. Len(wire) /\ wire'[m] = wire[m]
  <2> SUFFICES ASSUME q # r, NEW m \in 1 .. Len(wire'), wire'[m][1] = q
               PROVE  m \in 1 .. Len(wire) /\ wire'[m] = wire[m]
    OBVIOUS
  <2>1. ASSUME NEW i \in 1 .. n, wire'[m] = <<r, i>> PROVE FALSE
    <3>1. wire'[m][1] = r BY ONLY <2>1
    <3> QED BY ONLY <3>1, q # r, wire'[m][1] = q
  <2> QED BY ONLY <1>2, <2>1, m \in 1 .. Len(wire')
<1>3. CASE q # r
  <2>1. \A i \in 1 .. Len(pane[q]), m \in 1 .. Len(wire') :
           Single(q, pane[q][i]) => wire'[m] # <<q, pane[q][i]>>
    <3> SUFFICES ASSUME NEW i \in 1 .. Len(pane[q]), NEW m \in 1 .. Len(wire'),
                        Single(q, pane[q][i]), wire'[m] = <<q, pane[q][i]>>
                 PROVE  FALSE
      OBVIOUS
    <3>0. wire'[m][1] = q BY ONLY wire'[m] = <<q, pane[q][i]>>
    <3>1. m \in 1 .. Len(wire) /\ wire[m] = <<q, pane[q][i]>> BY ONLY <1>5, <1>3, <3>0,
            m \in 1 .. Len(wire'), wire'[m] = <<q, pane[q][i]>>
    <3> QED BY <1>0, <3>1 DEF Once
  <2>2. \A l, m \in 1 .. Len(wire') :
           wire'[l] = wire'[m] /\ wire'[l][1] = q /\ Single(q, wire'[l][2]) => l = m
    <3> SUFFICES ASSUME NEW l \in 1 .. Len(wire'), NEW m \in 1 .. Len(wire'), wire'[l] = wire'[m],
                        wire'[l][1] = q, Single(q, wire'[l][2])
                 PROVE  l = m
      OBVIOUS
    <3>1. l \in 1 .. Len(wire) /\ wire'[l] = wire[l] BY ONLY <1>3, <1>5, l \in 1 .. Len(wire'), wire'[l][1] = q
    <3>2. m \in 1 .. Len(wire) /\ wire'[m] = wire[m]
      BY ONLY <1>3, <1>5, m \in 1 .. Len(wire'), wire'[l] = wire'[m], wire'[l][1] = q
    <3> QED BY <1>0, <3>1, <3>2 DEF Once
  <2>3. \A x \in late : x[1] = q /\ Single(q, x[2]) =>
           /\ \A i \in 1 .. Len(pane[q]) : pane[q][i] # x[2]
           /\ \A m \in 1 .. Len(wire') : wire'[m] # x
    BY <1>0, <1>3, <1>5 DEF Once
  <2>4. Once(q) /\ UNCHANGED <<pane, late, unsure>> /\ q # current' BY <1>0
  <2> QED BY ONLY <2>1, <2>2, <2>3, <2>4, SameSingle, SMTT(30)
    DEF Once
<1>4. CASE q = r
  <2>1. /\ \A i \in 1 .. Len(pane[r]) : ~ Single(r, pane[r][i])
        /\ \A x \in late : x[1] = r => x[2] = 1
    BY <1>0, <1>r, <1>4 DEF Once
  <2>2. \A m \in 1 .. Len(wire) : wire[m][1] # r
    <3>1. said[r] = "none" BY <1>0, <1>r, <1>4 DEF Truth, Placed
    <3> QED BY <3>1 DEF Truth, OnlyTheirs
  <2>3. \A x \in late : x[1] = r => ~ Single(r, x[2])
    <3> SUFFICES ASSUME NEW x \in late, x[1] = r PROVE ~ Single(r, x[2]) OBVIOUS
    <3>1. x \in unsure /\ x = <<x[1], x[2]>> BY KeyParts DEF Shape, Data
    <3> QED BY <2>1, <3>1 DEF Single
  <2>4. \A l, m \in 1 .. Len(wire') : wire'[l] = wire'[m] /\ wire'[l][1] = r => l = m
    <3> SUFFICES ASSUME NEW l \in 1 .. Len(wire'), NEW m \in 1 .. Len(wire'), wire'[l] = wire'[m],
                        wire'[l][1] = r
                 PROVE  l = m
      OBVIOUS
    <3>1. PICK i \in 1 .. n : l = Len(wire) + i /\ wire'[l] = <<r, i>> BY <1>2, <2>2
    <3>2. PICK j \in 1 .. n : m = Len(wire) + j /\ wire'[m] = <<r, j>> BY <1>2, <2>2
    <3> QED BY <3>1, <3>2
  <2>5. UNCHANGED <<pane, late, unsure>> /\ q # current' BY <1>0
  <2> QED BY ONLY <1>4, <2>1, <2>3, <2>4, <2>5, SameSingle, SMTT(30)
    DEF Once
<1> QED BY <1>3, <1>4

\* A key is appended: what becomes of each part of Once.
LEMMA AppendOnce ==
    ASSUME NEW r \in Requests, NEW k \in 1 .. Size(r), Data, Type(r, k), UNCHANGED unsure
    PROVE  /\ \A q \in Requests \ {r} : pane'[q] = pane[q]
           /\ Len(pane[r]) \in Nat /\ Len(pane'[r]) = Len(pane[r]) + 1
           /\ \A i \in 1 .. Len(pane'[r]) :
                  IF i <= Len(pane[r]) THEN i \in 1 .. Len(pane[r]) /\ pane'[r][i] = pane[r][i]
                                       ELSE i = Len(pane[r]) + 1 /\ pane'[r][i] = k
<1>1. /\ pane'[r] = Append(pane[r], k) /\ \A q \in Requests \ {r} : pane'[q] = pane[q] BY TypeTyped
<1>2. pane[r] \in Seq(Nat) /\ k \in Nat BY Sizes DEF Data
<1>3. /\ Len(pane[r]) \in Nat /\ Len(pane'[r]) = Len(pane[r]) + 1
      /\ \A i \in 1 .. Len(pane[r]) : pane'[r][i] = pane[r][i]
      /\ pane'[r][Len(pane[r]) + 1] = k
  BY <1>1, <1>2, AppendProperties
<1> QED BY <1>1, <1>3

LEMMA RelayOnce == ASSUME Shape, Truth, OnceEach, Relay PROVE OnceEach'
<1> SUFFICES ASSUME NEW q \in Writes PROVE Once(q)' BY DEF OnceEach
<1>0. /\ q \in Requests /\ q # NoRequest /\ Once(q) BY WritesAreRequests DEF OnceEach
<1>1. /\ wire \in Seq(AllKeys) /\ wire # << >> /\ wire' = Tail(wire)
      /\ UNCHANGED <<current, stage, late, unsure>>
  BY DEF Relay, Shape, Data
<1>2. /\ Head(wire) \in AllKeys /\ Head(wire) = wire[1] /\ Len(wire) \in Nat \ {0}
      /\ Len(wire') = Len(wire) - 1
      /\ \A i \in 1 .. Len(wire') : wire'[i] = wire[i + 1]
  BY <1>1, HeadTailProperties
<1>a. PICK r \in Requests : \E k \in 1 .. Size(r) : Head(wire) = <<r, k>> BY <1>2 DEF AllKeys
<1>3. PICK key \in 1 .. Size(r) : Head(wire) = <<r, key>> BY <1>a
<1>4. Type(r, key) BY <1>3 DEF Relay
<1>5. /\ \A p \in Requests \ {r} : pane'[p] = pane[p]
      /\ Len(pane[r]) \in Nat /\ Len(pane'[r]) = Len(pane[r]) + 1
      /\ \A i \in 1 .. Len(pane'[r]) :
             IF i <= Len(pane[r]) THEN i \in 1 .. Len(pane[r]) /\ pane'[r][i] = pane[r][i]
                                  ELSE i = Len(pane[r]) + 1 /\ pane'[r][i] = key
  BY <1>1, <1>4, AppendOnce DEF Shape
<1>6. \A m \in 1 .. Len(wire') : m + 1 \in 2 .. Len(wire) /\ wire'[m] = wire[m + 1] BY <1>2
<1>7. 1 \in 1 .. Len(wire) /\ wire[1] = <<r, key>> BY <1>2, <1>3
<1>8. \A l, m \in 1 .. Len(wire') :
         wire'[l] = wire'[m] /\ wire'[l][1] = q /\ Single(q, wire'[l][2]) => l = m
  <2> SUFFICES ASSUME NEW l \in 1 .. Len(wire'), NEW m \in 1 .. Len(wire'), wire'[l] = wire'[m],
                      wire'[l][1] = q, Single(q, wire'[l][2])
               PROVE  l = m
    OBVIOUS
  <2>1. l + 1 \in 1 .. Len(wire) /\ m + 1 \in 1 .. Len(wire) BY <1>6
  <2>2. l + 1 = m + 1 BY <1>0, <1>6, <2>1 DEF Once
  <2> QED BY <2>2
<1>9. CASE q # r
  <2>1. pane'[q] = pane[q] BY <1>0, <1>5, <1>9
  <2>2. \A i \in 1 .. Len(pane[q]), m \in 1 .. Len(wire') :
           Single(q, pane[q][i]) => wire'[m] # <<q, pane[q][i]>>
    <3>1. \A i \in 1 .. Len(pane[q]), m \in 1 .. Len(wire) :
             Single(q, pane[q][i]) => wire[m] # <<q, pane[q][i]>>
      BY <1>0 DEF Once
    <3>2. \A m \in 1 .. Len(wire') : m + 1 \in 1 .. Len(wire) /\ wire'[m] = wire[m + 1]
      BY <1>2, <1>6
    <3> QED BY <3>1, <3>2
  <2>3. \A x \in late : x[1] = q /\ Single(q, x[2]) =>
           /\ \A i \in 1 .. Len(pane[q]) : pane[q][i] # x[2]
           /\ \A m \in 1 .. Len(wire') : wire'[m] # x
    <3> SUFFICES ASSUME NEW x \in late, x[1] = q, Single(q, x[2])
                 PROVE  /\ \A i \in 1 .. Len(pane[q]) : pane[q][i] # x[2]
                        /\ \A m \in 1 .. Len(wire') : wire'[m] # x
      OBVIOUS
    <3>1. /\ \A i \in 1 .. Len(pane[q]) : pane[q][i] # x[2]
          /\ \A m \in 1 .. Len(wire) : wire[m] # x
      BY <1>0 DEF Once
    <3>2. \A m \in 1 .. Len(wire') : m + 1 \in 1 .. Len(wire) /\ wire'[m] = wire[m + 1]
      BY <1>2, <1>6
    <3> QED BY <3>1, <3>2
  <2>4. Once(q) /\ UNCHANGED <<current, stage, late, unsure>> BY <1>0, <1>1
  <2> QED BY ONLY <1>8, <2>1, <2>2, <2>3, <2>4, SameSingle, SMTT(30)
    DEF Once
<1>10. CASE q = r
  <2>0. Single(r, key) => \A i \in 1 .. Len(pane[r]) : pane[r][i] # key
    BY <1>0, <1>7, <1>10 DEF Once
  <2>1. \A i, j \in 1 .. Len(pane'[r]) :
           pane'[r][i] = pane'[r][j] /\ Single(r, pane'[r][i]) => i = j
    <3> SUFFICES ASSUME NEW i \in 1 .. Len(pane'[r]), NEW j \in 1 .. Len(pane'[r]),
                        pane'[r][i] = pane'[r][j], Single(r, pane'[r][i])
                 PROVE  i = j
      OBVIOUS
    <3>1. CASE i <= Len(pane[r]) /\ j <= Len(pane[r]) BY <1>0, <1>5, <1>10, <3>1 DEF Once
    <3>2. CASE ~ (i <= Len(pane[r])) /\ j <= Len(pane[r]) BY <1>5, <2>0, <3>2
    <3>3. CASE i <= Len(pane[r]) /\ ~ (j <= Len(pane[r])) BY <1>5, <2>0, <3>3
    <3>4. CASE ~ (i <= Len(pane[r])) /\ ~ (j <= Len(pane[r])) BY <1>5, <3>4
    <3> QED BY <3>1, <3>2, <3>3, <3>4
  <2>2. \A i \in 1 .. Len(pane'[r]), m \in 1 .. Len(wire') :
           Single(r, pane'[r][i]) => wire'[m] # <<r, pane'[r][i]>>
    <3> SUFFICES ASSUME NEW i \in 1 .. Len(pane'[r]), NEW m \in 1 .. Len(wire'),
                        Single(r, pane'[r][i]), wire'[m] = <<r, pane'[r][i]>>
                 PROVE  FALSE
      OBVIOUS
    <3>1. m + 1 \in 1 .. Len(wire) /\ wire[m + 1] = <<r, pane'[r][i]>> /\ m + 1 # 1 BY <1>6
    <3>2. CASE i <= Len(pane[r])
      <4>1. i \in 1 .. Len(pane[r]) /\ pane'[r][i] = pane[r][i] BY <1>5, <3>2
      <4>2. \A l \in 1 .. Len(pane[r]), k \in 1 .. Len(wire) :
               Single(r, pane[r][l]) => wire[k] # <<r, pane[r][l]>>
        BY <1>0, <1>10 DEF Once
      <4> QED BY <3>1, <4>1, <4>2
    <3>3. CASE ~ (i <= Len(pane[r]))
      <4>1. wire[m + 1] = wire[1] /\ wire[1][1] = r /\ Single(r, wire[1][2])
        BY <1>5, <1>7, <3>1, <3>3
      <4> QED BY <1>0, <1>7, <1>10, <3>1, <4>1 DEF Once
    <3> QED BY <3>2, <3>3
  <2>3. \A x \in late : x[1] = r /\ Single(r, x[2]) =>
           /\ \A i \in 1 .. Len(pane'[r]) : pane'[r][i] # x[2]
           /\ \A m \in 1 .. Len(wire') : wire'[m] # x
    <3> SUFFICES ASSUME NEW x \in late, x[1] = r, Single(r, x[2])
                 PROVE  /\ \A i \in 1 .. Len(pane'[r]) : pane'[r][i] # x[2]
                        /\ \A m \in 1 .. Len(wire') : wire'[m] # x
      OBVIOUS
    <3>1. /\ \A i \in 1 .. Len(pane[r]) : pane[r][i] # x[2]
          /\ \A m \in 1 .. Len(wire) : wire[m] # x
      BY <1>0, <1>10 DEF Once
    <3>2. x = <<x[1], x[2]>> BY KeyParts DEF Shape, Data
    <3>3. x[2] # key BY <1>7, <3>1, <3>2
    <3> QED BY <1>5, <1>6, <3>1, <3>3
  <2>4. ~ (r = current /\ stage = "pty")
    <3>1. said[r] \in {"pty", "failed"} BY <1>7 DEF Truth, OnlyTheirs
    <3> QED BY <1>0, <1>10, <3>1 DEF Truth, Placed
  <2>5. UNCHANGED <<current, stage, late, unsure>> BY <1>1
  <2> QED BY ONLY <1>8, <1>10, <2>1, <2>2, <2>3, <2>4, <2>5, SameSingle, SMTT(30)
    DEF Once
<1> QED BY <1>9, <1>10

LEMMA LateOnce == ASSUME Shape, Truth, OnceEach, NEW x \in AllKeys, TypeLate(x) PROVE OnceEach'
<1> SUFFICES ASSUME NEW q \in Writes PROVE Once(q)' BY DEF OnceEach
<1>0. /\ q \in Requests /\ q # NoRequest /\ Once(q) BY WritesAreRequests DEF OnceEach
<1>1. /\ x \in late /\ late' = late \ {x}
      /\ UNCHANGED <<current, stage, wire, unsure>>
  BY DEF TypeLate
<1>a. PICK r \in Requests : \E k \in 1 .. Size(r) : x = <<r, k>> BY DEF AllKeys
<1>2. PICK key \in 1 .. Size(r) : x = <<r, key>> BY <1>a
<1>3. Type(r, key) BY <1>2 DEF TypeLate
<1>4. /\ \A p \in Requests \ {r} : pane'[p] = pane[p]
      /\ Len(pane[r]) \in Nat /\ Len(pane'[r]) = Len(pane[r]) + 1
      /\ \A i \in 1 .. Len(pane'[r]) :
             IF i <= Len(pane[r]) THEN i \in 1 .. Len(pane[r]) /\ pane'[r][i] = pane[r][i]
                                  ELSE i = Len(pane[r]) + 1 /\ pane'[r][i] = key
  BY <1>1, <1>3, AppendOnce DEF Shape
<1>5. CASE q # r
  <2>1. pane'[q] = pane[q] BY <1>0, <1>4, <1>5
  <2> QED BY <1>0, <1>1, <2>1, SameOnce
<1>6. CASE q = r
  <2>0. Single(r, key) =>
           /\ \A i \in 1 .. Len(pane[r]) : pane[r][i] # key
           /\ \A m \in 1 .. Len(wire) : wire[m] # <<r, key>>
    BY <1>0, <1>1, <1>2, <1>6 DEF Once
  <2>1. \A i, j \in 1 .. Len(pane'[r]) :
           pane'[r][i] = pane'[r][j] /\ Single(r, pane'[r][i]) => i = j
    <3> SUFFICES ASSUME NEW i \in 1 .. Len(pane'[r]), NEW j \in 1 .. Len(pane'[r]),
                        pane'[r][i] = pane'[r][j], Single(r, pane'[r][i])
                 PROVE  i = j
      OBVIOUS
    <3>1. CASE i <= Len(pane[r]) /\ j <= Len(pane[r]) BY <1>0, <1>4, <1>6, <3>1 DEF Once
    <3>2. CASE ~ (i <= Len(pane[r])) /\ j <= Len(pane[r]) BY <1>4, <2>0, <3>2
    <3>3. CASE i <= Len(pane[r]) /\ ~ (j <= Len(pane[r])) BY <1>4, <2>0, <3>3
    <3>4. CASE ~ (i <= Len(pane[r])) /\ ~ (j <= Len(pane[r])) BY <1>4, <3>4
    <3> QED BY <3>1, <3>2, <3>3, <3>4
  <2>2. \A i \in 1 .. Len(pane'[r]), m \in 1 .. Len(wire) :
           Single(r, pane'[r][i]) => wire[m] # <<r, pane'[r][i]>>
    <3> SUFFICES ASSUME NEW i \in 1 .. Len(pane'[r]), NEW m \in 1 .. Len(wire),
                        Single(r, pane'[r][i])
                 PROVE  wire[m] # <<r, pane'[r][i]>>
      OBVIOUS
    <3>1. CASE i <= Len(pane[r]) BY <1>0, <1>4, <1>6, <3>1 DEF Once
    <3>2. CASE ~ (i <= Len(pane[r])) BY <1>4, <2>0, <3>2
    <3> QED BY <3>1, <3>2
  <2>3. \A y \in late' : y[1] = r /\ Single(r, y[2]) =>
           /\ \A i \in 1 .. Len(pane'[r]) : pane'[r][i] # y[2]
           /\ \A m \in 1 .. Len(wire) : wire[m] # y
    <3> SUFFICES ASSUME NEW y \in late', y[1] = r, Single(r, y[2])
                 PROVE  /\ \A i \in 1 .. Len(pane'[r]) : pane'[r][i] # y[2]
                        /\ \A m \in 1 .. Len(wire) : wire[m] # y
      OBVIOUS
    <3>1. /\ \A i \in 1 .. Len(pane[r]) : pane[r][i] # y[2]
          /\ \A m \in 1 .. Len(wire) : wire[m] # y
      BY <1>0, <1>1, <1>6 DEF Once
    <3>2. y = <<y[1], y[2]>> /\ y # x BY <1>1, KeyParts DEF Shape, Data
    <3>3. y[2] # key BY <1>2, <3>2
    <3> QED BY <1>4, <3>1, <3>3
  <2>4. r = current /\ stage = "pty" =>
           /\ \A i \in 1 .. Len(pane'[r]) : ~ Single(r, pane'[r][i])
           /\ \A y \in late' : y[1] = r => y[2] = 1
    <3> SUFFICES ASSUME r = current /\ stage = "pty"
                 PROVE  /\ \A i \in 1 .. Len(pane'[r]) : ~ Single(r, pane'[r][i])
                        /\ \A y \in late' : y[1] = r => y[2] = 1
      OBVIOUS
    <3>1. /\ \A i \in 1 .. Len(pane[r]) : ~ Single(r, pane[r][i])
          /\ \A y \in late : y[1] = r => y[2] = 1
      BY <1>0, <1>6 DEF Once
    <3>2. key = 1 /\ <<r, 1>> \in unsure BY <1>1, <1>2, <3>1 DEF Shape, Data
    <3> QED BY <1>1, <1>4, <3>1, <3>2 DEF Single
  <2>5. \A l, m \in 1 .. Len(wire) :
           wire[l] = wire[m] /\ wire[l][1] = r /\ Single(r, wire[l][2]) => l = m
    BY <1>0, <1>6 DEF Once
  <2>6. UNCHANGED <<current, stage, wire, unsure>> BY <1>1
  <2> QED BY ONLY <1>6, <2>1, <2>2, <2>3, <2>4, <2>5, <2>6, SameSingle, SMTT(30)
    DEF Once
<1> QED BY <1>5, <1>6

LEMMA InitOnce == Init => OnceEach
<1> SUFFICES ASSUME Init, NEW r \in Writes PROVE Once(r) BY DEF OnceEach
<1>1. pane[r] = << >> /\ wire = << >> /\ late = {} /\ stage = "idle" BY WritesAreRequests DEF Init
<1>2. Len(pane[r]) = 0 /\ Len(wire) = 0 BY <1>1
<1> QED BY <1>1, <1>2 DEF Once

LEMMA NextOnce == ASSUME Shape, Truth, OnceEach, [Next]_vars PROVE OnceEach'
<1>1. ASSUME NEW r \in Requests, Send(r) \/ GiveUp(r) PROVE OnceEach'
  BY <1>1, SameOnce DEF Send, GiveUp, OnceEach
<1>2. CASE Receive BY <1>2, ReceiveOnce
<1>3. CASE CommandEnds BY <1>3, CommandOnce
<1>4. CASE WritePty \/ WritePtyFails BY <1>4, PtyOnce
<1>5. CASE Relay BY <1>5, RelayOnce
<1>6. ASSUME NEW x \in AllKeys, TypeLate(x) PROVE OnceEach' BY <1>6, LateOnce
<1>7. CASE SessionEnds \/ NoticeExit BY <1>7, SameOnce DEF SessionEnds, NoticeExit, OnceEach
<1>8. CASE Issue \/ (\E p \in Probes : ProbeStarts(p) \/ ProbeEnds(p)) \/ Server
  <2>1. UNCHANGED inputVars BY <1>8, OthersStep
  <2> QED BY <2>1, SameOnce DEF inputVars, OnceEach
<1>9. CASE UNCHANGED vars BY <1>9, SameOnce DEF vars, inputVars, OnceEach
<1> QED BY <1>1, <1>2, <1>3, <1>4, <1>5, <1>6, <1>7, <1>8, <1>9 DEF Next, ActorStep

LEMMA OnceIsEnough == Shape /\ OnceEach => OnlyUnconfirmedRepeats
<1> SUFFICES ASSUME Shape, OnceEach, NEW r \in Writes, NEW i \in 1 .. Len(pane[r]),
                    NEW j \in 1 .. Len(pane[r]), pane[r][i] = pane[r][j], i # j
             PROVE  pane[r][i] = 1 /\ <<r, 1>> \in unsure
  BY DEF OnlyUnconfirmedRepeats
<1>1. ~ Single(r, pane[r][i]) BY DEF OnceEach, Once
<1> QED BY <1>1 DEF Single

(***************************************************************************)
(* Text is not typed twice, whatever times out and takes effect late: a    *)
(* chunk of a write is at the session twice only when it is the first one  *)
(* and its command timed out, so that nothing was confirmed when the whole *)
(* buffer was written to the PTY (tmux_write_input_error_result and the    *)
(* fallback of handle_write_input).                                        *)
(***************************************************************************)
THEOREM OnlyUnconfirmedRepeat == Spec => []OnlyUnconfirmedRepeats
<1>1. Init => Shape /\ Truth /\ OnceEach BY InitShape, InitTruth, InitOnce
<1>2. Shape /\ Truth /\ OnceEach /\ [Next]_vars => (Shape /\ Truth /\ OnceEach)'
  BY NextShape, NextTruth, NextOnce
<1>3. Shape /\ Truth /\ OnceEach => OnlyUnconfirmedRepeats BY OnceIsEnough
<1> QED BY <1>1, <1>2, <1>3, PTL DEF Spec
=============================================================================
