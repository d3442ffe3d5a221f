------------------------ MODULE SessionActor_proofs ------------------------
(***************************************************************************)
(* Proofs about the actor and its detector.  First the detector, for any   *)
(* delays and any commands: its couplings of states and deadlines are kept *)
(* by every operator that stands for a whole method (Good), so by every    *)
(* order of calls (DetectorCalls) and by the actor.  Then the actor's      *)
(* output, for any reads, any bound of the channel and of the redraw       *)
(* buffer: it is emitted in order, and what is held back is timed and      *)
(* bounded.  Last the detector's parser, which is cut off anywhere by the  *)
(* reads: it finds what was printed, or is lost for a bounded time.        *)
(***************************************************************************)
EXTENDS SessionActor, DetectorCalls, EscapeParser, SequenceTheorems, TLAPS

Causes == HighCauses \cup LowerCauses

(* What the safety invariants say of a detector, and that a silence         *)
(* deadline exists only in tool mode, which is never left.                  *)
Coupled(d) ==
    /\ d.err # Off <=> d.state = "Error"
    /\ d.att # Off => d.state = "Idle"
    /\ d.tui /\ d.state = "Busy" => d.out # Off
    /\ d.cmd # NoCmd => d.state \in {"Busy", "Error"}
    /\ d.out # Off => d.tui

Good(d) == d \in Detector /\ Coupled(d)

-----------------------------------------------------------------------------
(* What the record updates do, field by field. *)

LEMMA SetStateFields ==
    ASSUME NEW d \in Detector, NEW new \in States, NEW cmd \in Commands \cup {NoCmd},
           NEW cause \in Causes
    PROVE  /\ SetState(d, new, cmd, cause) \in Detector
           /\ SetState(d, new, cmd, cause).state = new
           /\ SetState(d, new, cmd, cause).cmd = cmd
           /\ SetState(d, new, cmd, cause).cause = cause
           /\ SetState(d, new, cmd, cause).tui = d.tui
           /\ SetState(d, new, cmd, cause).err = d.err
           /\ SetState(d, new, cmd, cause).out = d.out
           /\ SetState(d, new, cmd, cause).att =
                 IF d.state = "Busy" /\ new = "Idle" THEN AttentionDelay
                 ELSE IF d.state = "Idle" /\ new \notin {"Idle", "Attention"}
                      THEN Off ELSE d.att
<1> DEFINE att == IF d.state = "Busy" /\ new = "Idle" THEN AttentionDelay
                  ELSE IF d.state = "Idle" /\ new \notin {"Idle", "Attention"}
                       THEN Off ELSE d.att
<1>1. att \in Off .. AttentionDelay
  BY DelaysAssumption DEF Detector, Off
<1>2. SetState(d, new, cmd, cause)
        = [d EXCEPT !.state = new, !.cmd = cmd, !.cause = cause, !.att = att]
  BY DEF SetState, Detector
<1>3. SetState(d, new, cmd, cause).att = att
  BY <1>2 DEF Detector
<1>4. QED
  <2> HIDE DEF att
  <2>1. SetState(d, new, cmd, cause) \in Detector
    BY <1>1, <1>2 DEF Detector, Causes
  <2>2. QED BY <1>2, <1>3, <2>1 DEF Detector, att

LEMMA SetStateNoCmdFields ==
    ASSUME NEW d \in Detector, NEW new \in States, NEW cause \in Causes
    PROVE  /\ SetState(d, new, NoCmd, cause) \in Detector
           /\ SetState(d, new, NoCmd, cause).state = new
           /\ SetState(d, new, NoCmd, cause).cmd = NoCmd
           /\ SetState(d, new, NoCmd, cause).cause = cause
           /\ SetState(d, new, NoCmd, cause).tui = d.tui
           /\ SetState(d, new, NoCmd, cause).err = d.err
           /\ SetState(d, new, NoCmd, cause).out = d.out
           /\ SetState(d, new, NoCmd, cause).att =
                 IF d.state = "Busy" /\ new = "Idle" THEN AttentionDelay
                 ELSE IF d.state = "Idle" /\ new \notin {"Idle", "Attention"}
                      THEN Off ELSE d.att
  BY SetStateFields

LEMMA ClearErrorFields ==
    ASSUME NEW d \in Detector
    PROVE  /\ ClearError(d) \in Detector
           /\ ClearError(d).err = Off
           /\ ClearError(d).state = d.state /\ ClearError(d).cmd = d.cmd
           /\ ClearError(d).cause = d.cause /\ ClearError(d).tui = d.tui
           /\ ClearError(d).att = d.att /\ ClearError(d).out = d.out
  BY DelaysAssumption DEF ClearError, Detector, Off

LEMMA ArmSilenceFields ==
    ASSUME NEW d \in Detector
    PROVE  /\ ArmSilence(d) \in Detector
           /\ ArmSilence(d).out = IF d.tui /\ d.state = "Busy" THEN OutputIdle ELSE d.out
           /\ ArmSilence(d).state = d.state /\ ArmSilence(d).cmd = d.cmd
           /\ ArmSilence(d).cause = d.cause /\ ArmSilence(d).tui = d.tui
           /\ ArmSilence(d).err = d.err /\ ArmSilence(d).att = d.att
  BY DelaysAssumption DEF ArmSilence, Detector, Off

LEMMA FieldTypes ==
    ASSUME NEW d \in Detector
    PROVE  /\ d.state \in States /\ d.cause \in Causes /\ d.cmd \in Commands \cup {NoCmd}
           /\ d.tui \in BOOLEAN /\ d.err \in Int /\ d.att \in Int /\ d.out \in Int
           /\ d.err >= Off /\ d.att >= Off /\ d.out >= Off
           /\ d.err <= ErrorLinger /\ d.att <= AttentionDelay /\ d.out <= OutputIdle
  BY DelaysAssumption DEF Detector, Causes, Off

-----------------------------------------------------------------------------
(* The deadlines.  Each check either does nothing, or clears a deadline that *)
(* ran out while its state was over, or ends the state the deadline timed.   *)

LEMMA CheckErrorFields ==
    ASSUME NEW d, Good(d)
    PROVE  /\ Good(CheckError(d))
           /\ CheckError(d).tui = d.tui /\ CheckError(d).out = d.out
           /\ CheckError(d).att = d.att
           /\ \/ CheckError(d).state = d.state /\ CheckError(d).cause = d.cause
              \/ /\ d.state = "Error" /\ CheckError(d).state = "Idle"
                 /\ CheckError(d).cause = "error_timer_expired"
<1> USE DEF Good
<1>1. CASE d.err # 0
  BY <1>1 DEF CheckError
<1>2. CASE d.err = 0
  <2>1. d.state = "Error" /\ d.att = Off /\ d.err # Off
    BY <1>2 DEF Coupled, Off
  <2>2. CheckError(d) = SetState(ClearError(d), "Idle", NoCmd, "error_timer_expired")
    BY <1>2, <2>1 DEF CheckError
  <2>3. QED
    BY <2>1, <2>2, ClearErrorFields, SetStateFields
    DEF Coupled, States, Causes, LowerCauses
<1>3. QED BY <1>1, <1>2

LEMMA CheckSilenceFields ==
    ASSUME NEW d, Good(d)
    PROVE  /\ Good(CheckSilence(d)) /\ CheckSilence(d).tui = d.tui
           /\ \/ /\ CheckSilence(d).state = d.state /\ CheckSilence(d).cause = d.cause
                 /\ CheckSilence(d).att = d.att
                 /\ d.state = "Busy" => CheckSilence(d).out = d.out
              \/ /\ d.out = 0 /\ d.state = "Busy" /\ CheckSilence(d).state = "Idle"
                 /\ CheckSilence(d).att = AttentionDelay
<1> USE DEF Good
<1> DEFINE taken == [d EXCEPT !.out = Off]
<1>1. CASE d.out # 0
  BY <1>1 DEF CheckSilence
<1>2. CASE d.out = 0
  <2>1. /\ taken \in Detector /\ taken.out = Off /\ taken.state = d.state
        /\ taken.cause = d.cause /\ taken.att = d.att /\ taken.err = d.err
        /\ taken.cmd = d.cmd /\ taken.tui = d.tui
    BY DelaysAssumption DEF Detector, Off
  <2>2. CASE d.state # "Busy"
    <3>1. CheckSilence(d) = taken
      BY <1>2, <2>2 DEF CheckSilence
    <3> HIDE DEF taken
    <3>2. QED BY <2>1, <2>2, <3>1 DEF Coupled
  <2>3. CASE d.state = "Busy"
    <3>1. CheckSilence(d) = SetState(taken, "Idle", NoCmd, "output_silence_expired")
      BY <1>2, <2>3 DEF CheckSilence
    <3> HIDE DEF taken
    <3>2. QED
      BY <1>2, <2>1, <2>3, <3>1, SetStateFields
      DEF Coupled, States, Causes, LowerCauses
  <2>4. QED BY <2>2, <2>3
<1>3. QED BY <1>1, <1>2

LEMMA CheckAttentionFields ==
    ASSUME NEW d, Good(d)
    PROVE  /\ Good(CheckAttention(d)) /\ CheckAttention(d).tui = d.tui
           /\ CheckAttention(d).out = d.out
           /\ \/ CheckAttention(d) = d
              \/ /\ d.att = 0 /\ d.state = "Idle" /\ CheckAttention(d).state = "Attention"
                 /\ CheckAttention(d).cause = "attention_timer_expired"
                 /\ CheckAttention(d).att = Off
<1> USE DEF Good
<1> DEFINE taken == [d EXCEPT !.att = Off]
<1>1. CASE d.att # 0
  BY <1>1 DEF CheckAttention
<1>2. CASE d.att = 0
  <2>1. /\ taken \in Detector /\ taken.att = Off /\ taken.state = d.state
        /\ taken.cause = d.cause /\ taken.out = d.out /\ taken.err = d.err
        /\ taken.cmd = d.cmd /\ taken.tui = d.tui
    BY DelaysAssumption DEF Detector, Off
  <2>2. d.state = "Idle"
    BY <1>2 DEF Coupled, Off
  <2>3. CheckAttention(d) = SetState(taken, "Attention", NoCmd, "attention_timer_expired")
    BY <1>2, <2>2 DEF CheckAttention
  <2> HIDE DEF taken
  <2>4. QED
    BY <1>2, <2>1, <2>2, <2>3, SetStateFields DEF Coupled, States, Causes, LowerCauses
<1>3. QED BY <1>1, <1>2

(* check_timers ends a turn or asks for attention only when that deadline   *)
(* had run out before the call, and otherwise keeps the deadlines in use.   *)
Timely(d, e) ==
    /\ e.cause = "output_silence_expired" /\ d.cause # "output_silence_expired"
          => d.state = "Busy" /\ d.out = 0
    /\ e.state = "Attention" /\ d.state # "Attention" => d.state = "Idle" /\ d.att = 0
    /\ e.state = "Busy" /\ e.out # Off
          => e.out = OutputIdle \/ (d.state = "Busy" /\ e.out = d.out)
    /\ e.att # Off => e.att = AttentionDelay \/ e.att = d.att

LEMMA CheckTimersGood ==
    ASSUME NEW d, Good(d)
    PROVE  Good(CheckTimers(d)) /\ Timely(d, CheckTimers(d))
           /\ (CheckTimers(d).state = "Busy" => d.state = "Busy")
<1> DEFINE e1 == CheckError(d)
           e2 == CheckSilence(e1)
           e3 == CheckAttention(e2)
<1>1. Good(e1) /\ Good(e2) /\ Good(e3)
  BY CheckErrorFields, CheckSilenceFields, CheckAttentionFields
<1>2. e3 = CheckTimers(d)
  BY DEF CheckTimers
<1> HIDE DEF e3
<1>3. QED
  BY <1>1, <1>2, CheckErrorFields, CheckSilenceFields, CheckAttentionFields, DelaysAssumption
  DEF Timely, e3, Good, Coupled, Off

-----------------------------------------------------------------------------
(* The other methods end no turn and ask for no attention: they are steps    *)
(* that no deadline causes.  A chunk that makes the session busy leaves the  *)
(* silence deadline to ArmSilence, so between the two only Loose holds.      *)
Untimed(d, e) ==
    /\ e.cause = "output_silence_expired" => d.cause = "output_silence_expired"
    /\ e.state = "Attention" => d.state = "Attention"
    /\ e.att # Off => e.att = AttentionDelay \/ e.att = d.att

Loose(d) ==
    /\ d \in Detector
    /\ d.err # Off <=> d.state = "Error"
    /\ d.att # Off => d.state = "Idle"
    /\ d.cmd # NoCmd => d.state \in {"Busy", "Error"}
    /\ d.out # Off => d.tui

LEMMA UntimedTransitive ==
    ASSUME NEW d, NEW e, NEW f, Untimed(d, e), Untimed(e, f)
    PROVE  Untimed(d, f)
  BY DEF Untimed

LEMMA GoodIsLoose == ASSUME NEW d PROVE Good(d) => Loose(d)
  BY DEF Good, Coupled, Loose

LEMMA LooseIsGood ==
    ASSUME NEW d, Loose(d)
    PROVE  d.state # "Busy" \/ ~d.tui \/ d.out # Off => Good(d)
  BY DEF Good, Coupled, Loose

(* Leaving an error for work or for the prompt. *)
LEMMA ResumeLoose ==
    ASSUME NEW d, Loose(d), NEW new \in {"Busy", "Idle"}, NEW cmd \in Commands \cup {NoCmd},
           NEW cause \in Causes, cause # "output_silence_expired",
           new = "Idle" => cmd = NoCmd
    PROVE  /\ Loose(SetState(ClearError(d), new, cmd, cause))
           /\ Untimed(d, SetState(ClearError(d), new, cmd, cause))
           /\ SetState(ClearError(d), new, cmd, cause).state = new
           /\ SetState(ClearError(d), new, cmd, cause).out = d.out
           /\ SetState(ClearError(d), new, cmd, cause).tui = d.tui
<1> DEFINE k == ClearError(d)
           e == SetState(k, new, cmd, cause)
<1>1. /\ k \in Detector /\ k.err = Off /\ k.state = d.state /\ k.att = d.att
      /\ k.out = d.out /\ k.tui = d.tui
  BY ClearErrorFields DEF Loose
<1> HIDE DEF k
<1>2. /\ e \in Detector /\ e.state = new /\ e.cmd = cmd /\ e.cause = cause
      /\ e.tui = k.tui /\ e.err = k.err /\ e.out = k.out
      /\ e.att = IF k.state = "Busy" /\ new = "Idle" THEN AttentionDelay
                 ELSE IF k.state = "Idle" /\ new \notin {"Idle", "Attention"}
                      THEN Off ELSE k.att
  <2>1. new \in States /\ k \in Detector
    BY <1>1 DEF States
  <2>2. QED BY <2>1, SetStateFields
<1> HIDE DEF e
<1>3. Loose(e) /\ Untimed(d, e)
  BY <1>1, <1>2 DEF Loose, Untimed
<1>4. QED BY <1>1, <1>2, <1>3 DEF e, k

LEMMA ErrorPatternLoose ==
    ASSUME NEW d, Loose(d), NEW c \in Chunk
    PROVE  /\ Loose(ApplyErrorPattern(d, c)) /\ Untimed(d, ApplyErrorPattern(d, c))
           /\ IF c.error THEN ApplyErrorPattern(d, c).state = "Error"
              ELSE ApplyErrorPattern(d, c) = d
<1>1. CASE ~c.error
  BY <1>1 DEF ApplyErrorPattern, Untimed
<1>2. CASE c.error
  <2> DEFINE k == SetState(d, "Error", d.cmd, "error_pattern")
             e == [k EXCEPT !.err = ErrorLinger]
  <2>1. e = ApplyErrorPattern(d, c)
    BY <1>2 DEF ApplyErrorPattern
  <2>2. /\ k \in Detector /\ k.state = "Error" /\ k.cmd = d.cmd
        /\ k.cause = "error_pattern" /\ k.tui = d.tui /\ k.out = d.out
        /\ k.att = IF d.state = "Idle" THEN Off ELSE d.att
    <3>1. d \in Detector /\ d.cmd \in Commands \cup {NoCmd}
      BY FieldTypes DEF Loose
    <3>2. "Error" \in States /\ "error_pattern" \in Causes BY DEF States, Causes, HighCauses
    <3>3. PICK new \in States, cause \in Causes : new = "Error" /\ cause = "error_pattern" BY <3>2
    <3>4. k = SetState(d, new, d.cmd, cause) BY <3>3
    <3> HIDE DEF k
    <3> QED BY <3>1, <3>3, <3>4, SetStateFields
  <2> HIDE DEF k
  <2>3. /\ e \in Detector /\ e.err = ErrorLinger /\ e.state = k.state /\ e.cmd = k.cmd
        /\ e.cause = k.cause /\ e.tui = k.tui /\ e.out = k.out /\ e.att = k.att
    BY <2>2, DelaysAssumption DEF Detector, Off
  <2> HIDE DEF e
  <2>4. Loose(e) /\ Untimed(d, e) /\ e.state = "Error"
    BY <2>2, <2>3, DelaysAssumption DEF Loose, Untimed, Off
  <2>5. QED BY <1>2, <2>1, <2>4
<1>3. QED BY <1>1, <1>2

LEMMA ArmSilenceGood ==
    ASSUME NEW d, Loose(d)
    PROVE  /\ Good(ArmSilence(d)) /\ Untimed(d, ArmSilence(d))
           /\ ArmSilence(d).state = "Busy" /\ ArmSilence(d).out # Off
                 => ArmSilence(d).out = OutputIdle
<1>1. d \in Detector BY DEF Loose
<1>2. QED
  BY <1>1, ArmSilenceFields, DelaysAssumption DEF Loose, Good, Coupled, Untimed, Off

-----------------------------------------------------------------------------
(* process_output, branch by branch. *)

Refreshed(e) == e.state = "Busy" /\ e.out # Off => e.out = OutputIdle

LEMMA MarkerGood ==
    ASSUME NEW d, Loose(d), NEW c \in Chunk
    PROVE  Good(ApplyMarker(d, c)) /\ Untimed(d, ApplyMarker(d, c))
           /\ Refreshed(ApplyMarker(d, c))
<1>1. CASE c.osc = "command"
  <2> DEFINE k == SetState(ClearError(d), "Busy", c.cmd, "osc133_command")
             m == ApplyErrorPattern(k, c)
  <2>1. Loose(k) /\ Untimed(d, k)
    <3>1. c.cmd \in Commands \cup {NoCmd} BY DEF Chunk
    <3>2. "osc133_command" \in Causes BY DEF Causes, HighCauses
    <3>3. QED BY <3>1, <3>2, ResumeLoose
  <2> HIDE DEF k
  <2>2. Loose(m) /\ Untimed(k, m)
    BY <2>1, ErrorPatternLoose
  <2>3. ApplyMarker(d, c) = ArmSilence(m)
    BY <1>1 DEF ApplyMarker, m, k
  <2> HIDE DEF m
  <2>4. QED BY <2>1, <2>2, <2>3, ArmSilenceGood, UntimedTransitive DEF Refreshed
<1>2. CASE c.osc # "command"
  <2> DEFINE k == SetState(ClearError(d), "Idle", NoCmd, "osc133_prompt")
             m == ApplyErrorPattern(k, c)
  <2>1. Loose(k) /\ Untimed(d, k) /\ k.state = "Idle"
    <3>1. "osc133_prompt" \in Causes BY DEF Causes, HighCauses
    <3>2. QED BY <3>1, ResumeLoose
  <2> HIDE DEF k
  <2>2. Loose(m) /\ Untimed(k, m) /\ m.state # "Busy"
    BY <2>1, ErrorPatternLoose
  <2>3. ApplyMarker(d, c) = m
    BY <1>2 DEF ApplyMarker, m, k
  <2> HIDE DEF m
  <2>4. QED BY <2>1, <2>2, <2>3, LooseIsGood, UntimedTransitive DEF Refreshed
<1>3. QED BY <1>1, <1>2

LEMMA FallbackBusyLoose ==
    ASSUME NEW d, Loose(d), NEW c \in Chunk
    PROVE  Loose(FallbackBusy(d, c)) /\ Untimed(d, FallbackBusy(d, c))
<1> DEFINE e == SetState(ClearError(d), "Busy", NoCmd, "fallback_non_prompt_output")
<1>1. Loose(e) /\ Untimed(d, e)
  <2>1. "fallback_non_prompt_output" \in Causes BY DEF Causes, LowerCauses
  <2>2. QED BY <2>1, ResumeLoose
<1>2. FallbackBusy(d, c) \in {d, e}
  BY DEF FallbackBusy
<1> HIDE DEF e
<1>3. QED BY <1>1, <1>2 DEF Untimed

LEMMA FallbackPromptLoose ==
    ASSUME NEW d, Loose(d), NEW c \in Chunk
    PROVE  Loose(FallbackPrompt(d, c)) /\ Untimed(d, FallbackPrompt(d, c))
<1> DEFINE e == SetState(ClearError(d), "Idle", NoCmd, "fallback_prompt_detected")
<1>1. Loose(e) /\ Untimed(d, e)
  <2>1. "fallback_prompt_detected" \in Causes BY DEF Causes, LowerCauses
  <2>2. QED BY <2>1, ResumeLoose
<1>2. FallbackPrompt(d, c) \in {d, e}
  BY DEF FallbackPrompt
<1> HIDE DEF e
<1>3. QED BY <1>1, <1>2 DEF Untimed

LEMMA FallbackGood ==
    ASSUME NEW d, Loose(d), NEW c \in Chunk
    PROVE  Good(ApplyFallback(d, c)) /\ Untimed(d, ApplyFallback(d, c))
           /\ Refreshed(ApplyFallback(d, c))
<1> DEFINE k == ApplyErrorPattern(d, c)
           l == FallbackBusy(k, c)
           m == FallbackPrompt(l, c)
<1>1. Loose(k) /\ Untimed(d, k)
  BY ErrorPatternLoose
<1> HIDE DEF k
<1>2. Loose(l) /\ Untimed(k, l)
  BY <1>1, FallbackBusyLoose
<1> HIDE DEF l
<1>3. Loose(m) /\ Untimed(l, m)
  BY <1>2, FallbackPromptLoose
<1> HIDE DEF m
<1>4. Good(ArmSilence(m)) /\ Untimed(m, ArmSilence(m)) /\ Refreshed(ArmSilence(m))
  BY <1>3, ArmSilenceGood DEF Refreshed
<1>5. ApplyFallback(d, c) = ArmSilence(m)
  BY DEF ApplyFallback, m, l, k
<1>6. QED BY <1>1, <1>2, <1>3, <1>4, <1>5, UntimedTransitive

(* The whole method: the timers first, then the branch of the chunk. *)
LEMMA ProcessOutputGood ==
    ASSUME NEW d, Good(d), NEW c \in Chunk
    PROVE  Good(ProcessOutput(d, c)) /\ Timely(d, ProcessOutput(d, c))
           /\ Refreshed(ProcessOutput(d, c))
<1> DEFINE k == CheckTimers(d)
           e == ProcessOutput(d, c)
<1>1. Good(k) /\ Timely(d, k)
  BY CheckTimersGood
<1>2. e = IF c.osc = "none" THEN ApplyFallback(k, c) ELSE ApplyMarker(k, c)
  BY DEF ProcessOutput
<1> HIDE DEF k, e
<1>3. Good(e) /\ Untimed(k, e) /\ Refreshed(e)
  BY <1>1, <1>2, GoodIsLoose, FallbackGood, MarkerGood
<1>4. Timely(d, e)
  BY <1>1, <1>3 DEF Timely, Untimed, Refreshed
<1>5. QED BY <1>3, <1>4 DEF e

-----------------------------------------------------------------------------
(* The other calls of the actor. *)

LEMMA NoteInputGood ==
    ASSUME NEW d, Good(d)
    PROVE  Good(NoteInput(d)) /\ Timely(d, NoteInput(d))
           /\ (NoteInput(d) = d \/ Refreshed(NoteInput(d)))
<1> DEFINE k == SetState(ClearError(d), "Busy", NoCmd, "local_input")
<1>1. Loose(k) /\ Untimed(d, k)
  <2>1. "local_input" \in Causes BY DEF Causes, LowerCauses
  <2>2. QED BY <2>1, ResumeLoose, GoodIsLoose
<1>2. NoteInput(d) = IF d.state \in {"Busy", "Exited"} THEN d ELSE ArmSilence(k)
  BY DEF NoteInput
<1> HIDE DEF k
<1>3. Good(ArmSilence(k)) /\ Untimed(k, ArmSilence(k)) /\ Refreshed(ArmSilence(k))
  BY <1>1, ArmSilenceGood DEF Refreshed
<1>4. QED
  BY <1>1, <1>2, <1>3 DEF Timely, Untimed, Refreshed

LEMMA DismissAttentionGood ==
    ASSUME NEW d, Good(d)
    PROVE  Good(DismissAttention(d)) /\ Timely(d, DismissAttention(d))
<1> DEFINE k == [d EXCEPT !.att = Off]
           e == SetState(k, "Idle", NoCmd, "dismiss_attention")
<1>1. /\ k \in Detector /\ k.att = Off /\ k.state = d.state /\ k.cause = d.cause
      /\ k.out = d.out /\ k.err = d.err /\ k.cmd = d.cmd /\ k.tui = d.tui
  BY DelaysAssumption DEF Good, Detector, Off
<1>2. DismissAttention(d) = IF d.state = "Attention" THEN e ELSE k
  BY DEF DismissAttention
<1> HIDE DEF k
<1>3. CASE d.state = "Attention"
  <2>1. /\ e \in Detector /\ e.state = "Idle" /\ e.cmd = NoCmd
        /\ e.cause = "dismiss_attention" /\ e.tui = k.tui /\ e.err = k.err
        /\ e.out = k.out /\ e.att = Off
    BY <1>1, <1>3, SetStateFields DEF States, Causes, LowerCauses
  <2> HIDE DEF e
  <2>2. QED BY <1>1, <1>2, <1>3, <2>1 DEF Good, Coupled, Timely
<1>4. CASE d.state # "Attention"
  BY <1>1, <1>2, <1>4 DEF Good, Coupled, Timely
<1>5. QED BY <1>3, <1>4

LEMMA MarkExitedGood ==
    ASSUME NEW d, Good(d)
    PROVE  Good(MarkExited(d)) /\ Timely(d, MarkExited(d))
<1> DEFINE j == ClearError(d)
           k == [j EXCEPT !.att = Off]
           e == SetState(k, "Exited", NoCmd, "process_exit")
<1>1. MarkExited(d) = IF d.state = "Exited" THEN d ELSE e
  BY DEF MarkExited
<1>2. /\ j \in Detector /\ j.err = Off /\ j.out = d.out /\ j.tui = d.tui
      /\ j.state = d.state
  BY ClearErrorFields DEF Good
<1> HIDE DEF j
<1>3. /\ k \in Detector /\ k.err = Off /\ k.att = Off /\ k.out = d.out /\ k.tui = d.tui
      /\ k.state = d.state
  BY <1>2, DelaysAssumption DEF Detector, Off
<1> HIDE DEF k
<1>4. /\ e \in Detector /\ e.state = "Exited" /\ e.cmd = NoCmd
      /\ e.cause = "process_exit" /\ e.err = Off /\ e.out = d.out /\ e.tui = d.tui
      /\ e.att = Off
  <2>1. "process_exit" \in Causes /\ "Exited" \in States /\ NoCmd \in Commands \cup {NoCmd}
    BY DEF Causes, HighCauses, States
  <2>2. QED BY <1>3, <2>1, SetStateFields
<1> HIDE DEF e
<1>5. QED BY <1>1, <1>4 DEF Good, Coupled, Timely

LEMMA EnableTuiToolModeGood ==
    ASSUME NEW d, Good(d)
    PROVE  Good(EnableTuiToolMode(d)) /\ Timely(d, EnableTuiToolMode(d))
<1> DEFINE k == [d EXCEPT !.tui = TRUE]
<1>1. /\ k \in Detector /\ k.tui = TRUE /\ k.state = d.state /\ k.cause = d.cause
      /\ k.out = d.out /\ k.err = d.err /\ k.cmd = d.cmd /\ k.att = d.att
  BY DEF Good, Detector
<1>2. EnableTuiToolMode(d) = IF d.out = Off THEN ArmSilence(k) ELSE k
  BY DEF EnableTuiToolMode
<1> HIDE DEF k
<1>3. Loose(k)
  BY <1>1 DEF Good, Coupled, Loose
<1>4. CASE d.out = Off
  BY <1>1, <1>2, <1>3, <1>4, ArmSilenceGood DEF Timely, Untimed
<1>5. CASE d.out # Off
  BY <1>1, <1>2, <1>3, <1>5, LooseIsGood DEF Timely
<1>6. QED BY <1>4, <1>5

LEMMA ApplyProcessLivenessGood ==
    ASSUME NEW d, Good(d), NEW hasChildren \in BOOLEAN
    PROVE  Good(ApplyProcessLiveness(d, hasChildren))
           /\ Timely(d, ApplyProcessLiveness(d, hasChildren))
<1> DEFINE e == ApplyProcessLiveness(d, hasChildren)
<1>1. \/ e = d
      \/ /\ d.state = "Busy"
         /\ e = SetState(d, "Idle", NoCmd, "liveness_no_children")
      \/ /\ d.state = "Busy" /\ ~d.tui
         /\ e = SetState(d, "Busy", d.cmd, "liveness_has_children")
      \/ /\ d.state \in {"Idle", "Attention"} /\ ~d.tui
         /\ e = SetState(d, "Busy", NoCmd, "liveness_has_children")
  BY DEF ApplyProcessLiveness
<1>2. d \in Detector /\ d.cmd \in Commands \cup {NoCmd}
  BY FieldTypes DEF Good
<1>3. /\ "liveness_no_children" \in Causes /\ "liveness_has_children" \in Causes
      /\ "Idle" \in States /\ "Busy" \in States /\ NoCmd \in Commands \cup {NoCmd}
  BY DEF Causes, HighCauses, States
<1> SUFFICES Good(e) /\ Timely(d, e)
  OBVIOUS
<1> HIDE DEF e
<1>4. CASE d.state = "Busy" /\ e = SetState(d, "Idle", NoCmd, "liveness_no_children")
  <2> DEFINE f == SetState(d, "Idle", NoCmd, "liveness_no_children")
  <2>0. d.state = "Busy"
    BY <1>4
  <2>1. /\ f \in Detector /\ f.state = "Idle" /\ f.cmd = NoCmd /\ f.tui = d.tui
        /\ f.cause = "liveness_no_children" /\ f.err = d.err /\ f.out = d.out
        /\ f.att = AttentionDelay
    BY <1>2, <1>3, <2>0, SetStateNoCmdFields
  <2>2. e = f
    BY <1>4
  <2> HIDE DEF f
  <2>3. QED BY <1>4, <2>1, <2>2 DEF Good, Coupled, Timely
<1>5. CASE /\ d.state = "Busy" /\ ~d.tui
           /\ e = SetState(d, "Busy", d.cmd, "liveness_has_children")
  <2> DEFINE f == SetState(d, "Busy", d.cmd, "liveness_has_children")
  <2>0. d.state = "Busy"
    BY <1>5
  <2>1. /\ f \in Detector /\ f.state = "Busy" /\ f.cmd = d.cmd /\ f.tui = d.tui
        /\ f.cause = "liveness_has_children" /\ f.err = d.err /\ f.out = d.out
        /\ f.att = d.att
    BY <1>2, <1>3, <2>0, SetStateFields
  <2>2. e = f
    BY <1>5
  <2> HIDE DEF f
  <2>3. QED BY <1>5, <2>1, <2>2 DEF Good, Coupled, Timely
<1>6. CASE /\ d.state \in {"Idle", "Attention"} /\ ~d.tui
           /\ e = SetState(d, "Busy", NoCmd, "liveness_has_children")
  <2> DEFINE f == SetState(d, "Busy", NoCmd, "liveness_has_children")
  <2>0. d.state \in {"Idle", "Attention"}
    BY <1>6
  <2>1. /\ f \in Detector /\ f.state = "Busy" /\ f.cmd = NoCmd /\ f.tui = d.tui
        /\ f.cause = "liveness_has_children" /\ f.err = d.err /\ f.out = d.out
        /\ f.att = IF d.state = "Idle" THEN Off ELSE d.att
    BY <1>2, <1>3, <2>0, SetStateNoCmdFields
  <2>2. e = f
    BY <1>6
  <2> HIDE DEF f
  <2>3. QED BY <1>6, <2>1, <2>2 DEF Good, Coupled, Timely
<1>7. CASE e = d
  BY <1>7 DEF Good, Timely
<1>8. QED BY <1>1, <1>4, <1>5, <1>6, <1>7

LEMMA ElapseAllGood ==
    ASSUME NEW d, Good(d)
    PROVE  /\ Good(ElapseAll(d))
           /\ ElapseAll(d).state = d.state /\ ElapseAll(d).cause = d.cause
           /\ ElapseAll(d).att = Elapse(d.att) /\ ElapseAll(d).out = Elapse(d.out)
           /\ ElapseAll(d).tui = d.tui
<1> DEFINE e == ElapseAll(d)
<1>1. /\ Elapse(d.err) \in Off .. ErrorLinger /\ (Elapse(d.err) = Off <=> d.err = Off)
      /\ Elapse(d.att) \in Off .. AttentionDelay /\ (Elapse(d.att) = Off <=> d.att = Off)
      /\ Elapse(d.out) \in Off .. OutputIdle /\ (Elapse(d.out) = Off <=> d.out = Off)
  BY FieldTypes, DelaysAssumption DEF Elapse, Good, Off
<1>2. /\ e \in Detector /\ e.state = d.state /\ e.cause = d.cause /\ e.cmd = d.cmd
      /\ e.tui = d.tui /\ e.err = Elapse(d.err) /\ e.att = Elapse(d.att)
      /\ e.out = Elapse(d.out)
  BY <1>1 DEF ElapseAll, Good, Detector
<1> HIDE DEF e
<1>3. Good(e)
  BY <1>1, <1>2 DEF Good, Coupled
<1>4. QED BY <1>2, <1>3 DEF e

LEMMA InitialDetectorGood ==
    ASSUME NEW tui \in BOOLEAN
    PROVE  Good(InitialDetector(tui))
  BY DelaysAssumption
  DEF InitialDetector, Good, Coupled, Detector, States, LowerCauses, Off

-----------------------------------------------------------------------------
(* The driven detector.  Earned ties each armed deadline to its history: the *)
(* ticks that have passed and the ticks that are left make up the delay.     *)
Earned ==
    /\ detector.state = "Busy" /\ detector.out # Off => quiet + detector.out >= OutputIdle
    /\ detector.att # Off => idleFor + detector.att >= AttentionDelay

CallInv == CallTypeOK /\ Coupled(detector) /\ Earned

(* Every action but Tick applies one method, and the method is timely. *)
LEMMA CallStep ==
    ASSUME CallTypeOK, Coupled(detector),
           OutputCall \/ InputCall \/ DismissCall \/ ExitCall \/ ToolCall \/ LivenessCall \/ TimersCall
    PROVE  /\ Good(detector') /\ Timely(detector, detector') /\ StayIdle
           /\ quiet' \in 0 .. OutputIdle
           /\ quiet' = quiet \/ Refreshed(detector')
<1> USE DEF CallTypeOK
<1>1. Good(detector) /\ 0 \in 0 .. OutputIdle
  BY DelaysAssumption DEF Good
<1>2. CASE OutputCall
  BY <1>1, <1>2, ProcessOutputGood DEF OutputCall
<1>3. CASE InputCall
  BY <1>1, <1>3, NoteInputGood DEF InputCall
<1>4. CASE DismissCall
  BY <1>1, <1>4, DismissAttentionGood DEF DismissCall
<1>5. CASE ExitCall
  BY <1>1, <1>5, MarkExitedGood DEF ExitCall
<1>6. CASE ToolCall
  BY <1>1, <1>6, EnableTuiToolModeGood DEF ToolCall
<1>7. CASE LivenessCall
  BY <1>1, <1>7, ApplyProcessLivenessGood DEF LivenessCall
<1>8. CASE TimersCall
  BY <1>1, <1>8, CheckTimersGood DEF TimersCall
<1>9. QED BY <1>2, <1>3, <1>4, <1>5, <1>6, <1>7, <1>8

LEMMA SumBound == \A m, n \in Nat : m + n >= n
  OBVIOUS

LEMMA CallInvInit == CallInit => CallInv
<1> SUFFICES ASSUME CallInit PROVE CallInv
  OBVIOUS
<1>1. PICK tui \in BOOLEAN : detector = InitialDetector(tui)
  BY DEF CallInit
<1>2. Good(detector) /\ detector.out = Off /\ detector.att = Off
  BY <1>1, InitialDetectorGood DEF InitialDetector
<1>3. QED
  BY <1>2, DelaysAssumption DEF CallInit, CallInv, CallTypeOK, Good, Earned

LEMMA CallInvStep == CallInv /\ [CallNext]_callVars => CallInv'
<1> SUFFICES ASSUME CallInv, [CallNext]_callVars PROVE CallInv'
  OBVIOUS
<1> USE DEF CallInv
<1>1. CASE UNCHANGED callVars
  BY <1>1 DEF callVars, CallTypeOK, Coupled, Earned
<1>2. CASE OutputCall \/ InputCall \/ DismissCall \/ ExitCall \/ ToolCall \/ LivenessCall \/ TimersCall
  <2>1. /\ Good(detector') /\ Timely(detector, detector') /\ StayIdle /\ quiet' \in 0 .. OutputIdle
        /\ quiet' = quiet \/ Refreshed(detector')
    BY <1>2, CallStep
  <2>2. idleFor' \in 0 .. AttentionDelay
    BY <2>1, DelaysAssumption DEF StayIdle, CallTypeOK
  <2>3. CallTypeOK' /\ Coupled(detector)'
    BY <2>1, <2>2 DEF CallTypeOK, Good, Coupled
  <2>4. Earned'
    <3>1. detector'.state = "Busy" /\ detector'.out # Off => quiet' + detector'.out >= OutputIdle
      BY <2>1, <2>3, DelaysAssumption DEF Timely, Refreshed, Earned, CallTypeOK
    <3>2. detector'.att # Off => idleFor' + detector'.att >= AttentionDelay
      <4> SUFFICES ASSUME detector'.att # Off PROVE idleFor' + detector'.att >= AttentionDelay
        OBVIOUS
      <4>1. detector'.state = "Idle"
        BY <2>3 DEF Coupled
      <4>2. CASE detector'.att = AttentionDelay
        <5>1. idleFor' \in Nat /\ AttentionDelay \in Nat
          BY <2>2, DelaysAssumption
        <5>2. QED BY <4>2, <5>1, SumBound
      <4>3. CASE detector'.att # AttentionDelay
        <5>1. detector'.att = detector.att /\ detector.att # Off /\ detector.state = "Idle"
          BY <2>1, <4>3 DEF Timely, Coupled
        <5>2. QED BY <2>1, <4>1, <5>1 DEF StayIdle, Earned
      <4>4. QED BY <4>2, <4>3
    <3>3. QED BY <3>1, <3>2 DEF Earned
  <2>5. QED BY <2>3, <2>4
<1>3. CASE ClockTick
  <2>1. /\ Good(detector') /\ detector'.state = detector.state /\ detector'.att = Elapse(detector.att)
        /\ detector'.out = Elapse(detector.out)
    BY <1>3, ElapseAllGood DEF ClockTick, CallTypeOK, Good
  <2>2. quiet' = CapAt(quiet + 1, OutputIdle) /\ quiet' \in 0 .. OutputIdle
    BY <1>3, DelaysAssumption DEF ClockTick, CallTypeOK, CapAt
  <2>3. /\ idleFor' \in 0 .. AttentionDelay
        /\ detector.state = "Idle" => idleFor' = CapAt(idleFor + 1, AttentionDelay)
    BY <1>3, DelaysAssumption DEF ClockTick, CallTypeOK, CapAt
  <2>4. CallTypeOK' /\ Coupled(detector)'
    BY <2>1, <2>2, <2>3 DEF CallTypeOK, Good, Coupled
  <2>5. detector.out \in Int /\ detector.att \in Int /\ detector.out >= Off /\ detector.att >= Off
    BY FieldTypes DEF CallTypeOK
  <2>6. detector'.state = "Busy" /\ detector'.out # Off => quiet' + detector'.out >= OutputIdle
    BY <2>1, <2>2, <2>5, DelaysAssumption DEF Earned, Elapse, CapAt, CallTypeOK, Off
  <2>7. detector'.att # Off => idleFor' + detector'.att >= AttentionDelay
    <3>1. detector'.att # Off => detector.state = "Idle" /\ detector.att # Off
      BY <2>1, <2>5 DEF Elapse, Coupled, Off
    <3>2. QED
      BY <2>1, <2>3, <2>5, <3>1, DelaysAssumption DEF Earned, Elapse, CapAt, CallTypeOK, Off
  <2>8. QED BY <2>4, <2>6, <2>7 DEF Earned
<1>4. QED BY <1>1, <1>2, <1>3 DEF CallNext

LEMMA CallInductive == CallSpec => []CallInv
  BY CallInvInit, CallInvStep, PTL DEF CallSpec

(* The detector's state stays within its type, whatever calls its actor     *)
(* makes and in whatever order (StateDetector in state/detector.rs).         *)
THEOREM DetectorTyped == CallSpec => []CallTypeOK
<1>1. CallInv => CallTypeOK BY DEF CallInv
<1>2. QED BY <1>1, CallInductive, PTL

(* schedule_error_clear and clear_error_timer are called on every path into  *)
(* and out of Error: the deadline is pending exactly in that state.          *)
THEOREM ErrorIsTimed == CallSpec => []ErrorClearsItself(detector)
<1>1. CallInv => ErrorClearsItself(detector) BY DEF CallInv, Coupled, ErrorClearsItself
<1>2. QED BY <1>1, CallInductive, PTL

(* update_attention_timer_for_transition leaves no attention deadline        *)
(* behind when work resumes.                                                 *)
THEOREM AttentionIsIdle == CallSpec => []AttentionOnlyFromIdle(detector)
<1>1. CallInv => AttentionOnlyFromIdle(detector) BY DEF CallInv, Coupled, AttentionOnlyFromIdle
<1>2. QED BY <1>1, CallInductive, PTL

(* Whatever made a tool session busy, and whether tool mode or work came     *)
(* first, its silence deadline is armed (set_tui_tool_mode).                 *)
THEOREM BusyToolTimed == CallSpec => []BusyToolIsTimed(detector)
<1>1. CallInv => BusyToolIsTimed(detector) BY DEF CallInv, Coupled, BusyToolIsTimed
<1>2. QED BY <1>1, CallInductive, PTL

(* A current command outlives neither its work nor its error. *)
THEOREM CommandIsWorking == CallSpec => []CommandOnlyWhileWorking(detector)
<1>1. CallInv => CommandOnlyWhileWorking(detector) BY DEF CallInv, Coupled, CommandOnlyWhileWorking
<1>2. QED BY <1>1, CallInductive, PTL

(* All of these together: the deadlines and the command that the methods of  *)
(* StateDetector set and clear one by one always fit the state.              *)
THEOREM StatesTimed == CallSpec => []StatesAreTimed
BY ErrorIsTimed, AttentionIsIdle, BusyToolTimed, CommandIsWorking, PTL DEF StatesAreTimed, Timed

(* No call ends a turn for silence before OutputIdle silent ticks, and none  *)
(* asks for attention before AttentionDelay ticks of unbroken Idle.          *)
LEMMA DeadlineStep ==
    CallInv /\ [CallNext]_callVars =>
        /\ detector'.cause = "output_silence_expired" /\ detector.cause # "output_silence_expired"
              => quiet = OutputIdle
        /\ detector'.state = "Attention" /\ detector.state # "Attention" => idleFor = AttentionDelay
<1> SUFFICES ASSUME CallInv, [CallNext]_callVars
             PROVE  /\ detector'.cause = "output_silence_expired"
                       /\ detector.cause # "output_silence_expired" => quiet = OutputIdle
                    /\ detector'.state = "Attention" /\ detector.state # "Attention"
                          => idleFor = AttentionDelay
  OBVIOUS
<1>1. CASE UNCHANGED callVars
  BY <1>1 DEF callVars
<1>2. CASE OutputCall \/ InputCall \/ DismissCall \/ ExitCall \/ ToolCall \/ LivenessCall \/ TimersCall
  <2>1. Timely(detector, detector')
    BY <1>2, CallStep DEF CallInv
  <2>2. QED
    BY <2>1, DelaysAssumption DEF Timely, CallInv, Earned, CallTypeOK, Off
<1>3. CASE ClockTick
  BY <1>3, ElapseAllGood DEF ClockTick, CallInv, CallTypeOK, Good
<1>4. QED BY <1>1, <1>2, <1>3 DEF CallNext

(* A silence deadline left over from an earlier turn never cuts a later one  *)
(* short (check_timers and schedule_output_idle).                            *)
THEOREM SilenceEarned == CallSpec => SilenceIsReal
<1>1. CallInv /\ [CallNext]_callVars
        => [detector'.cause = "output_silence_expired" /\ detector.cause # "output_silence_expired"
              => quiet = OutputIdle]_callVars
  BY DeadlineStep
<1>2. QED BY <1>1, CallInductive, PTL DEF CallSpec, SilenceIsReal

(* Attention is asked for only after the session was Idle all along          *)
(* (check_timers and update_attention_timer_for_transition).                 *)
THEOREM AttentionEarned == CallSpec => AttentionIsEarned
<1>1. CallInv /\ [CallNext]_callVars
        => [detector'.state = "Attention" /\ detector.state # "Attention"
              => idleFor = AttentionDelay]_callVars
  BY DeadlineStep
<1>2. QED BY <1>1, CallInductive, PTL DEF CallSpec, AttentionIsEarned

(* Both deadlines of check_timers fire only for the spell they were set for. *)
THEOREM DeadlinesEarned == CallSpec => DeadlinesAreEarned
BY SilenceEarned, AttentionEarned DEF DeadlinesAreEarned

-----------------------------------------------------------------------------
(* The actor: the reads it holds. *)

Queued == [id : Nat, redraw : {r.redraw : r \in Reads}, data : {r.data : r \in Reads}]

\* A buffer of the guard: its reads, their data and its deadline.
Buffer(g) ==
    /\ g = [items |-> g.items, data |-> g.data, left |-> g.left]
    /\ g.items \in Seq(Nat)
    /\ g.left \in Never .. Coalesce
    /\ g.items # <<>> <=> g.left # Never

Bounded(g) == Len(g.items) < MaxBuffered \/ g.items = <<>>

Types ==
    /\ Buffer(guard)
    /\ emitted \in Seq(Nat) /\ ptyQ \in Seq(Queued) /\ read \in Nat

\* The reads are numbered on through what was emitted, what is held back and what
\* waits in the channel.
Numbered ==
    /\ read = Len(emitted) + Len(guard.items) + Len(ptyQ)
    /\ \A k \in 1 .. Len(emitted) : emitted[k] = k
    /\ \A k \in 1 .. Len(guard.items) : guard.items[k] = Len(emitted) + k
    /\ \A k \in 1 .. Len(ptyQ) : ptyQ[k].id = Len(emitted) + Len(guard.items) + k

Held == Bounded(guard) /\ (~running => guard.items = <<>>)

Inv == Types /\ Numbered /\ Held

-----------------------------------------------------------------------------
(* The guard. *)

LEMMA EmptyBuffer == Buffer(EmptyGuard) /\ EmptyGuard.items = <<>> /\ Bounded(EmptyGuard)
<1>1. EmptyGuard.items = <<>> /\ EmptyGuard.left = Never BY DEF EmptyGuard
<1>2. Never \in Never .. Coalesce BY ActorAssumption DEF ActorAssumption, Never
<1>3. EmptyGuard = [items |-> EmptyGuard.items, data |-> EmptyGuard.data, left |-> EmptyGuard.left]
  BY DEF EmptyGuard
<1> QED BY <1>1, <1>2, <1>3, EmptySeq DEF Buffer, Bounded

LEMMA BufferedRedraw ==
    ASSUME NEW g, Buffer(g), NEW r \in Queued
    PROVE  /\ Buffer(BufferRedraw(g, r))
           /\ BufferRedraw(g, r).items = Append(g.items, r.id)
<1>1. r.id \in Nat BY DEF Queued
<1>2. Coalesce \in Never .. Coalesce /\ Coalesce # Never
  BY ActorAssumption DEF ActorAssumption, Never
<1>3. CASE g.items = <<>>
  <2>1. BufferRedraw(g, r) = [items |-> <<r.id>>, data |-> r.data, left |-> Coalesce]
    BY <1>3 DEF BufferRedraw
  <2>2. <<r.id>> \in Seq(Nat) /\ <<r.id>> # <<>> /\ <<r.id>> = Append(<<>>, r.id) BY <1>1
  <2> QED BY <1>2, <1>3, <2>1, <2>2 DEF Buffer
<1>4. CASE g.items # <<>>
  <2>1. PICK items, data, left :
          g = [items |-> items, data |-> data, left |-> left]
    BY DEF Buffer
  <2>2. BufferRedraw(g, r) = [g EXCEPT !.items = Append(@, r.id), !.data = Merge(@, r.data)]
    BY <1>4 DEF BufferRedraw
  <2>3. PICK merged : merged = Merge(g.data, r.data) OBVIOUS
  <2>4. PICK appended : appended = Append(g.items, r.id) OBVIOUS
  <2>5. BufferRedraw(g, r) = [items |-> appended, data |-> merged, left |-> g.left]
    BY <2>1, <2>2, <2>3, <2>4
  <2>6. appended \in Seq(Nat) /\ appended # <<>> BY <1>1, <2>4, AppendProperties DEF Buffer
  <2> QED BY <1>4, <2>4, <2>5, <2>6 DEF Buffer
<1> QED BY <1>3, <1>4

\* What process emits, and the buffer it leaves, are the buffer and the read, in
\* this order.
Split(moved, g, all) ==
    /\ moved \in Seq(Nat) /\ Buffer(g) /\ Bounded(g)
    /\ Len(moved) + Len(g.items) = Len(all)
    /\ \A k \in 1 .. Len(moved) : moved[k] = all[k]
    /\ \A k \in 1 .. Len(g.items) : g.items[k] = all[Len(moved) + k]

LEMMA ProcessSplits ==
    ASSUME NEW g, Buffer(g), NEW r \in Queued, NEW inGrace
    PROVE  LET step == GuardProcess(g, r, inGrace) IN
           /\ step.first.items \in Seq(Nat) /\ step.second.items \in Seq(Nat)
           /\ Split(step.first.items \o step.second.items, step.guard, Append(g.items, r.id))
<1> DEFINE step == GuardProcess(g, r, inGrace)
           all == Append(g.items, r.id)
<1>1. r.id \in Nat /\ g.items \in Seq(Nat) /\ <<r.id>> \in Seq(Nat) /\ <<>> \in Seq(Nat)
  BY DEF Queued, Buffer
<1>2. all \in Seq(Nat) /\ Len(all) = Len(g.items) + 1 BY <1>1, AppendProperties
<1>3. all = g.items \o <<r.id>> BY <1>1, AppendIsConcat
<1>4. \A k \in 1 .. Len(all) : all[k] \in Nat BY <1>2, ElementOfSeq
<1> HIDE DEF all
<1>5. Split(all, EmptyGuard, all)
  BY <1>2, EmptyBuffer, EmptySeq DEF Split
<1>6. all \o <<>> = all /\ <<>> \o all = all /\ <<>> \o <<>> = <<>>
  BY <1>1, <1>2, ConcatEmptySeq
<1>7. CASE inGrace \/ ~r.redraw
  <2>1. step = PassThrough(g, [items |-> <<r.id>>, data |-> r.data])
    BY <1>7 DEF GuardProcess
  <2>2. step.first.items = g.items /\ step.second.items = <<r.id>> /\ step.guard = EmptyGuard
    BY <2>1 DEF PassThrough, Buffered
  <2> QED BY <1>1, <1>3, <1>5, <2>2 DEF all
<1>8. CASE ~ (inGrace \/ ~r.redraw)
  <2> DEFINE expired == g.items # <<>> /\ g.left = 0
             from == IF expired THEN EmptyGuard ELSE g
             buffered == BufferRedraw(from, r)
             full == Full(buffered)
  <2>1. step = [first  |-> IF expired THEN Buffered(g) ELSE Nothing,
                second |-> IF full THEN Buffered(buffered) ELSE Nothing,
                guard  |-> IF full THEN EmptyGuard ELSE buffered]
    BY <1>8 DEF GuardProcess
  <2>2. Buffer(from) BY EmptyBuffer
  <2>3. Buffer(buffered) /\ buffered.items = Append(from.items, r.id)
    BY <2>2, BufferedRedraw
  <2>4. ~ full => Bounded(buffered)
    <3>1. Len(buffered.items) \in Nat /\ MaxBuffered \in Nat
      BY <2>3, LenProperties, ActorAssumption DEF Buffer, ActorAssumption
    <3> QED BY <3>1 DEF Full, Bounded
  <2>5. Buffered(g).items = g.items /\ Buffered(buffered).items = buffered.items
        /\ Nothing.items = <<>>
    BY DEF Buffered, Nothing
  <2>6. /\ step.first.items = IF expired THEN g.items ELSE <<>>
        /\ step.second.items = IF full THEN buffered.items ELSE <<>>
        /\ step.guard = IF full THEN EmptyGuard ELSE buffered
    BY <2>1, <2>5
  <2>9. /\ expired => buffered.items = <<r.id>>
        /\ ~ expired => buffered.items = all
    BY <1>1, <2>3, EmptyBuffer DEF all
  <2> HIDE DEF expired, from, buffered, full, step
  <2>7. CASE expired
    <3>1. buffered.items = <<r.id>> BY <2>7, <2>9
    <3>2. CASE full
      <4>1. step.first.items = g.items /\ step.second.items = <<r.id>> /\ step.guard = EmptyGuard
        BY <2>6, <2>7, <3>1, <3>2
      <4> QED BY <1>1, <1>3, <1>5, <4>1 DEF all, step
    <3>3. CASE ~ full
      <4>1. step.first.items = g.items /\ step.second.items = <<>> /\ step.guard = buffered
        BY <2>6, <2>7, <3>3
      <4>2. g.items \o <<>> = g.items BY <1>1, ConcatEmptySeq
      <4>3. \A k \in 1 .. Len(g.items) : g.items[k] = all[k]
        BY <1>1, AppendProperties DEF all
      <4>4. all[Len(g.items) + 1] = r.id BY <1>1, AppendProperties DEF all
      <4>5. Len(<<r.id>>) = 1 /\ <<r.id>>[1] = r.id OBVIOUS
      <4>7. \A k \in 1 .. 1 : k = 1 OBVIOUS
      <4>8. g.items \in Seq(Nat) /\ Len(g.items) \in Nat BY <1>1, LenProperties
      <4>6. Split(g.items, buffered, all)
        <5>1. Len(g.items) + Len(buffered.items) = Len(all) BY <1>2, <3>1, <4>5, <4>8
        <5>2. \A k \in 1 .. Len(buffered.items) : buffered.items[k] = all[Len(g.items) + k]
          BY <3>1, <4>4, <4>5, <4>7
        <5> QED BY <2>3, <2>4, <3>3, <4>3, <4>8, <5>1, <5>2 DEF Split
      <4> QED BY <1>1, <4>1, <4>2, <4>6 DEF all, step
    <3> QED BY <3>2, <3>3
  <2>8. CASE ~ expired
    <3>1. buffered.items = all BY <2>8, <2>9
    <3>2. CASE full
      <4>1. step.first.items = <<>> /\ step.second.items = all /\ step.guard = EmptyGuard
        BY <2>6, <2>8, <3>1, <3>2
      <4> QED BY <1>1, <1>2, <1>5, <1>6, <4>1 DEF all, step
    <3>3. CASE ~ full
      <4>1. step.first.items = <<>> /\ step.second.items = <<>> /\ step.guard = buffered
        BY <2>6, <2>8, <3>3
      <4>2. Len(<<>>) = 0 OBVIOUS
      <4>3. Split(<<>>, buffered, all)
        BY <1>1, <1>2, <2>3, <2>4, <3>1, <3>3, <4>2 DEF Split
      <4> QED BY <1>1, <1>6, <4>1, <4>3 DEF all, step
    <3> QED BY <3>2, <3>3
  <2> QED BY <2>7, <2>8
<1> QED BY <1>7, <1>8

LEMMA EmitAppends ==
    ASSUME NEW p, NEW chunk, p.emitted \in Seq(Nat), chunk.items \in Seq(Nat)
    PROVE  Emit(p, chunk).emitted = p.emitted \o chunk.items
<1>1. CASE chunk.items = <<>>
  BY <1>1, ConcatEmptySeq DEF Emit
<1>2. CASE chunk.items # <<>>
  BY <1>2 DEF Emit
<1> QED BY <1>1, <1>2

-----------------------------------------------------------------------------
(* What the steps do to the numbers. *)

\* The buffer, and a read of the channel, move on without a change of order.
LEMMA MoveOn ==
    ASSUME Types, Numbered, ptyQ # <<>>, ptyQ' = Tail(ptyQ), UNCHANGED read,
           NEW moved, Split(moved, guard', Append(guard.items, Head(ptyQ).id)),
           emitted' = emitted \o moved
    PROVE  Types' /\ Numbered' /\ Bounded(guard')
<1> DEFINE r == Head(ptyQ)
           all == Append(guard.items, r.id)
<1>1. /\ r \in Queued /\ ptyQ' \in Seq(Queued) /\ Len(ptyQ') = Len(ptyQ) - 1
      /\ \A i \in 1 .. Len(ptyQ') : ptyQ'[i] = ptyQ[i + 1]
  BY HeadTailProperties DEF Types
<1>2. r = ptyQ[1] BY DEF Types
<1>3. guard.items \in Seq(Nat) /\ emitted \in Seq(Nat) /\ ptyQ \in Seq(Queued) /\ r.id \in Nat
  BY <1>1 DEF Types, Buffer, Queued
<1>4. Len(guard.items) \in Nat /\ Len(emitted) \in Nat /\ Len(ptyQ) \in Nat \ {0}
  BY <1>3, LenProperties, EmptySeq
<1>5. /\ Len(all) = Len(guard.items) + 1
      /\ \A i \in 1 .. Len(guard.items) : all[i] = guard.items[i]
      /\ all[Len(guard.items) + 1] = r.id
  BY <1>3, AppendProperties
<1>6. r.id = Len(emitted) + Len(guard.items) + 1 BY <1>2, <1>4 DEF Numbered
<1>7. \A k \in 1 .. Len(all) : all[k] = Len(emitted) + k
  <2> SUFFICES ASSUME NEW k \in 1 .. Len(all) PROVE all[k] = Len(emitted) + k
    OBVIOUS
  <2>1. CASE k \in 1 .. Len(guard.items) BY <1>5, <2>1 DEF Numbered
  <2>2. CASE k = Len(guard.items) + 1
    <3>1. all[k] = r.id BY <1>5, <2>2
    <3> QED BY ONLY <1>4, <1>6, <2>2, <3>1
  <2>3. k \in 1 .. Len(guard.items) \/ k = Len(guard.items) + 1 BY ONLY <1>4, <1>5, k \in 1 .. Len(all)
  <2> QED BY <2>1, <2>2, <2>3
<1>8. /\ moved \in Seq(Nat) /\ Buffer(guard') /\ Bounded(guard')
      /\ Len(moved) + Len(guard'.items) = Len(all)
      /\ \A k \in 1 .. Len(moved) : moved[k] = all[k]
      /\ \A k \in 1 .. Len(guard'.items) : guard'.items[k] = all[Len(moved) + k]
  BY DEF Split
<1>9. Len(moved) \in Nat /\ Len(guard'.items) \in Nat
  BY <1>8, LenProperties DEF Buffer
<1>10. /\ emitted' \in Seq(Nat) /\ Len(emitted') = Len(emitted) + Len(moved)
       /\ \A i \in 1 .. Len(emitted) + Len(moved) :
            emitted'[i] = IF i <= Len(emitted) THEN emitted[i] ELSE moved[i - Len(emitted)]
  BY <1>3, <1>8, ConcatProperties
<1>15. Len(emitted') + Len(guard'.items) = Len(emitted) + Len(guard.items) + 1
  <2>1. PICK e \in Nat : e = Len(emitted) BY <1>4
  <2>2. PICK h \in Nat : h = Len(guard.items) BY <1>4
  <2>3. PICK m \in Nat : m = Len(moved) BY <1>9
  <2>4. PICK n \in Nat : n = Len(guard'.items) BY <1>9
  <2>5. m + n = h + 1 BY <1>5, <1>8, <2>2, <2>3, <2>4
  <2>6. e + m + n = e + h + 1 BY ONLY <2>5, e \in Nat, h \in Nat, m \in Nat, n \in Nat
  <2> QED BY <1>10, <2>1, <2>2, <2>3, <2>4, <2>6
<1> HIDE DEF all, r
<1>11. \A k \in 1 .. Len(emitted') : emitted'[k] = k
  <2> SUFFICES ASSUME NEW k \in 1 .. Len(emitted') PROVE emitted'[k] = k
    OBVIOUS
  <2>1. CASE k <= Len(emitted) BY <1>4, <1>9, <1>10, <2>1 DEF Numbered
  <2>2. CASE ~ (k <= Len(emitted))
    <3>1. k - Len(emitted) \in 1 .. Len(moved) /\ k - Len(emitted) \in 1 .. Len(all)
      BY <1>4, <1>5, <1>8, <1>9, <1>10, <2>2
    <3>2. emitted'[k] = moved[k - Len(emitted)] BY <1>4, <1>9, <1>10, <2>2
    <3>3. moved[k - Len(emitted)] = Len(emitted) + (k - Len(emitted)) BY <1>7, <1>8, <3>1
    <3> QED BY <1>4, <3>2, <3>3
  <2> QED BY <2>1, <2>2
<1>12. \A k \in 1 .. Len(guard'.items) : guard'.items[k] = Len(emitted') + k
  <2> SUFFICES ASSUME NEW k \in 1 .. Len(guard'.items) PROVE guard'.items[k] = Len(emitted') + k
    OBVIOUS
  <2>1. Len(moved) + k \in 1 .. Len(all) BY <1>4, <1>5, <1>8, <1>9
  <2>2. guard'.items[k] = Len(emitted) + (Len(moved) + k) BY <1>7, <1>8, <2>1
  <2> QED BY <1>4, <1>9, <1>10, <2>2
<1>13. \A k \in 1 .. Len(ptyQ') : ptyQ'[k].id = Len(emitted') + Len(guard'.items) + k
  <2> SUFFICES ASSUME NEW k \in 1 .. Len(ptyQ')
               PROVE  ptyQ'[k].id = Len(emitted') + Len(guard'.items) + k
    OBVIOUS
  <2>1. k + 1 \in 1 .. Len(ptyQ) /\ ptyQ'[k] = ptyQ[k + 1] BY <1>1, <1>4
  <2>2. ptyQ'[k].id = Len(emitted) + Len(guard.items) + (k + 1) BY <2>1 DEF Numbered
  <2>3. Len(emitted') + Len(guard'.items) = Len(emitted) + Len(guard.items) + 1 BY <1>15
  <2>4. PICK e \in Nat : e = Len(emitted) BY <1>4
  <2>5. PICK h \in Nat : h = Len(guard.items) BY <1>4
  <2>6. k \in Nat BY <1>1, <1>4
  <2>7. e + h + (k + 1) = e + h + 1 + k BY ONLY e \in Nat, h \in Nat, k \in Nat
  <2> QED BY <2>2, <2>3, <2>4, <2>5, <2>7
<1>14. read' = Len(emitted') + Len(guard'.items) + Len(ptyQ')
  <2>1. read' = Len(emitted) + Len(guard.items) + Len(ptyQ) BY DEF Numbered
  <2>2. Len(emitted') + Len(guard'.items) = Len(emitted) + Len(guard.items) + 1 BY <1>15
  <2>3. PICK e \in Nat : e = Len(emitted) BY <1>4
  <2>4. PICK h \in Nat : h = Len(guard.items) BY <1>4
  <2>5. PICK q \in Nat \ {0} : q = Len(ptyQ) BY <1>4
  <2>6. e + h + q = e + h + 1 + (q - 1) BY ONLY e \in Nat, h \in Nat, q \in Nat \ {0}
  <2> QED BY <1>1, <2>1, <2>2, <2>3, <2>4, <2>5, <2>6
<1> QED BY <1>1, <1>8, <1>10, <1>11, <1>12, <1>13, <1>14 DEF Types, Numbered

\* A flush of the buffer.
LEMMA Flush ==
    ASSUME Types, Numbered, UNCHANGED <<ptyQ, read>>, guard' = EmptyGuard,
           emitted' = emitted \o guard.items
    PROVE  Types' /\ Numbered' /\ Bounded(guard')
<1>1. guard.items \in Seq(Nat) /\ emitted \in Seq(Nat) BY DEF Types, Buffer
<1>2. Len(guard.items) \in Nat /\ Len(emitted) \in Nat BY <1>1, LenProperties
<1>3. Buffer(guard') /\ guard'.items = <<>> /\ Len(guard'.items) = 0 /\ Bounded(guard')
  BY EmptyBuffer, EmptySeq
<1>4. /\ emitted' \in Seq(Nat) /\ Len(emitted') = Len(emitted) + Len(guard.items)
      /\ \A i \in 1 .. Len(emitted) + Len(guard.items) :
           emitted'[i] = IF i <= Len(emitted) THEN emitted[i] ELSE guard.items[i - Len(emitted)]
  BY <1>1, ConcatProperties
<1>5. Len(ptyQ) \in Nat BY LenProperties DEF Types
<1>6. \A k \in 1 .. Len(emitted') : emitted'[k] = k
  BY <1>2, <1>4 DEF Numbered
<1>7. \A k \in 1 .. Len(ptyQ') : ptyQ'[k].id = Len(emitted') + Len(guard'.items) + k
  BY <1>2, <1>3, <1>4, <1>5 DEF Numbered
<1>8. read' = Len(emitted') + Len(guard'.items) + Len(ptyQ')
  BY <1>2, <1>3, <1>4, <1>5 DEF Numbered
<1> QED BY <1>3, <1>4, <1>6, <1>7, <1>8 DEF Types, Numbered

-----------------------------------------------------------------------------
LEMMA InitInv == ASSUME Init PROVE Inv
<1>1. guard = EmptyGuard /\ emitted = <<>> /\ ptyQ = <<>> /\ read = 0 BY DEF Init
<1>2. Types BY <1>1, EmptyBuffer, EmptySeq DEF Types
<1>3. Len(emitted) = 0 /\ Len(ptyQ) = 0 /\ Len(guard.items) = 0 BY <1>1, EmptyBuffer, EmptySeq
<1>4. Numbered BY <1>1, <1>3 DEF Numbered
<1>5. Held BY <1>1, EmptyBuffer DEF Held
<1> QED BY <1>2, <1>4, <1>5 DEF Inv

LEMMA StepInv == ASSUME Inv, [Next]_vars PROVE Inv'
<1> USE DEF ptyVars, outVars
<1>1. Types /\ Numbered /\ Held BY DEF Inv
<1>2. ASSUME UNCHANGED <<running, guard, emitted, ptyQ, read>> PROVE Inv'
  BY <1>1, <1>2 DEF Inv, Types, Numbered, Held
<1>3. CASE ReaderRead
  <2>1. PICK r \in Reads :
          ptyQ' = Append(ptyQ, [id |-> read + 1, redraw |-> r.redraw, data |-> r.data])
    BY <1>3 DEF ReaderRead
  <2>2. read' = read + 1 /\ UNCHANGED <<running, guard, emitted>> BY <1>3 DEF ReaderRead
  <2>3. PICK item \in Queued :
          item.id = read + 1 /\ item = [id |-> read + 1, redraw |-> r.redraw, data |-> r.data]
    <3>1. read + 1 \in Nat BY <1>1 DEF Types
    <3> QED BY <3>1 DEF Queued
  <2>4. /\ ptyQ' \in Seq(Queued) /\ Len(ptyQ') = Len(ptyQ) + 1
        /\ \A i \in 1 .. Len(ptyQ) : ptyQ'[i] = ptyQ[i]
        /\ ptyQ'[Len(ptyQ) + 1] = item
    BY <1>1, <2>1, <2>3, AppendProperties DEF Types
  <2>5. Len(ptyQ) \in Nat /\ Len(emitted) \in Nat /\ Len(guard.items) \in Nat
    BY <1>1, LenProperties DEF Types, Buffer
  <2>6. \A k \in 1 .. Len(ptyQ') : ptyQ'[k].id = Len(emitted) + Len(guard.items) + k
    <3> SUFFICES ASSUME NEW k \in 1 .. Len(ptyQ')
                 PROVE  ptyQ'[k].id = Len(emitted) + Len(guard.items) + k
      OBVIOUS
    <3>1. CASE k \in 1 .. Len(ptyQ) BY <1>1, <2>4, <3>1 DEF Numbered
    <3>2. CASE k = Len(ptyQ) + 1
      <4>1. ptyQ'[k].id = read + 1 BY <2>3, <2>4, <3>2
      <4>2. read = Len(emitted) + Len(guard.items) + Len(ptyQ) BY <1>1 DEF Numbered
      <4>3. PICK e \in Nat : e = Len(emitted) BY <2>5
      <4>4. PICK h \in Nat : h = Len(guard.items) BY <2>5
      <4>5. PICK q \in Nat : q = Len(ptyQ) BY <2>5
      <4>6. e + h + q + 1 = e + h + (q + 1) BY ONLY e \in Nat, h \in Nat, q \in Nat
      <4> QED BY <3>2, <4>1, <4>2, <4>3, <4>4, <4>5, <4>6
    <3> QED BY <2>4, <2>5, <3>1, <3>2
  <2>7. read' \in Nat /\ read' = Len(emitted) + Len(guard.items) + Len(ptyQ')
    <3>1. read = Len(emitted) + Len(guard.items) + Len(ptyQ) BY <1>1 DEF Numbered
    <3>2. PICK e \in Nat : e = Len(emitted) BY <2>5
    <3>3. PICK h \in Nat : h = Len(guard.items) BY <2>5
    <3>4. PICK q \in Nat : q = Len(ptyQ) BY <2>5
    <3>5. e + h + q + 1 = e + h + (q + 1) /\ e + h + q + 1 \in Nat 
      BY ONLY e \in Nat, h \in Nat, q \in Nat
    <3> QED BY <2>2, <2>4, <3>1, <3>2, <3>3, <3>4, <3>5
  <2>8. Types' BY <1>1, <2>2, <2>4, <2>7 DEF Types
  <2>9. Numbered' BY <1>1, <2>2, <2>6, <2>7 DEF Numbered
  <2> QED BY <1>1, <2>2, <2>8, <2>9 DEF Inv, Held
<1>4. CASE PtyOutput
  <2>1. running /\ ptyQ # <<>> /\ ptyQ' = Tail(ptyQ) /\ UNCHANGED <<running, read>>
    BY <1>4 DEF PtyOutput
  <2>2. Head(ptyQ) \in Queued BY <1>1, <2>1, HeadTailProperties DEF Types
  <2>3. PICK step : step = GuardProcess(guard, Head(ptyQ), grace > 0) OBVIOUS
  <2>4. /\ step.first.items \in Seq(Nat) /\ step.second.items \in Seq(Nat)
        /\ Split(step.first.items \o step.second.items, step.guard,
                 Append(guard.items, Head(ptyQ).id))
    BY <1>1, <2>2, <2>3, ProcessSplits DEF Types
  <2>5. /\ guard' = step.guard
        /\ \E d \in {det, EnableTuiToolMode(det)} :
             emitted' = Emit(Emit([Pipeline EXCEPT !.det = d], step.first), step.second).emitted
    BY <1>4, <2>3 DEF PtyOutput, SetPipeline
  <2>6. PICK d : emitted' = Emit(Emit([Pipeline EXCEPT !.det = d], step.first), step.second).emitted
    BY <2>5
  <2>7. [Pipeline EXCEPT !.det = d].emitted = emitted BY DEF Pipeline
  <2>8. PICK p : p = Emit([Pipeline EXCEPT !.det = d], step.first) OBVIOUS
  <2>9. p.emitted = emitted \o step.first.items
    BY <1>1, <2>4, <2>7, <2>8, EmitAppends DEF Types
  <2>10. p.emitted \in Seq(Nat) BY <1>1, <2>4, <2>9, ConcatProperties DEF Types
  <2>11. emitted' = (emitted \o step.first.items) \o step.second.items
    BY <2>4, <2>6, <2>8, <2>9, <2>10, EmitAppends
  <2>12. emitted' = emitted \o (step.first.items \o step.second.items)
    <3>1. emitted \in Seq(Nat) BY <1>1 DEF Types
    <3>2. \A t, u \in Seq(Nat) : (emitted \o t) \o u = emitted \o (t \o u)
      <4> SUFFICES ASSUME NEW e \in Seq(Nat), NEW t \in Seq(Nat), NEW u \in Seq(Nat)
                   PROVE  (e \o t) \o u = e \o (t \o u)
        BY <3>1
      <4> DEFINE one == (e \o t) \o u
                 other == e \o (t \o u)
      <4>1. one \in Seq(Nat) /\ other \in Seq(Nat) OBVIOUS
      <4>2. Len(one) = Len(other) OBVIOUS
      <4>3. \A i \in 1 .. Len(one) : one[i] = other[i] OBVIOUS
      <4> HIDE DEF one, other
      <4> QED BY ONLY <4>1, <4>2, <4>3, SeqEqual
    <3> QED BY <2>4, <2>11, <3>2
  <2>13. Types' /\ Numbered' /\ Bounded(guard')
    BY <1>1, <2>1, <2>4, <2>5, <2>12, MoveOn
  <2> QED BY <2>1, <2>13 DEF Inv, Held
<1>5. CASE Shutdown
  <2>1. /\ UNCHANGED <<ptyQ, read>> /\ guard' = EmptyGuard
        /\ emitted' = Emit(Pipeline, Buffered(guard)).emitted
    BY <1>5 DEF Shutdown, SetPipeline
  <2>2. Pipeline.emitted = emitted /\ Buffered(guard).items = guard.items
    BY DEF Pipeline, Buffered
  <2>3. emitted' = emitted \o guard.items
    BY <1>1, <2>1, <2>2, EmitAppends DEF Types, Buffer
  <2>4. Types' /\ Numbered' /\ Bounded(guard') BY <1>1, <2>1, <2>3, Flush
  <2> QED BY <2>1, <2>4, EmptyBuffer DEF Inv, Held
<1>6. CASE FireTimers
  <2>1. UNCHANGED <<running, ptyQ, read>> /\ guard' = EmptyGuard BY <1>6 DEF FireTimers
  <2>2. PICK p : /\ p = Emit([Pipeline EXCEPT !.det = CheckTimers(@)], Buffered(guard))
                 /\ emitted' = p.emitted
    <3>1. PICK p \in {Emit([Pipeline EXCEPT !.det = CheckTimers(@)], Buffered(guard))} :
            IF PollDue(p.det)
            THEN \E d \in Poll(p.det) : SetPipeline([p EXCEPT !.det = d])
            ELSE SetPipeline(p)
      BY <1>6 DEF FireTimers
    <3>2. CASE ~ PollDue(p.det) BY <3>1, <3>2 DEF SetPipeline
    <3>3. CASE PollDue(p.det)
      <4>1. PICK d \in Poll(p.det) : SetPipeline([p EXCEPT !.det = d]) BY <3>1, <3>3
      <4>2. [p EXCEPT !.det = d].emitted = p.emitted
        <5>1. \/ p = [Pipeline EXCEPT !.det = CheckTimers(@)]
              \/ \E a, b, c, e : p = [det |-> a, clearRing |-> b, cleared |-> c, emitted |-> e]
          BY <3>1 DEF Emit
        <5>2. \E a, b, c, e : p = [det |-> a, clearRing |-> b, cleared |-> c, emitted |-> e]
          BY <5>1 DEF Pipeline
        <5> QED BY <5>2
      <4> QED BY <3>1, <4>1, <4>2 DEF SetPipeline
    <3> QED BY <3>2, <3>3
  <2>3. /\ [Pipeline EXCEPT !.det = CheckTimers(@)].emitted = emitted
        /\ Buffered(guard).items = guard.items
    BY DEF Pipeline, Buffered
  <2>4. emitted' = emitted \o guard.items
    BY <1>1, <2>2, <2>3, EmitAppends DEF Types, Buffer
  <2>5. Types' /\ Numbered' /\ Bounded(guard') BY <1>1, <2>1, <2>4, Flush
  <2> QED BY <2>1, <2>5, EmptyBuffer DEF Inv, Held
<1>7. CASE Tick
  <2>1. guard' = [guard EXCEPT !.left = Elapse(@)]
        /\ UNCHANGED <<running, emitted, ptyQ, read>>
    BY <1>7 DEF Tick
  <2>2. PICK items, data, left : guard = [items |-> items, data |-> data, left |-> left]
    BY <1>1 DEF Types, Buffer
  <2>3. PICK less : less = Elapse(left) OBVIOUS
  <2>4. guard' = [items |-> items, data |-> data, left |-> less] BY <2>1, <2>2, <2>3
  <2>5. left \in Never .. Coalesce /\ Coalesce \in Nat
    BY <1>1, <2>2, ActorAssumption DEF Types, Buffer, ActorAssumption
  <2>6. less \in Never .. Coalesce /\ (less = Never <=> left = Never)
    BY <2>3, <2>5 DEF Elapse, Never
  <2>7. Buffer(guard') BY <1>1, <2>2, <2>4, <2>6 DEF Types, Buffer
  <2>8. guard'.items = guard.items BY <2>2, <2>4
  <2> QED BY <1>1, <2>1, <2>7, <2>8 DEF Inv, Types, Numbered, Held, Bounded
<1>8. CASE ReaderEof \/ PtyEnd \/ Input \/ Dismiss
  BY <1>2, <1>8 DEF ReaderEof, PtyEnd, Input, Dismiss
<1>9. CASE UNCHANGED vars BY <1>2, <1>9 DEF vars
<1> QED BY <1>3, <1>4, <1>5, <1>6, <1>7, <1>8, <1>9 DEF Next

LEMMA Inductive == Spec => []Inv
<1>1. Init => Inv BY InitInv
<1>2. Inv /\ [Next]_vars => Inv' BY StepInv
<1> QED BY <1>1, <1>2, PTL DEF Spec

(***************************************************************************)
(* Coalescing never loses, repeats or reorders a read: ScrollGuard's       *)
(* process and flush with the emission of actor.rs, for any reads, bounds  *)
(* and timing.                                                             *)
(***************************************************************************)
THEOREM OutputStaysInOrder == Spec => []OutputInOrder
<1>1. ASSUME Inv PROVE OutputInOrder
  <2>1. emitted \in Seq(Nat) /\ guard.items \in Seq(Nat) /\ ptyQ \in Seq(Queued)
    BY <1>1 DEF Inv, Types, Buffer
  <2>2. Len(emitted) \in Nat /\ Len(guard.items) \in Nat /\ Len(ptyQ) \in Nat
    BY <2>1, LenProperties
  <2>3. InChannel \in Seq(Nat) /\ Len(InChannel) = Len(ptyQ)
    <3>0. \A k \in 1 .. Len(ptyQ) : ptyQ[k] \in Queued BY <2>1, ElementOfSeq
    <3>1. \A k \in 1 .. Len(ptyQ) : ptyQ[k].id \in Nat BY <3>0 DEF Queued
    <3>2. InChannel \in [1 .. Len(ptyQ) -> Nat] BY <3>1 DEF InChannel
    <3>3. InChannel \in Seq(Nat) BY <2>2, <3>2, SeqDef
    <3> QED BY <2>2, <3>2, <3>3
  <2>4. /\ emitted \o guard.items \in Seq(Nat)
        /\ Len(emitted \o guard.items) = Len(emitted) + Len(guard.items)
        /\ \A i \in 1 .. Len(emitted) + Len(guard.items) :
             (emitted \o guard.items)[i] =
                IF i <= Len(emitted) THEN emitted[i] ELSE guard.items[i - Len(emitted)]
    BY <2>1, ConcatProperties
  <2>5. PICK out \in Seq(Nat) : out = emitted \o guard.items BY <2>4
  <2>6. /\ Len(out) = Len(emitted) + Len(guard.items)
        /\ \A k \in 1 .. Len(out) : out[k] = k
    BY <1>1, <2>2, <2>4, <2>5 DEF Inv, Numbered
  <2>7. /\ out \o InChannel \in Seq(Nat)
        /\ Len(out \o InChannel) = Len(out) + Len(ptyQ)
        /\ \A i \in 1 .. Len(out) + Len(ptyQ) :
             (out \o InChannel)[i] = IF i <= Len(out) THEN out[i] ELSE InChannel[i - Len(out)]
    <3>1. \A t \in Seq(Nat) :
            /\ out \o t \in Seq(Nat)
            /\ Len(out \o t) = Len(out) + Len(t)
            /\ \A i \in 1 .. Len(out) + Len(t) :
                 (out \o t)[i] = IF i <= Len(out) THEN out[i] ELSE t[i - Len(out)]
      BY ONLY out \in Seq(Nat), ConcatProperties
    <3>2. PICK t \in Seq(Nat) : t = InChannel /\ Len(t) = Len(ptyQ) BY <2>3
    <3> QED BY <3>1, <3>2
  <2>8. \A i \in 1 .. Len(ptyQ) : InChannel[i] = Len(out) + i
    BY <1>1, <2>2, <2>6 DEF Inv, Numbered, InChannel
  <2>9. PICK n \in Nat : n = Len(emitted) + Len(guard.items) + Len(ptyQ) BY <2>2
  <2>10. PICK whole \in Seq(Nat) : whole = out \o InChannel BY <2>7
  <2>11. Len(whole) = n /\ \A k \in 1 .. n : whole[k] = k
    <3>1. Len(whole) = n BY ONLY <2>2, <2>6, <2>7, <2>9, <2>10
    <3>2. ASSUME NEW k \in 1 .. n PROVE whole[k] = k
      <4>1. whole[k] = IF k <= Len(out) THEN out[k] ELSE InChannel[k - Len(out)]
        BY ONLY <2>2, <2>6, <2>7, <2>9, <2>10, <3>1
      <4>2. CASE k <= Len(out) BY <2>6, <4>1, <4>2
      <4>3. CASE ~ (k <= Len(out))
        <5>1. k - Len(out) \in 1 .. Len(ptyQ) BY ONLY <2>2, <2>6, <2>9, <4>3, k \in 1 .. n
        <5>2. InChannel[k - Len(out)] = Len(out) + (k - Len(out)) BY <2>8, <5>1
        <5>3. Len(out) \in Nat BY <2>2, <2>6
        <5> QED BY <4>1, <4>3, <5>2, <5>3
      <4> QED BY <4>2, <4>3
    <3> QED BY <3>1, <3>2
  <2>12. whole = [k \in 1 .. n |-> k]
    <3>1. DOMAIN whole = 1 .. n /\ whole \in [1 .. n -> Nat] BY <2>10, <2>11, LenProperties
    <3> QED BY <2>11, <3>1
  <2> QED BY <2>5, <2>9, <2>10, <2>12 DEF OutputInOrder
<1> QED BY <1>1, Inductive, PTL

(***************************************************************************)
(* A redraw that is held back has a deadline and room, and a stopped actor *)
(* holds nothing back.                                                     *)
(***************************************************************************)
THEOREM HoldingBackIsBounded == Spec => []HeldBackIsBounded
<1>1. Inv => HeldBackIsBounded
  BY DEF Inv, Types, Buffer, Held, Bounded, HeldBackIsBounded
<1> QED BY <1>1, Inductive, PTL


-----------------------------------------------------------------------------
(* The actor calls the detector with chunks only, so it stays Good. *)

Fed == Good(det) /\ guard.data \in Chunk

LEMMA Timing == ASSUME NEW d, Good(d) PROVE Timed(d)
BY DEF Good, Coupled, Timed, ErrorClearsItself, AttentionOnlyFromIdle, BusyToolIsTimed,
       CommandOnlyWhileWorking

LEMMA ChunkFields ==
    ASSUME NEW osc \in {"none", "prompt", "command"}, NEW cmd \in Commands \cup {NoCmd},
           NEW text \in BOOLEAN, NEW prompt \in BOOLEAN, NEW error \in BOOLEAN,
           prompt \/ error => text, osc = "command" <=> cmd # NoCmd
    PROVE  [osc |-> osc, cmd |-> cmd, text |-> text, prompt |-> prompt, error |-> error] \in Chunk
BY DEF Chunk

LEMMA ChunkParts ==
    ASSUME NEW c \in Chunk
    PROVE  /\ c.osc \in {"none", "prompt", "command"} /\ c.cmd \in Commands \cup {NoCmd}
           /\ c.text \in BOOLEAN /\ c.prompt \in BOOLEAN /\ c.error \in BOOLEAN
           /\ c.prompt \/ c.error => c.text
           /\ c.osc = "command" <=> c.cmd # NoCmd
BY DEF Chunk

LEMMA NoDataIsAChunk == NoData \in Chunk /\ EmptyGuard.data = NoData /\ Nothing.data = NoData
<1>1. NoData \in Chunk BY ChunkFields DEF NoData
<1> QED BY <1>1 DEF EmptyGuard, Nothing

\* What the detector sees in two reads joined is what it can see in one.
LEMMA MergeIsAChunk == ASSUME NEW a \in Chunk, NEW b \in Chunk PROVE Merge(a, b) \in Chunk
<1> DEFINE osc == IF b.osc = "none" THEN a.osc ELSE b.osc
           cmd == IF b.osc = "none" THEN a.cmd ELSE b.cmd
           text == a.text \/ b.text
           prompt == IF b.text THEN b.prompt ELSE a.prompt
           error == b.error \/ (a.error /\ b.osc # "command")
<1>1. /\ osc \in {"none", "prompt", "command"} /\ cmd \in Commands \cup {NoCmd}
      /\ text \in BOOLEAN /\ prompt \in BOOLEAN /\ error \in BOOLEAN
      /\ prompt \/ error => text
      /\ osc = "command" <=> cmd # NoCmd
  BY ChunkParts
<1>2. Merge(a, b) = [osc |-> osc, cmd |-> cmd, text |-> text, prompt |-> prompt, error |-> error]
  BY DEF Merge
<1> HIDE DEF osc, cmd, text, prompt, error
<1> QED BY <1>1, <1>2, ChunkFields

LEMMA QueuedData == ASSUME NEW r \in Queued PROVE r.data \in Chunk /\ r.id \in Nat
BY ReadsAssumption DEF Queued, ReadsAssumption

LEMMA RedrawData ==
    ASSUME NEW g, Buffer(g), g.data \in Chunk, NEW r \in Queued
    PROVE  BufferRedraw(g, r).data \in Chunk
<1>1. r.data \in Chunk BY QueuedData
<1>2. CASE g.items = <<>> BY <1>1, <1>2 DEF BufferRedraw
<1>3. CASE g.items # <<>>
  <2>1. PICK items, data, left : g = [items |-> items, data |-> data, left |-> left] BY DEF Buffer
  <2>2. BufferRedraw(g, r) = [g EXCEPT !.items = Append(@, r.id), !.data = Merge(@, r.data)]
    BY <1>3 DEF BufferRedraw
  <2>3. PICK merged : merged = Merge(g.data, r.data) OBVIOUS
  <2>4. BufferRedraw(g, r).data = merged BY <2>1, <2>2, <2>3
  <2> QED BY <1>1, <2>3, <2>4, MergeIsAChunk
<1> QED BY <1>2, <1>3

LEMMA ProcessData ==
    ASSUME NEW g, Buffer(g), g.data \in Chunk, NEW r \in Queued, NEW inGrace
    PROVE  LET step == GuardProcess(g, r, inGrace) IN
           step.first.data \in Chunk /\ step.second.data \in Chunk /\ step.guard.data \in Chunk
<1> DEFINE step == GuardProcess(g, r, inGrace)
<1>1. r.data \in Chunk BY QueuedData
<1>2. Buffered(g).data = g.data BY DEF Buffered
<1>3. CASE inGrace \/ ~r.redraw
  <2>1. step = PassThrough(g, [items |-> <<r.id>>, data |-> r.data])
    BY <1>3 DEF GuardProcess
  <2>2. step.first.data = g.data /\ step.second.data = r.data /\ step.guard.data = NoData
    BY <1>2, <2>1, NoDataIsAChunk DEF PassThrough
  <2> QED BY <1>1, <2>2, NoDataIsAChunk
<1>4. CASE ~ (inGrace \/ ~r.redraw)
  <2> DEFINE expired == g.items # <<>> /\ g.left = 0
             from == IF expired THEN EmptyGuard ELSE g
             buffered == BufferRedraw(from, r)
             full == Full(buffered)
  <2>1. step = [first  |-> IF expired THEN Buffered(g) ELSE Nothing,
                second |-> IF full THEN Buffered(buffered) ELSE Nothing,
                guard  |-> IF full THEN EmptyGuard ELSE buffered]
    BY <1>4 DEF GuardProcess
  <2>2. Buffer(from) /\ from.data \in Chunk BY EmptyBuffer, NoDataIsAChunk
  <2>3. buffered.data \in Chunk BY <2>2, RedrawData
  <2>4. Buffered(buffered).data = buffered.data BY DEF Buffered
  <2> HIDE DEF expired, from, buffered, full
  <2> QED BY <1>2, <2>1, <2>3, <2>4, NoDataIsAChunk
<1> QED BY <1>3, <1>4

LEMMA ClassifyGood ==
    ASSUME NEW d, Good(d), NEW c \in Chunk PROVE Good(Classify(d, c))
<1>1. Good(ProcessOutput(d, c)) BY ProcessOutputGood
<1>2. Good(EnableTuiToolMode(ProcessOutput(d, c))) BY <1>1, EnableTuiToolModeGood
<1> QED BY <1>1, <1>2 DEF Classify

LEMMA EmitGood ==
    ASSUME NEW p, Good(p.det), NEW chunk, chunk.data \in Chunk
    PROVE  Good(Emit(p, chunk).det)
<1>1. Good(Classify(p.det, chunk.data)) BY ClassifyGood
<1>2. CASE chunk.items = <<>> BY <1>2 DEF Emit
<1>3. CASE chunk.items # <<>>
  <2>1. Emit(p, chunk).det = Classify(p.det, chunk.data) BY <1>3 DEF Emit
  <2> QED BY <1>1, <2>1
<1> QED BY <1>2, <1>3

LEMMA PollGood == ASSUME NEW d, Good(d), NEW e \in Poll(d) PROVE Good(e)
<1>1. \A c \in BOOLEAN : Good(ApplyProcessLiveness(d, c)) BY ApplyProcessLivenessGood
<1>2. Good(EnableTuiToolMode(ApplyProcessLiveness(d, TRUE))) BY <1>1, EnableTuiToolModeGood
<1> QED BY <1>1, <1>2 DEF Poll

LEMMA PipelineWith == ASSUME NEW d PROVE [Pipeline EXCEPT !.det = d].det = d
BY DEF Pipeline

LEMMA InitFed == Init => Fed
<1> SUFFICES ASSUME Init PROVE Fed OBVIOUS
<1>1. PICK tui \in BOOLEAN : det = InitialDetector(tui) BY DEF Init
<1>2. guard = EmptyGuard BY DEF Init
<1> QED BY <1>1, <1>2, InitialDetectorGood, NoDataIsAChunk DEF Fed

LEMMA StepFed == ASSUME Types, Fed, [Next]_vars PROVE Fed'
<1> USE DEF ptyVars, outVars
<1>1. Good(det) /\ guard.data \in Chunk /\ Buffer(guard) /\ ptyQ \in Seq(Queued)
  BY DEF Fed, Types
<1>2. CASE ReaderRead \/ ReaderEof BY <1>1, <1>2 DEF ReaderRead, ReaderEof, Fed
<1>3. CASE PtyOutput
  <2>1. Head(ptyQ) \in Queued BY <1>1, <1>3, HeadTailProperties DEF PtyOutput
  <2>2. PICK step : step = GuardProcess(guard, Head(ptyQ), grace > 0) OBVIOUS
  <2>3. step.first.data \in Chunk /\ step.second.data \in Chunk /\ step.guard.data \in Chunk
    BY <1>1, <2>1, <2>2, ProcessData
  <2>4. /\ guard' = step.guard
        /\ \E d \in {det, EnableTuiToolMode(det)} :
             det' = Emit(Emit([Pipeline EXCEPT !.det = d], step.first), step.second).det
    BY <1>3, <2>2 DEF PtyOutput, SetPipeline
  <2>5. PICK d \in {det, EnableTuiToolMode(det)} :
          det' = Emit(Emit([Pipeline EXCEPT !.det = d], step.first), step.second).det
    BY <2>4
  <2>6. Good([Pipeline EXCEPT !.det = d].det) BY <1>1, EnableTuiToolModeGood, PipelineWith
  <2>7. PICK p : p = Emit([Pipeline EXCEPT !.det = d], step.first) OBVIOUS
  <2>8. Good(p.det) BY <2>3, <2>6, <2>7, EmitGood
  <2>9. Good(det') BY <2>3, <2>5, <2>7, <2>8, EmitGood
  <2> QED BY <2>3, <2>4, <2>9 DEF Fed
<1>4. CASE PtyEnd
  <2>1. det' = MarkExited(det) /\ guard' = guard BY <1>4 DEF PtyEnd
  <2>2. Good(MarkExited(det)) BY <1>1, MarkExitedGood
  <2> QED BY <1>1, <2>1, <2>2 DEF Fed
<1>5. CASE Input
  <2>1. det' = NoteInput(det) /\ guard' = guard BY <1>5 DEF Input
  <2>2. Good(NoteInput(det)) BY <1>1, NoteInputGood
  <2> QED BY <1>1, <2>1, <2>2 DEF Fed
<1>6. CASE Dismiss
  <2>1. det' = DismissAttention(det) /\ guard' = guard BY <1>6 DEF Dismiss
  <2>2. Good(DismissAttention(det)) BY <1>1, DismissAttentionGood
  <2> QED BY <1>1, <2>1, <2>2 DEF Fed
<1>7. CASE Shutdown
  <2>1. det' = Emit(Pipeline, Buffered(guard)).det /\ guard' = EmptyGuard
    BY <1>7 DEF Shutdown, SetPipeline
  <2>2. Pipeline.det = det /\ Buffered(guard).data = guard.data BY DEF Pipeline, Buffered
  <2>3. Good(det') BY <1>1, <2>1, <2>2, EmitGood
  <2> QED BY <2>1, <2>3, NoDataIsAChunk DEF Fed
<1>8. CASE FireTimers
  <2>1. guard' = EmptyGuard BY <1>8 DEF FireTimers
  <2>2. PICK p \in {Emit([Pipeline EXCEPT !.det = CheckTimers(det)], Buffered(guard))} :
          IF PollDue(p.det)
          THEN \E d \in Poll(p.det) : SetPipeline([p EXCEPT !.det = d])
          ELSE SetPipeline(p)
    BY <1>8 DEF FireTimers, Pipeline
  <2>3. Buffered(guard).data = guard.data BY DEF Buffered
  <2>4. Good([Pipeline EXCEPT !.det = CheckTimers(det)].det)
    BY <1>1, CheckTimersGood, PipelineWith
  <2>5. Good(p.det) BY <1>1, <2>2, <2>3, <2>4, EmitGood
  <2>6. Good(det')
    <3>1. CASE ~ PollDue(p.det) BY <2>2, <2>5, <3>1 DEF SetPipeline
    <3>2. CASE PollDue(p.det)
      <4>1. PICK d \in Poll(p.det) : SetPipeline([p EXCEPT !.det = d]) BY <2>2, <3>2
      <4>2. \E a, b, c, e : p = [det |-> a, clearRing |-> b, cleared |-> c, emitted |-> e]
        BY <2>2 DEF Emit, Pipeline
      <4>3. det' = d BY <4>1, <4>2 DEF SetPipeline
      <4> QED BY <2>5, <4>3, PollGood
    <3> QED BY <3>1, <3>2
  <2> QED BY <2>1, <2>6, NoDataIsAChunk DEF Fed
<1>9. CASE Tick
  <2>1. det' = ElapseAll(det) /\ guard' = [guard EXCEPT !.left = Elapse(@)] BY <1>9 DEF Tick
  <2>2. PICK items, data, left : guard = [items |-> items, data |-> data, left |-> left]
    BY <1>1 DEF Buffer
  <2>3. guard'.data = guard.data BY <2>1, <2>2
  <2>4. Good(ElapseAll(det)) BY <1>1, ElapseAllGood
  <2> QED BY <1>1, <2>1, <2>3, <2>4 DEF Fed
<1>10. CASE UNCHANGED vars BY <1>1, <1>10 DEF vars, Fed
<1> QED BY <1>2, <1>3, <1>4, <1>5, <1>6, <1>7, <1>8, <1>9, <1>10 DEF Next

(***************************************************************************)
(* However the actor interleaves output, coalesced redraws, input, timers, *)
(* polls, tool detection and exit (run_iteration, process_output_chunk,    *)
(* fire_timers), its detector's deadlines and command fit its state.       *)
(***************************************************************************)
THEOREM DetectorCoupled == Spec => []DetectorStaysCoupled
<1>1. Init => Inv /\ Fed BY InitInv, InitFed
<1>2. Inv /\ Fed /\ [Next]_vars => (Inv /\ Fed)' BY StepInv, StepFed DEF Inv
<1>3. Inv /\ Fed => DetectorStaysCoupled BY Timing DEF Fed, DetectorStaysCoupled
<1> QED BY <1>1, <1>2, <1>3, PTL DEF Spec


\* The rest of the types: the bounds of the channel and the clocks, and where the
\* startup clear cut the ring.
Bounds ==
    /\ running \in BOOLEAN /\ readerDone \in BOOLEAN /\ ptyClosed \in BOOLEAN
    /\ Len(ptyQ) <= PtyBound
    /\ grace \in 0 .. InputGrace /\ poll \in 0 .. LivenessEvery
    /\ attach \in BOOLEAN /\ clearRing \in BOOLEAN
    /\ read \in 0 .. MaxReads
    /\ cleared \in 0 .. Len(emitted)

LEMMA ElapseIn == ASSUME NEW n \in Nat, NEW left \in 0 .. n PROVE Elapse(left) \in 0 .. n
BY DEF Elapse

Cut(p) ==
    /\ p.emitted \in Seq(Nat) /\ p.clearRing \in BOOLEAN
    /\ p.cleared \in 0 .. Len(p.emitted)

LEMMA EmitCut ==
    ASSUME NEW p, Cut(p), NEW chunk, chunk.items \in Seq(Nat)
    PROVE  Cut(Emit(p, chunk))
<1>1. CASE chunk.items = <<>> BY <1>1 DEF Emit
<1>2. CASE chunk.items # <<>>
  <2> DEFINE clear == p.clearRing /\ Classify(p.det, chunk.data).state = "Idle"
             e == Emit(p, chunk)
  <2>1. /\ e.clearRing = (p.clearRing /\ ~clear)
        /\ e.cleared = IF clear THEN Len(p.emitted) ELSE p.cleared
        /\ e.emitted = p.emitted \o chunk.items
    BY <1>2 DEF Emit
  <2>2. clear \in BOOLEAN BY DEF Cut
  <2> HIDE DEF clear, e
  <2>3. /\ e.emitted \in Seq(Nat) /\ Len(e.emitted) = Len(p.emitted) + Len(chunk.items)
        /\ Len(p.emitted) \in Nat /\ Len(chunk.items) \in Nat
    BY <2>1, ConcatProperties, LenProperties DEF Cut
  <2>4. e.cleared \in 0 .. Len(e.emitted)
    <3>1. e.cleared \in 0 .. Len(p.emitted) BY <2>1, <2>3 DEF Cut
    <3>2. PICK m \in Nat : m = Len(p.emitted) BY <2>3
    <3>3. PICK n \in Nat : n = Len(chunk.items) BY <2>3
    <3>4. \A i \in 0 .. m : i \in 0 .. m + n OBVIOUS
    <3> QED BY <2>3, <3>1, <3>2, <3>3, <3>4
  <2>5. e.clearRing \in BOOLEAN BY <2>1, <2>2 DEF Cut
  <2> QED BY <2>3, <2>4, <2>5 DEF Cut, e
<1> QED BY <1>1, <1>2

LEMMA InitBounds == Init => Bounds
<1> SUFFICES ASSUME Init PROVE Bounds OBVIOUS
<1>1. Len(ptyQ) = 0 /\ Len(emitted) = 0 BY DEF Init
<1>2. /\ InputGrace \in Nat /\ LivenessEvery \in Nat /\ PtyBound \in Nat /\ MaxReads \in Nat
  BY ActorAssumption DEF ActorAssumption
<1>3. attach \in BOOLEAN /\ clearRing = ~ attach BY DEF Init
<1>4. clearRing \in BOOLEAN BY <1>3
<1>5. /\ running = TRUE /\ readerDone = FALSE /\ ptyClosed = FALSE
      /\ grace = 0 /\ poll = LivenessEvery /\ read = 0 /\ cleared = 0
  BY DEF Init
<1>6. 0 \in 0 .. InputGrace /\ LivenessEvery \in 0 .. LivenessEvery /\ 0 \in 0 .. MaxReads
      /\ 0 \in 0 .. 0 /\ 0 <= PtyBound
  BY <1>2
<1> QED BY <1>1, <1>3, <1>4, <1>5, <1>6 DEF Bounds

LEMMA StepBounds == ASSUME Types, Bounds, [Next]_vars PROVE Bounds'
<1> USE DEF ptyVars, outVars
<1>0. /\ Coalesce \in Nat \ {0} /\ InputGrace \in Nat \ {0} /\ LivenessEvery \in Nat \ {0}
      /\ PtyBound \in Nat \ {0} /\ MaxReads \in Nat
  BY ActorAssumption DEF ActorAssumption
<1>1. /\ guard.items \in Seq(Nat) /\ Buffer(guard) /\ ptyQ \in Seq(Queued) /\ emitted \in Seq(Nat)
  BY DEF Types, Buffer
<1>2. Len(ptyQ) \in Nat /\ Len(emitted) \in Nat BY <1>1, LenProperties
<1>3. ASSUME NEW p, Cut(p), clearRing' = p.clearRing, emitted' = p.emitted, cleared' = p.cleared
      PROVE  clearRing' \in BOOLEAN /\ cleared' \in 0 .. Len(emitted')
  BY <1>3 DEF Cut
<1>4. ASSUME NEW d PROVE Cut([Pipeline EXCEPT !.det = d])
  BY <1>1 DEF Cut, Pipeline, Bounds
<1>5. CASE ReaderRead
  <2>1. PICK item : ptyQ' = Append(ptyQ, item) BY <1>5 DEF ReaderRead
  <2>2. Len(ptyQ') = Len(ptyQ) + 1 BY <1>1, <2>1
  <2>3. /\ Len(ptyQ) < PtyBound /\ read < MaxReads /\ read' = read + 1
        /\ UNCHANGED <<running, readerDone, ptyClosed, grace, poll, attach, clearRing, emitted, cleared>>
    BY <1>5 DEF ReaderRead
  <2>4. Len(ptyQ') <= PtyBound BY <1>0, <1>2, <2>2, <2>3
  <2>5. read' \in 0 .. MaxReads BY <1>0, <2>3 DEF Bounds
  <2> QED BY <2>3, <2>4, <2>5 DEF Bounds
<1>6. CASE ReaderEof \/ PtyEnd \/ Dismiss BY <1>6 DEF ReaderEof, PtyEnd, Dismiss, Bounds
<1>7. CASE PtyOutput
  <2>1. /\ ptyQ # <<>> /\ ptyQ' = Tail(ptyQ)
        /\ UNCHANGED <<running, readerDone, ptyClosed, grace, poll, attach, read>>
    BY <1>7 DEF PtyOutput
  <2>2. Head(ptyQ) \in Queued /\ Len(ptyQ') = Len(ptyQ) - 1 BY <1>1, <2>1, HeadTailProperties
  <2>3. PICK step : step = GuardProcess(guard, Head(ptyQ), grace > 0) OBVIOUS
  <2>4. step.first.items \in Seq(Nat) /\ step.second.items \in Seq(Nat)
    BY <1>1, <2>2, <2>3, ProcessSplits
  <2>5. PICK d : SetPipeline(Emit(Emit([Pipeline EXCEPT !.det = d], step.first), step.second))
    BY <1>7, <2>3 DEF PtyOutput
  <2>6. PICK p : p = Emit(Emit([Pipeline EXCEPT !.det = d], step.first), step.second) OBVIOUS
  <2>7. Cut(p) BY <1>4, <2>4, <2>6, EmitCut
  <2>8. clearRing' \in BOOLEAN /\ cleared' \in 0 .. Len(emitted')
    BY <1>3, <2>5, <2>6, <2>7 DEF SetPipeline
  <2>9. Len(ptyQ') <= PtyBound BY <1>0, <1>2, <2>2 DEF Bounds
  <2> QED BY <2>1, <2>8, <2>9 DEF Bounds
<1>8. CASE Input
  <2>1. grace' \in 0 .. InputGrace BY <1>0, <1>8 DEF Input
  <2> QED BY <1>8, <2>1 DEF Input, Bounds
<1>9. CASE Shutdown
  <2>1. PICK p : p = Emit(Pipeline, Buffered(guard)) /\ SetPipeline(p) BY <1>9 DEF Shutdown
  <2>2. Cut(Pipeline) BY <1>1 DEF Cut, Pipeline, Bounds
  <2>3. Cut(p) BY <1>1, <2>1, <2>2, EmitCut DEF Buffered
  <2>4. clearRing' \in BOOLEAN /\ cleared' \in 0 .. Len(emitted')
    BY <1>3, <2>1, <2>3 DEF SetPipeline
  <2>5. running' \in BOOLEAN /\ UNCHANGED <<readerDone, ptyClosed, ptyQ, grace, poll, attach, read>>
    BY <1>9 DEF Shutdown
  <2> QED BY <2>4, <2>5 DEF Bounds
<1>10. CASE FireTimers
  <2>1. UNCHANGED <<running, readerDone, ptyClosed, ptyQ, grace, attach, read>>
    BY <1>10 DEF FireTimers
  <2>2. poll' \in 0 .. LivenessEvery BY <1>0, <1>10 DEF FireTimers, Bounds
  <2>3. PICK p \in {Emit([Pipeline EXCEPT !.det = CheckTimers(det)], Buffered(guard))} :
          IF PollDue(p.det)
          THEN \E d \in Poll(p.det) : SetPipeline([p EXCEPT !.det = d])
          ELSE SetPipeline(p)
    BY <1>10 DEF FireTimers, Pipeline
  <2>4. Cut(p) BY <1>1, <1>4, <2>3, EmitCut DEF Buffered
  <2>5. \E a, b, c, e : p = [det |-> a, clearRing |-> b, cleared |-> c, emitted |-> e]
    BY <2>3 DEF Emit, Pipeline
  <2>6. clearRing' = p.clearRing /\ emitted' = p.emitted /\ cleared' = p.cleared
    <3>1. CASE ~ PollDue(p.det) BY <2>3, <3>1 DEF SetPipeline
    <3>2. CASE PollDue(p.det)
      <4>1. PICK d \in Poll(p.det) : SetPipeline([p EXCEPT !.det = d]) BY <2>3, <3>2
      <4> QED BY <2>5, <4>1 DEF SetPipeline
    <3> QED BY <3>1, <3>2
  <2>7. clearRing' \in BOOLEAN /\ cleared' \in 0 .. Len(emitted') BY <1>3, <2>4, <2>6
  <2> QED BY <2>1, <2>2, <2>7 DEF Bounds
<1>11. CASE Tick
  <2>1. /\ grace' = Elapse(grace) /\ poll' = Elapse(poll)
        /\ UNCHANGED <<running, readerDone, ptyClosed, ptyQ, attach, read, clearRing, emitted, cleared>>
    BY <1>11 DEF Tick
  <2>2. grace' \in 0 .. InputGrace /\ poll' \in 0 .. LivenessEvery
    BY <1>0, <2>1, ElapseIn DEF Bounds
  <2> QED BY <2>1, <2>2 DEF Bounds
<1>12. CASE UNCHANGED vars BY <1>12 DEF vars, Bounds
<1> QED BY <1>5, <1>6, <1>7, <1>8, <1>9, <1>10, <1>11, <1>12 DEF Next

(***************************************************************************)
(* The types of the actor: its channel and its clocks stay within their    *)
(* bounds, the data held back is what one read can carry, and the startup  *)
(* clear never drops what was not emitted.                                 *)
(***************************************************************************)
THEOREM TypeCorrect == Spec => []TypeOK
<1>1. Init => Inv /\ Fed /\ Bounds BY InitInv, InitFed, InitBounds
<1>2. Inv /\ Fed /\ Bounds /\ [Next]_vars => (Inv /\ Fed /\ Bounds)'
  BY StepInv, StepFed, StepBounds DEF Inv
<1>3. Inv /\ Fed /\ Bounds => TypeOK
  BY DEF Inv, Fed, Good, Types, Buffer, Bounds, TypeOK
<1> QED BY <1>1, <1>2, <1>3, PTL DEF Spec

-----------------------------------------------------------------------------
(* The actor implements OutputPipe. *)

Shown ==
    /\ emitted = Pipe!FirstReads(Len(emitted))
    /\ Len(emitted) \in Nat /\ read \in Nat /\ Len(emitted) <= read

LEMMA NumberedIsShown == ASSUME Inv PROVE Shown
<1>1. emitted \in Seq(Nat) /\ guard.items \in Seq(Nat) /\ ptyQ \in Seq(Queued) /\ read \in Nat
  BY DEF Inv, Types, Buffer
<1>2. Len(emitted) \in Nat /\ Len(guard.items) \in Nat /\ Len(ptyQ) \in Nat
  BY <1>1, LenProperties
<1>3. read = Len(emitted) + Len(guard.items) + Len(ptyQ) BY DEF Inv, Numbered
<1>4. Len(emitted) <= read
  <2>1. PICK e \in Nat : e = Len(emitted) BY <1>2
  <2>2. PICK h \in Nat : h = Len(guard.items) BY <1>2
  <2>3. PICK q \in Nat : q = Len(ptyQ) BY <1>2
  <2>4. e <= e + h + q BY ONLY e \in Nat, h \in Nat, q \in Nat
  <2> QED BY <1>3, <2>1, <2>2, <2>3, <2>4
<1>5. emitted \in [1 .. Len(emitted) -> Nat] BY <1>1, LenProperties
<1>6. \A k \in 1 .. Len(emitted) : emitted[k] = k BY DEF Inv, Numbered
<1>7. emitted = [k \in 1 .. Len(emitted) |-> k] BY <1>5, <1>6
<1> QED BY <1>1, <1>2, <1>4, <1>7 DEF Shown, Pipe!FirstReads

LEMMA Longer ==
    ASSUME NEW s \in Seq(Nat), NEW t \in Seq(Nat) PROVE Len(s) <= Len(s \o t)
<1>1. Len(s \o t) = Len(s) + Len(t) BY ConcatProperties
<1>2. Len(s) \in Nat /\ Len(t) \in Nat BY LenProperties
<1> QED BY <1>1, <1>2

LEMMA EmitGrows ==
    ASSUME NEW p, NEW chunk, p.emitted \in Seq(Nat), chunk.items \in Seq(Nat)
    PROVE  /\ Emit(p, chunk).emitted \in Seq(Nat)
           /\ Len(p.emitted) <= Len(Emit(p, chunk).emitted)
<1>1. Emit(p, chunk).emitted = p.emitted \o chunk.items BY EmitAppends
<1>2. p.emitted \o chunk.items \in Seq(Nat) BY ConcatProperties
<1>3. Len(p.emitted) <= Len(p.emitted \o chunk.items) BY Longer
<1> QED BY <1>1, <1>2, <1>3

LEMMA EmittedGrows ==
    ASSUME Inv, Next PROVE Len(emitted) <= Len(emitted') /\ Len(emitted) \in Nat
<1>1. emitted \in Seq(Nat) /\ guard.items \in Seq(Nat) /\ Len(emitted) \in Nat
  BY LenProperties DEF Inv, Types, Buffer
<1>2. Pipeline.emitted = emitted /\ Buffered(guard).items = guard.items BY DEF Pipeline, Buffered
<1>3. CASE UNCHANGED emitted BY <1>1, <1>3
<1>4. CASE PtyOutput
  <2>1. ptyQ # <<>> BY <1>4 DEF PtyOutput
  <2>2. Head(ptyQ) \in Queued BY <2>1, HeadTailProperties DEF Inv, Types
  <2>3. PICK step : step = GuardProcess(guard, Head(ptyQ), grace > 0) OBVIOUS
  <2>4. step.first.items \in Seq(Nat) /\ step.second.items \in Seq(Nat)
    BY <2>2, <2>3, ProcessSplits DEF Inv, Types
  <2>5. PICK d : emitted' = Emit(Emit([Pipeline EXCEPT !.det = d], step.first), step.second).emitted
    BY <1>4, <2>3 DEF PtyOutput, SetPipeline
  <2>6. [Pipeline EXCEPT !.det = d].emitted = emitted BY DEF Pipeline
  <2>7. PICK p : p = Emit([Pipeline EXCEPT !.det = d], step.first) OBVIOUS
  <2>8. p.emitted \in Seq(Nat) /\ Len(emitted) <= Len(p.emitted)
    BY <1>1, <2>4, <2>6, <2>7, EmitGrows
  <2>9. emitted' \in Seq(Nat) /\ Len(p.emitted) <= Len(emitted')
    BY <2>4, <2>5, <2>7, <2>8, EmitGrows
  <2>10. Len(p.emitted) \in Nat /\ Len(emitted') \in Nat BY <2>8, <2>9, LenProperties
  <2> QED BY <1>1, <2>8, <2>9, <2>10
<1>5. CASE Shutdown
  <2>1. emitted' = Emit(Pipeline, Buffered(guard)).emitted BY <1>5 DEF Shutdown, SetPipeline
  <2> QED BY <1>1, <1>2, <2>1, EmitGrows
<1>6. CASE FireTimers
  <2> DEFINE start == [Pipeline EXCEPT !.det = CheckTimers(@)]
  <2>1. PICK p \in {Emit(start, Buffered(guard))} :
          IF PollDue(p.det)
          THEN \E d \in Poll(p.det) : SetPipeline([p EXCEPT !.det = d])
          ELSE SetPipeline(p)
    BY <1>6 DEF FireTimers
  <2>2. start.emitted = emitted BY DEF Pipeline
  <2>3. Len(emitted) <= Len(p.emitted) BY <1>1, <1>2, <2>1, <2>2, EmitGrows
  <2>4. emitted' = p.emitted
    <3>1. CASE ~ PollDue(p.det) BY <2>1, <3>1 DEF SetPipeline
    <3>2. CASE PollDue(p.det)
      <4>1. PICK d \in Poll(p.det) : SetPipeline([p EXCEPT !.det = d]) BY <2>1, <3>2
      <4>2. \E a, b, c, e : p = [det |-> a, clearRing |-> b, cleared |-> c, emitted |-> e]
        BY <2>1 DEF Emit, Pipeline
      <4>3. [p EXCEPT !.det = d].emitted = p.emitted BY <4>2
      <4> QED BY <4>1, <4>3 DEF SetPipeline
    <3> QED BY <3>1, <3>2
  <2> QED BY <1>1, <2>3, <2>4
<1>7. CASE ReaderRead \/ ReaderEof \/ PtyEnd \/ Input \/ Dismiss \/ Tick
  BY <1>3, <1>7 DEF ReaderRead, ReaderEof, PtyEnd, Input, Dismiss, Tick, outVars
<1> QED BY <1>4, <1>5, <1>6, <1>7 DEF Next

(* Whatever the actor buffers, merges and classifies, and whatever its     *)
(* timers do, its output is that of a pipe: the reads in order, each once, *)
(* and nothing after it has stopped (scroll/guard.rs, run_iteration and    *)
(* process_output_chunk of session/actor.rs).                              *)
THEOREM ActorIsAPipe == Spec => IsAPipe
<1>1. Init => Pipe!Init BY DEF Init, Pipe!Init
<1>2. Inv /\ Shown' /\ [Next]_vars => [Pipe!Next]_(Pipe!pipeVars)
  <2> SUFFICES ASSUME Inv, Shown', [Next]_vars PROVE [Pipe!Next]_(Pipe!pipeVars) OBVIOUS
  <2>1. CASE UNCHANGED vars BY <2>1 DEF vars, Pipe!pipeVars
  <2>2. CASE ReaderRead
    BY <2>2 DEF ReaderRead, outVars, Pipe!Next, Pipe!Produce
  <2>3. CASE ReaderEof
    BY <2>3 DEF ReaderEof, outVars, Pipe!pipeVars
  <2>4. CASE PtyOutput \/ PtyEnd \/ Input \/ Dismiss \/ Shutdown \/ FireTimers \/ Tick
    <3>1. running /\ running' \in BOOLEAN /\ read' = read
      BY <2>4 DEF PtyOutput, PtyEnd, Input, Dismiss, Shutdown, FireTimers, Tick, ptyVars
    <3>2. PICK n : n = Len(emitted') OBVIOUS
    <3>3. Len(emitted) <= n /\ Len(emitted) \in Nat BY <2>4, <3>2, EmittedGrows DEF Next
    <3>4. n \in Nat /\ read \in Nat /\ n <= read /\ emitted' = Pipe!FirstReads(n)
      BY <3>1, <3>2 DEF Shown
    <3>5. n \in Len(emitted) .. read BY <3>3, <3>4
    <3> QED BY <3>1, <3>4, <3>5 DEF Pipe!Next, Pipe!Show
  <2> QED BY <2>1, <2>2, <2>3, <2>4 DEF Next
<1>3. Inv => Shown BY NumberedIsShown
<1> QED BY <1>1, <1>2, <1>3, Inductive, PTL DEF Spec, IsAPipe, Pipe!Spec

-----------------------------------------------------------------------------
(* The detector's parser, for any tokens of the forms ParserAssumption      *)
(* gives and any limit.                                                     *)

Kinds == {"prompt", "command"}
Long == {"EscIntermediate", "Csi", "Osc", "String"}

\* What the type of an escape state leaves out.
Tidy(e) ==
    /\ e \in EscapeState
    /\ e.mode \notin {"Osc", "String"} => ~ e.pending
    /\ e.mode # "Osc" => e.buf = << >>

LEMMA InFields ==
    ASSUME NEW m \in Modes
    PROVE  /\ In(m).mode = m /\ In(m).buf = << >> /\ In(m).pending = FALSE /\ In(m).consumed = 0
           /\ Tidy(In(m))
<1>1. 0 \in 0 .. Limit BY ParserAssumption
<1>2. << >> \in Seq(Byte) OBVIOUS
<1> QED BY <1>1, <1>2 DEF In, Normal, Tidy, EscapeState

LEMMA NormalFields == Normal.mode = "Normal" /\ Tidy(Normal) /\ In("Normal") = Normal
<1>1. In("Normal") = Normal BY DEF In, Normal
<1> QED BY <1>1, InFields DEF Modes

LEMMA CountedIs ==
    ASSUME NEW e \in EscapeState
    PROVE  Counted(e) = [mode |-> e.mode, buf |-> e.buf, pending |-> e.pending,
                         consumed |-> e.consumed + 1]
BY DEF Counted, EscapeState

LEMMA CountedFields ==
    ASSUME NEW e, Tidy(e), ~ OverLimit(e), NEW pending \in BOOLEAN, NEW buf \in Seq(Byte),
           e.mode \notin {"Osc", "String"} => ~ pending,
           e.mode # "Osc" => buf = << >>,
           NEW f, f = [mode |-> e.mode, buf |-> buf, pending |-> pending,
                       consumed |-> e.consumed + 1]
    PROVE  /\ Tidy(f) /\ f.mode = e.mode /\ f.consumed = e.consumed + 1
           /\ f.pending = pending /\ f.buf = buf
<1>1. e.consumed + 1 \in 0 .. Limit
  BY ParserAssumption DEF Tidy, EscapeState, OverLimit
<1>2. e \in EscapeState BY DEF Tidy
<1>3. e.mode \in Modes BY <1>2 DEF EscapeState
<1>4. /\ f.mode = e.mode /\ f.consumed = e.consumed + 1
      /\ f.pending = pending /\ f.buf = buf
  OBVIOUS
<1>5. f \in EscapeState BY <1>1, <1>3, pending \in BOOLEAN, buf \in Seq(Byte) DEF EscapeState
<1> QED BY <1>4, <1>5 DEF Tidy

LEMMA CountedAlone ==
    ASSUME NEW e, Tidy(e), ~ OverLimit(e)
    PROVE  /\ Tidy(Counted(e)) /\ Counted(e).mode = e.mode
           /\ Counted(e).consumed = e.consumed + 1
           /\ Counted(e).pending = e.pending /\ Counted(e).buf = e.buf
<1>1. e \in EscapeState BY DEF Tidy
<1>2. Counted(e) = [mode |-> e.mode, buf |-> e.buf, pending |-> e.pending,
                    consumed |-> e.consumed + 1]
  BY <1>1, CountedIs
<1>3. /\ e.pending \in BOOLEAN /\ e.buf \in Seq(Byte)
      /\ e.mode \notin {"Osc", "String"} => ~ e.pending
      /\ e.mode # "Osc" => e.buf = << >>
  BY DEF Tidy, EscapeState
<1> QED BY <1>2, <1>3, CountedFields

LEMMA GoesFields ==
    ASSUME NEW e PROVE Goes(e).esc = e /\ Goes(e).visible = << >> /\ Goes(e).markers = << >>
BY DEF Goes, Found

LEMMA MarkerKinds == ASSUME NEW buf PROVE MarkerOf(buf) \in Kinds \cup {"none"}
BY DEF MarkerOf, Kinds

-----------------------------------------------------------------------------
(* What a byte does to any state.  Inside a sequence it counts one more, or *)
(* ends the sequence; nothing inside shows, and at most a marker is found.  *)

LEMMA PushFields ==
    ASSUME NEW buf
    PROVE  /\ PushMarker(buf).esc = Normal /\ PushMarker(buf).visible = << >>
           /\ PushMarker(buf).markers = IF MarkerOf(buf) = "none" THEN << >> ELSE <<MarkerOf(buf)>>
BY DEF PushMarker, Found

LEMMA ConsumeArms ==
    ASSUME NEW e, NEW b
    PROVE  /\ e.mode = "Normal" => Consume(e, b) = ConsumeNormal(b)
           /\ e.mode = "Esc" => Consume(e, b) = ConsumeEscape(b)
           /\ e.mode = "EscIntermediate" => Consume(e, b) = ConsumeIntermediate(e, b)
           /\ e.mode = "Csi" => Consume(e, b) = ConsumeCsi(e, b)
           /\ e.mode = "Osc" => Consume(e, b) = ConsumeOsc(e, b)
           /\ e.mode = "String" => Consume(e, b) = ConsumeString(e, b)
BY DEF Consume

\* What the arms of the two string modes do to a state they stay in.
StaysAs(f, e, pending, buf) ==
    \/ f = [Counted(e) EXCEPT !.pending = pending, !.buf = buf]
    \/ f = [Counted(e) EXCEPT !.pending = pending] /\ buf = e.buf
    \/ f = [Counted(e) EXCEPT !.buf = buf] /\ (pending <=> e.pending)

StayedAs(f, e, pending, buf) ==
    /\ Tidy(f) /\ f.mode = e.mode /\ f.consumed = e.consumed + 1
    /\ f.pending = pending /\ f.buf = buf

LEMMA Stays ==
    ASSUME NEW e, Tidy(e), ~ OverLimit(e), e.mode \in {"Osc", "String"},
           NEW pending \in BOOLEAN, NEW buf \in Seq(Byte), e.mode # "Osc" => buf = << >>,
           NEW f, StaysAs(f, e, pending, buf)
    PROVE  StayedAs(f, e, pending, buf)
<1>1. PICK c : c = Counted(e) OBVIOUS
<1>2. /\ c \in EscapeState /\ c.mode = e.mode /\ c.consumed = e.consumed + 1
      /\ c.pending = e.pending /\ c.buf = e.buf
  BY <1>1, CountedAlone DEF Tidy
<1>3. /\ f \in EscapeState /\ f.mode = e.mode /\ f.consumed = e.consumed + 1
      /\ f.buf = buf
  BY <1>1, <1>2 DEF EscapeState, StaysAs
<1>4. f.pending = pending BY <1>1, <1>2 DEF EscapeState, StaysAs
<1> QED BY <1>3, <1>4 DEF Tidy, StayedAs

Stayed(p, e) ==
    /\ p.visible = << >> /\ p.markers = << >>
    /\ Tidy(p.esc) /\ p.esc.mode = e.mode /\ p.esc.consumed = e.consumed + 1

OscEnds(e, b) == IF e.pending THEN b = "st" ELSE b \in {"BEL", "9c"}

OscGoesOn(p, e, b) ==
    /\ Stayed(p, e)
    /\ p.esc.pending <=> b = "ESC" /\ ~ e.pending
    /\ p.esc.buf = IF b = "ESC" THEN e.buf ELSE Append(e.buf, b)

LEMMA OscArm ==
    ASSUME NEW e, Tidy(e), e.mode = "Osc", NEW b \in Byte, NEW p, p = Consume(e, b)
    PROVE  /\ OverLimit(e) => p = Goes(Normal)
           /\ ~ OverLimit(e) /\ OscEnds(e, b)
                => p = PushMarker(e.buf)
           /\ ~ OverLimit(e) /\ ~ OscEnds(e, b) => OscGoesOn(p, e, b)
<1>1. p = ConsumeOsc(e, b) BY ConsumeArms
<1>2. e.pending \in BOOLEAN /\ e.buf \in Seq(Byte) BY DEF Tidy, EscapeState
<1>3. CASE OverLimit(e) BY <1>1, <1>3 DEF ConsumeOsc, OscEnds
<1>4. CASE ~ OverLimit(e) /\ e.pending
  <2>1. CASE b = "st" BY <1>1, <1>4, <2>1 DEF ConsumeOsc, OscEnds
  <2>2. CASE b # "st"
    <3>1. PICK buf \in Seq(Byte) : buf = IF b = "ESC" THEN e.buf ELSE Append(e.buf, b)
      BY <1>2, AppendProperties
    <3>2. PICK f : f = [Counted(e) EXCEPT !.pending = FALSE, !.buf = buf] OBVIOUS
    <3>3. p = Goes(f)
      <4>1. e.buf = Counted(e).buf BY <1>4, CountedAlone
      <4>2. p = Goes([Counted(e) EXCEPT !.pending = FALSE,
                                        !.buf = IF b = "ESC" THEN @ ELSE Append(@, b)])
        BY <1>1, <1>4, <2>2 DEF ConsumeOsc, OscEnds
      <4> QED BY <3>1, <3>2, <4>1, <4>2
    <3>4. StayedAs(f, e, FALSE, buf)
      <4>1. StaysAs(f, e, FALSE, buf) BY <3>2 DEF StaysAs
      <4> QED BY <1>4, <4>1, Stays
    <3> QED BY <1>4, <2>2, <3>1, <3>3, <3>4, GoesFields DEF Stayed, StayedAs, OscEnds, OscGoesOn
  <2> QED BY <2>1, <2>2
<1>5. CASE ~ OverLimit(e) /\ ~ e.pending
  <2>1. CASE b \in {"BEL", "9c"} BY <1>1, <1>5, <2>1 DEF ConsumeOsc, OscEnds
  <2>2. CASE b = "ESC"
    <3>1. PICK f : f = [Counted(e) EXCEPT !.pending = TRUE] OBVIOUS
    <3>2. p = Goes(f) BY <1>1, <1>5, <2>2, <3>1 DEF ConsumeOsc, OscEnds
    <3>3. StayedAs(f, e, TRUE, e.buf)
      <4>1. StaysAs(f, e, TRUE, e.buf) BY <3>1 DEF StaysAs
      <4>2. e.mode \in {"Osc", "String"} /\ TRUE \in BOOLEAN OBVIOUS
      <4> QED BY <1>2, <1>5, <4>1, <4>2, Stays
    <3> QED BY <1>5, <2>2, <3>2, <3>3, GoesFields DEF Stayed, StayedAs, OscEnds, OscGoesOn
  <2>3. CASE b \notin {"BEL", "9c", "ESC"}
    <3>1. PICK buf \in Seq(Byte) : buf = Append(e.buf, b) BY <1>2, AppendProperties
    <3>2. PICK f : f = [Counted(e) EXCEPT !.buf = buf] OBVIOUS
    <3>3. p = Goes(f)
      <4>1. e.buf = Counted(e).buf BY <1>5, CountedAlone
      <4>2. p = Goes([Counted(e) EXCEPT !.buf = Append(@, b)])
        BY <1>1, <1>5, <2>3 DEF ConsumeOsc, OscEnds
      <4> QED BY <3>1, <3>2, <4>1, <4>2
    <3>4. StayedAs(f, e, FALSE, buf)
      <4>1. StaysAs(f, e, FALSE, buf) BY <1>5, <3>2 DEF StaysAs
      <4>2. e.mode \in {"Osc", "String"} /\ FALSE \in BOOLEAN OBVIOUS
      <4> QED BY <1>5, <4>1, <4>2, Stays
    <3> QED BY <1>5, <2>3, <3>1, <3>3, <3>4, GoesFields DEF Stayed, StayedAs, OscEnds, OscGoesOn
  <2> QED BY <2>1, <2>2, <2>3
<1> QED BY <1>2, <1>3, <1>4, <1>5

LEMMA StringArm ==
    ASSUME NEW e, Tidy(e), e.mode = "String", NEW b, NEW p, p = Consume(e, b)
    PROVE  /\ OverLimit(e) \/ b = (IF e.pending THEN "st" ELSE "9c") => p = Goes(Normal)
           /\ ~ OverLimit(e) /\ b # (IF e.pending THEN "st" ELSE "9c")
                => Stayed(p, e) /\ (p.esc.pending <=> b = "ESC")
<1>1. p = ConsumeString(e, b) BY ConsumeArms
<1>2. CASE OverLimit(e) \/ b = (IF e.pending THEN "st" ELSE "9c") BY <1>1, <1>2 DEF ConsumeString
<1>3. CASE ~ OverLimit(e) /\ b # (IF e.pending THEN "st" ELSE "9c")
  <2>1. PICK pending \in BOOLEAN : pending = (b = "ESC") OBVIOUS
  <2>2. PICK f : f = [Counted(e) EXCEPT !.pending = pending] OBVIOUS
  <2>3. p = Goes(f) BY <1>1, <1>3, <2>1, <2>2 DEF ConsumeString
  <2>4. e.buf = << >> /\ e.buf \in Seq(Byte) BY DEF Tidy, EscapeState
  <2>5. StayedAs(f, e, pending, e.buf)
    <3>1. StaysAs(f, e, pending, e.buf) BY <2>2 DEF StaysAs
    <3>2. e.mode \in {"Osc", "String"} OBVIOUS
    <3> QED BY <1>3, <2>4, <3>1, <3>2, Stays
  <2>6. Stayed(p, e) BY <2>3, <2>5, GoesFields DEF Stayed, StayedAs
  <2>7. p.esc.pending <=> b = "ESC" BY <2>1, <2>3, <2>5, GoesFields DEF StayedAs
  <2> QED BY <1>3, <2>6, <2>7
<1> QED BY <1>2, <1>3

LEMMA CsiArm ==
    ASSUME NEW e, Tidy(e), e.mode = "Csi", NEW b, NEW p, p = Consume(e, b)
    PROVE  /\ OverLimit(e) \/ b \in Finals => p = Goes(Normal)
           /\ ~ OverLimit(e) /\ b \notin Finals => Stayed(p, e)
<1>1. p = ConsumeCsi(e, b) BY ConsumeArms
<1>2. CASE OverLimit(e) \/ b \in Finals BY <1>1, <1>2 DEF ConsumeCsi
<1>3. CASE ~ OverLimit(e) /\ b \notin Finals
  <2>1. p = Goes(Counted(e)) BY <1>1, <1>3 DEF ConsumeCsi
  <2> QED BY <1>3, <2>1, GoesFields, CountedAlone DEF Stayed
<1> QED BY <1>2, <1>3

LEMMA IntermediateArm ==
    ASSUME NEW e, Tidy(e), e.mode = "EscIntermediate", NEW b, NEW p, p = Consume(e, b)
    PROVE  /\ OverLimit(e) \/ b # "sp" => p = Goes(Normal)
           /\ ~ OverLimit(e) /\ b = "sp" => Stayed(p, e)
<1>1. p = ConsumeIntermediate(e, b) BY ConsumeArms
<1>2. CASE OverLimit(e) \/ b # "sp" BY <1>1, <1>2 DEF ConsumeIntermediate
<1>3. CASE ~ OverLimit(e) /\ b = "sp"
  <2>1. p = Goes(Counted(e)) BY <1>1, <1>3 DEF ConsumeIntermediate
  <2> QED BY <1>3, <2>1, GoesFields, CountedAlone DEF Stayed
<1> QED BY <1>2, <1>3

\* A byte inside a sequence counts, or the sequence is over.
Marks == {<< >>} \cup {<<k>> : k \in Kinds}

LEMMA LongStep ==
    ASSUME NEW e, Tidy(e), e.mode \in Long, NEW b \in Byte, NEW p, p = Consume(e, b)
    PROVE  /\ p.visible = << >> /\ p.markers \in Marks
           /\ Tidy(p.esc)
           /\ \/ p.esc = Normal
              \/ p.esc.mode = e.mode /\ p.esc.consumed = e.consumed + 1
<1>1. Stayed(p, e) \/ p = Goes(Normal) \/ p = PushMarker(e.buf)
  <2>1. CASE e.mode = "EscIntermediate" BY <2>1, IntermediateArm
  <2>2. CASE e.mode = "Csi" BY <2>2, CsiArm
  <2>3. CASE e.mode = "Osc" BY <2>3, OscArm DEF OscGoesOn
  <2>4. CASE e.mode = "String" BY <2>4, StringArm
  <2> QED BY <2>1, <2>2, <2>3, <2>4 DEF Long
<1>2. CASE Stayed(p, e) BY <1>2 DEF Stayed, Marks
<1>3. CASE p = Goes(Normal) BY <1>3, GoesFields, NormalFields DEF Marks
<1>4. CASE p = PushMarker(e.buf)
  <2>1. p.markers \in Marks BY <1>4, PushFields, MarkerKinds DEF Marks
  <2> QED BY <1>4, <2>1, PushFields, NormalFields
<1> QED BY <1>1, <1>2, <1>3, <1>4

\* Outside, only an ESC or a C1 byte leaves Normal.
NormalTo(b) ==
    CASE b = "ESC" -> In("Esc") [] b = "9b" -> In("Csi") [] b = "9d" -> In("Osc")
      [] b = "90" -> In("String") [] OTHER -> Normal
EscapeTo(b) ==
    CASE b = "[" -> In("Csi") [] b = "]" -> In("Osc") [] b = "P" -> In("String")
      [] b = "sp" -> In("EscIntermediate") [] OTHER -> Normal

LEMMA NormalStep ==
    ASSUME NEW e, e = Normal, NEW b \in Byte, NEW p, p = Consume(e, b)
    PROVE  /\ p.markers = << >> /\ Tidy(p.esc)
           /\ p.visible = IF b \in Printable THEN <<b>> ELSE << >>
           /\ p.esc = NormalTo(b)
<1>1. p = ConsumeNormal(b) BY ConsumeArms, NormalFields
<1>2. CASE b \in Printable
  <2>1. p = Found(Normal, <<b>>, << >>) BY <1>1, <1>2 DEF ConsumeNormal, Printable
  <2>2. p.esc = Normal /\ p.visible = <<b>> /\ p.markers = << >> BY <2>1 DEF Found
  <2> QED BY <1>2, <2>2, NormalFields DEF Printable, NormalTo
<1>3. CASE b \notin Printable
  <2>1. PICK f : f = NormalTo(b) OBVIOUS
  <2>2. p = Goes(f) BY <1>1, <1>3, <2>1 DEF ConsumeNormal, NormalTo
  <2>3. Tidy(f) BY <2>1, InFields, NormalFields DEF Modes, NormalTo
  <2> QED BY <1>3, <2>1, <2>2, <2>3, GoesFields
<1> QED BY <1>2, <1>3

LEMMA EscapeStep ==
    ASSUME NEW e, e = In("Esc"), NEW b \in Byte, NEW p, p = Consume(e, b)
    PROVE  /\ p.markers = << >> /\ p.visible = << >> /\ Tidy(p.esc)
           /\ p.esc = EscapeTo(b)
<1>1. p = ConsumeEscape(b) BY ConsumeArms, InFields DEF Modes
<1>2. PICK f : f = EscapeTo(b) OBVIOUS
<1>3. p = Goes(f) BY <1>1, <1>2 DEF ConsumeEscape, EscapeTo
<1>4. Tidy(f) BY <1>2, InFields, NormalFields DEF Modes, EscapeTo
<1> QED BY <1>2, <1>3, <1>4, GoesFields

-----------------------------------------------------------------------------
(* What the tokens look like. *)

LEMMA TokenForms ==
    ASSUME NEW t \in Tokens
    PROVE  /\ t \in Seq(Byte) /\ Len(t) \in Nat \ {0}
           /\ \A k \in 1 .. Len(t) : t[k] \in Byte
           /\ Plain(t) \/ Introduced(t)
           /\ t \in Unfinished => Introduced(t)
           /\ t \notin Unfinished /\ ~ Plain(t) => Terminated(t) /\ Len(t) - Intro(t) <= Limit
<1>1. t \in Seq(Byte) /\ t # << >> BY ParserAssumption
<1>2. Len(t) \in Nat \ {0} BY <1>1, EmptySeq
<1> QED BY <1>1, <1>2, ParserAssumption, ElementOfSeq

LEMMA Intros ==
    ASSUME NEW t \in Tokens, Introduced(t)
    PROVE  /\ ~ Plain(t) /\ Intro(t) \in {1, 2} /\ Intro(t) <= Len(t)
           /\ Opens(t) \in Long
           /\ Opens(t) = "EscIntermediate" => Intro(t) = 2
           /\ t[Intro(t)] # "ESC"
           /\ t[1] = "ESC" <=> Intro(t) = 2
<1>1. Len(t) \in Nat \ {0} BY TokenForms
<1>2. t[1] \in C1 \/ (t[1] = "ESC" /\ Len(t) > 1 /\ t[2] \in {"[", "]", "P", "sp"})
  BY DEF Introduced
<1>3. CASE t[1] \in C1
  <2>1. t[1] \notin Printable \cup {"high"} /\ t[1] # "ESC" BY <1>3 DEF C1, Printable
  <2>2. Intro(t) = 1 BY <2>1 DEF Intro
  <2>3. Opens(t) \in Long \ {"EscIntermediate"} BY <1>3 DEF C1, Opens, Begins, Long
  <2> QED BY <1>1, <2>1, <2>2, <2>3 DEF Plain
<1>4. CASE t[1] = "ESC" /\ Len(t) > 1 /\ t[2] \in {"[", "]", "P", "sp"}
  <2>1. t[1] \notin Printable \cup {"high"} BY <1>4 DEF Printable
  <2>2. Intro(t) = 2 /\ t[2] # "ESC" BY <1>4 DEF Intro
  <2>3. Opens(t) \in Long BY DEF Opens, Long
  <2> QED BY <1>1, <1>4, <2>1, <2>2, <2>3 DEF Plain
<1> QED BY <1>2, <1>3, <1>4

\* An introducer, byte by byte.
LEMMA Opening ==
    ASSUME NEW t \in Tokens, Introduced(t), NEW k \in {0, 1}, k < Intro(t),
           NEW e, e = IF k = 0 THEN Normal ELSE In("Esc"), NEW p, p = Consume(e, t[k + 1])
    PROVE  /\ p.visible = << >> /\ p.markers = << >> /\ Tidy(p.esc)
           /\ p.esc = IF k + 1 < Intro(t) THEN In("Esc") ELSE In(Opens(t))
<1>0. /\ Intro(t) \in {1, 2} /\ Intro(t) <= Len(t) /\ t[1] \in Byte
      /\ Intro(t) = 2 => t[2] \in Byte
      /\ t[1] = "ESC" <=> Intro(t) = 2
  BY TokenForms, Intros
<1>1. CASE k = 0
  <2>1. t[1] \in C1 \cup {"ESC"} /\ t[1] \notin Printable BY DEF Introduced, C1, Printable
  <2>2. PICK b \in Byte : b = t[1] /\ b = t[k + 1] BY <1>0, <1>1
  <2>3. /\ p.visible = << >> /\ p.markers = << >> /\ Tidy(p.esc)
        /\ p.esc = NormalTo(b)
    <3>1. e = Normal /\ p = Consume(e, b) /\ b \notin Printable BY <1>1, <2>1, <2>2
    <3>2. p.visible = << >> BY ONLY <3>1, NormalStep, b \in Byte
    <3> QED BY ONLY <3>1, <3>2, NormalStep, b \in Byte
  <2>4. CASE b = "ESC" BY <1>0, <1>1, <2>2, <2>3, <2>4 DEF NormalTo
  <2>5. CASE b \in C1
    <3>1. Intro(t) = 1 BY <1>0, <2>2, <2>5 DEF C1
    <3>2. p.esc = In(Opens(t)) BY <2>2, <2>3, <2>5 DEF C1, Opens, Begins, NormalTo
    <3> QED BY <1>1, <2>3, <3>1, <3>2
  <2> QED BY <2>1, <2>2, <2>4, <2>5
<1>2. CASE k = 1
  <2>1. Intro(t) = 2 /\ t[1] = "ESC" /\ t[2] \in {"[", "]", "P", "sp"}
    BY <1>0, <1>2 DEF Introduced, C1
  <2>2. /\ p.visible = << >> /\ p.markers = << >> /\ Tidy(p.esc)
        /\ p.esc = EscapeTo(t[2])
    BY <1>0, <1>2, <2>1, EscapeStep
  <2>3. p.esc = In(Opens(t)) BY <2>1, <2>2 DEF Opens, Begins, EscapeTo
  <2> QED BY <1>2, <2>1, <2>2, <2>3
<1> QED BY <1>1, <1>2

-----------------------------------------------------------------------------
(* In step with the output: after k bytes of a token the parser is where    *)
(* the token leaves a parser that began it in Normal.                       *)

InBody(t, k, e) ==
    /\ e.mode = Opens(t) /\ e.consumed = k - Intro(t)
    /\ Opens(t) \in {"Osc", "String"} => (e.pending <=> t[k] = "ESC")
    /\ Opens(t) = "Osc" =>
          e.buf = SubSeq(t, Intro(t) + 1, IF t[k] = "ESC" THEN k - 1 ELSE k)

InStep(t, k, e) ==
    IF k = 0 \/ Plain(t) THEN e = Normal
    ELSE IF k < Intro(t) THEN e = In("Esc")
    ELSE InBody(t, k, e)

LEMMA Begun == ASSUME NEW t \in Tokens, Introduced(t) PROVE InBody(t, Intro(t), In(Opens(t)))
<1>1. /\ Intro(t) \in Int /\ Opens(t) \in Modes /\ t[Intro(t)] # "ESC"
  BY Intros DEF Long, Modes
<1>2. SubSeq(t, Intro(t) + 1, Intro(t)) = << >> BY <1>1, SubSeqEmpty
<1>3. PICK f : /\ f = In(Opens(t)) /\ f.mode = Opens(t) /\ f.buf = << >> /\ ~ f.pending
               /\ f.consumed = 0
  BY <1>1, InFields
<1> QED BY <1>1, <1>2, <1>3 DEF InBody

LEMMA SubSeqGrows ==
    ASSUME NEW t \in Seq(Byte), NEW m \in Nat \ {0}, NEW n \in Nat, m <= n + 1, n < Len(t)
    PROVE  /\ SubSeq(t, m, n) \in Seq(Byte)
           /\ Append(SubSeq(t, m, n), t[n + 1]) = SubSeq(t, m, n + 1)
<1>1. m \in 1 .. Len(t) /\ n + 1 \in m .. Len(t) /\ (n + 1) - 1 = n OBVIOUS
<1>2. SubSeq(t, m, n + 1) = SubSeq(t, m, n) \o <<t[n + 1]>> BY <1>1, SubSeqRecursiveSecond
<1>3. SubSeq(t, m, n) \in Seq(Byte)
  <2>1. \A i \in m .. n : t[i] \in Byte BY ElementOfSeq
  <2> QED BY <2>1, SubSeqProperties
<1>4. t[n + 1] \in Byte BY ElementOfSeq
<1> QED BY <1>2, <1>3, <1>4, AppendIsConcat

LEMMA OwesItsMarker ==
    ASSUME NEW t, t \notin Unfinished, ~ Plain(t), Opens(t) = "Osc", Body(t) \in Seq(Byte)
    PROVE  MarkerOf(Body(t)) = Owes(t)
<1>1. PICK b \in Seq(Byte) : b = Body(t) OBVIOUS
<1>n. PICK n \in Nat : n = Len(b) BY LenProperties
<1> DEFINE named(kind) == n > 1 /\ b[1] = "133" /\ b[2] = kind /\ (n > 2 => b[3] = "cmd")
<1>2. Owes(t) = IF named("A") THEN "prompt" ELSE IF named("C") THEN "command" ELSE "none"
  BY <1>1, <1>n DEF Owes, Names
<1>3. MarkerOf(b) = IF named("A") THEN "prompt" ELSE IF named("C") THEN "command" ELSE "none"
  <2>1. CASE n < 2 \/ b[1] # "133"
    <3>1. ~ named("A") /\ ~ named("C") BY ONLY <2>1, n \in Nat
    <3>2. MarkerOf(b) = "none" BY <1>1, <1>n, <2>1 DEF MarkerOf
    <3> QED BY <3>1, <3>2
  <2>2. CASE ~ (n < 2 \/ b[1] # "133") /\ n > 2 /\ b[3] # "cmd"
    <3>1. ~ named("A") /\ ~ named("C") BY ONLY <2>2, n \in Nat
    <3>2. MarkerOf(b) = "none" BY <1>1, <1>n, <2>2 DEF MarkerOf
    <3> QED BY <3>1, <3>2
  <2>3. CASE ~ (n < 2 \/ b[1] # "133") /\ ~ (n > 2 /\ b[3] # "cmd")
    <3>1. (named("A") <=> b[2] = "A") /\ (named("C") <=> b[2] = "C") BY ONLY <2>3, n \in Nat
    <3>2. MarkerOf(b) = IF b[2] = "A" THEN "prompt" ELSE IF b[2] = "C" THEN "command" ELSE "none"
      BY <1>1, <1>n, <2>3 DEF MarkerOf
    <3> HIDE DEF named
    <3> QED BY <3>1, <3>2
  <2> QED BY <2>1, <2>2, <2>3
<1> QED BY <1>1, <1>2, <1>3

\* Where a byte of a string or an OSC token stands: in the payload, at a
\* terminator of one byte, or at the first or the second byte of ESC "st".
Inner(t, k) == k + 1 <= LastOfBody(t) /\ k + 1 < Len(t) /\ t[k] # "ESC"
               /\ t[k + 1] \notin {"9c", "ESC"} /\ (Opens(t) = "Osc" => t[k + 1] # "BEL")
Ends(t, k) == k = LastOfBody(t) /\ k + 1 = Len(t) /\ t[k] # "ESC"
              /\ (t[k + 1] = "9c" \/ (Opens(t) = "Osc" /\ t[k + 1] = "BEL"))
Closes(t, k) == k = LastOfBody(t) /\ k + 2 = Len(t) /\ t[k] # "ESC" /\ t[k + 1] = "ESC"
Closed(t, k) == k = LastOfBody(t) + 1 /\ k + 1 = Len(t) /\ t[k] = "ESC" /\ t[k + 1] = "st"

LEMMA Placed ==
    ASSUME NEW t \in Tokens, Introduced(t), Terminated(t), Opens(t) \in {"Osc", "String"},
           NEW k \in Intro(t) .. Len(t) - 1
    PROVE  Inner(t, k) \/ Ends(t, k) \/ Closes(t, k) \/ Closed(t, k)
<1>1. PICK n \in Nat : n = Len(t) BY TokenForms
<1>2. PICK i \in {1, 2} : i = Intro(t) BY Intros
<1>3. t[i] # "ESC" /\ i <= n BY <1>1, <1>2, Intros
<1>4. PICK last \in Int : /\ last = LastOfBody(t)
                          /\ last = IF t[n] = "st" THEN n - 2 ELSE n - 1
  <2>1. LastOfBody(t) = IF t[n] = "st" THEN n - 2 ELSE n - 1 BY <1>1 DEF LastOfBody
  <2> QED BY ONLY <2>1, n \in Nat
<1>5. /\ last >= i
      /\ Opens(t) = "Osc" => t[n] \in {"BEL", "9c"} \/ (t[n] = "st" /\ t[n - 1] = "ESC")
      /\ Opens(t) = "String" => t[n] = "9c" \/ (t[n] = "st" /\ t[n - 1] = "ESC")
  BY <1>1, <1>2, <1>4 DEF Terminated
<1>6. \A j \in i + 1 .. last : /\ t[j] \notin {"9c", "ESC"}
                               /\ Opens(t) = "Osc" => t[j] # "BEL"
  BY <1>2, <1>4 DEF Terminated
<1>7. k \in Int /\ i <= k /\ k + 1 <= n BY <1>1, <1>2
<1>8. k <= last => t[k] # "ESC"
  <2>1. CASE k = i BY <1>3, <2>1
  <2>2. CASE k > i BY <1>2, <1>4, <1>6, <1>7, <2>2
  <2> QED BY <1>2, <1>7, <2>1, <2>2
<1>9. CASE k + 1 <= last
  <2>1. k + 1 < n BY <1>1, <1>4, <1>7, <1>9
  <2>2. k + 1 \in i + 1 .. last BY <1>2, <1>4, <1>7, <1>9
  <2> QED BY <1>1, <1>4, <1>6, <1>7, <1>8, <1>9, <2>1, <2>2 DEF Inner
<1>10. CASE k = last /\ t[n] # "st"
  <2>1. k + 1 = n BY <1>1, <1>4, <1>10
  <2> QED BY <1>1, <1>4, <1>5, <1>8, <1>10, <2>1 DEF Ends
<1>11. CASE k = last /\ t[n] = "st"
  <2>1. k + 2 = n /\ k + 1 = n - 1 BY <1>1, <1>4, <1>11
  <2> QED BY <1>1, <1>4, <1>5, <1>8, <1>11, <2>1 DEF Closes
<1>12. CASE k > last
  <2>1. k = n - 1 /\ k = last + 1 /\ t[n] = "st" BY <1>1, <1>4, <1>7, <1>12
  <2>2. k + 1 = n BY <1>1, <2>1
  <2> QED BY <1>1, <1>4, <1>5, <2>1, <2>2 DEF Closed
<1> QED BY <1>4, <1>7, <1>9, <1>10, <1>11, <1>12

\* The next byte of a whole sequence, once it is open.
Owed(t) == IF Owes(t) = "none" THEN << >> ELSE <<Owes(t)>>

OnItsWay(t, k, p) ==
    /\ p.visible = << >> /\ Tidy(p.esc)
    /\ k + 1 < Len(t) => InBody(t, k + 1, p.esc) /\ p.markers = << >>
    /\ k + 1 = Len(t) => p.esc = Normal /\ p.markers = Owed(t)

LEMMA QuietEnd ==
    ASSUME NEW t, NEW k, NEW p, p = Goes(Normal), k + 1 = Len(t), Opens(t) # "Osc"
    PROVE  OnItsWay(t, k, p)
<1>1. Owes(t) = "none" BY DEF Owes
<1> QED BY <1>1, GoesFields, NormalFields DEF OnItsWay, Owed

LEMMA CsiBody ==
    ASSUME NEW t \in Tokens, Introduced(t), Terminated(t), Opens(t) = "Csi",
           NEW k \in Intro(t) .. Len(t) - 1, NEW e, Tidy(e), ~ OverLimit(e), InBody(t, k, e),
           NEW p, p = Consume(e, t[k + 1])
    PROVE  OnItsWay(t, k, p)
<1>1. Len(t) \in Nat /\ Intro(t) \in {1, 2} /\ LastOfBody(t) = Len(t) - 1
  BY TokenForms, Intros DEF LastOfBody
<1>2. PICK b \in Byte : b = t[k + 1] BY <1>1, TokenForms
<1>3. e.mode = "Csi" /\ e.consumed = k - Intro(t) BY DEF InBody
<1>4. CASE k + 1 = Len(t)
  <2>1. b \in Finals BY <1>2, <1>4 DEF Terminated
  <2> QED BY <1>2, <1>3, <1>4, <2>1, CsiArm, QuietEnd
<1>5. CASE k + 1 < Len(t)
  <2>1. k + 1 \in Intro(t) + 1 .. LastOfBody(t) BY <1>1, <1>5
  <2>2. b \notin Finals BY <1>2, <2>1 DEF Terminated
  <2>3. Stayed(p, e) BY <1>2, <1>3, <2>2, CsiArm
  <2> QED BY <1>1, <1>3, <1>5, <2>3 DEF Stayed, OnItsWay, InBody
<1> QED BY <1>1, <1>4, <1>5

LEMMA IntermediateBody ==
    ASSUME NEW t \in Tokens, Introduced(t), Terminated(t), Opens(t) = "EscIntermediate",
           NEW k \in Intro(t) .. Len(t) - 1, NEW e, Tidy(e), ~ OverLimit(e), InBody(t, k, e),
           NEW p, p = Consume(e, t[k + 1])
    PROVE  OnItsWay(t, k, p)
<1>1. Len(t) \in Nat /\ Intro(t) \in {1, 2} /\ LastOfBody(t) = Len(t) - 1
  BY TokenForms, Intros DEF LastOfBody
<1>2. PICK b \in Byte : b = t[k + 1] BY <1>1, TokenForms
<1>3. e.mode = "EscIntermediate" /\ e.consumed = k - Intro(t) BY DEF InBody
<1>4. CASE k + 1 = Len(t)
  <2>1. b # "sp" BY <1>2, <1>4 DEF Terminated
  <2> QED BY <1>2, <1>3, <1>4, <2>1, IntermediateArm, QuietEnd
<1>5. CASE k + 1 < Len(t)
  <2>1. k + 1 \in Intro(t) + 1 .. LastOfBody(t) BY <1>1, <1>5
  <2>2. b = "sp" BY <1>2, <2>1 DEF Terminated
  <2>3. Stayed(p, e) BY <1>2, <1>3, <2>2, IntermediateArm
  <2> QED BY <1>1, <1>3, <1>5, <2>3 DEF Stayed, OnItsWay, InBody
<1> QED BY <1>1, <1>4, <1>5

LEMMA StringBody ==
    ASSUME NEW t \in Tokens, Introduced(t), Terminated(t), Opens(t) = "String",
           NEW k \in Intro(t) .. Len(t) - 1, NEW e, Tidy(e), ~ OverLimit(e), InBody(t, k, e),
           NEW p, p = Consume(e, t[k + 1])
    PROVE  OnItsWay(t, k, p)
<1>1. Len(t) \in Nat /\ Intro(t) \in {1, 2} BY TokenForms, Intros
<1>2. PICK b \in Byte : b = t[k + 1] BY <1>1, TokenForms
<1>3. /\ e.mode = "String" /\ e.consumed = k - Intro(t)
      /\ e.pending <=> t[k] = "ESC"
  BY DEF InBody
<1>4. Inner(t, k) \/ Ends(t, k) \/ Closes(t, k) \/ Closed(t, k) BY Placed
<1>5. CASE Inner(t, k) \/ Closes(t, k)
  <2>1. k + 1 < Len(t) /\ ~ e.pending /\ b # "9c" BY <1>1, <1>2, <1>3, <1>5 DEF Inner, Closes
  <2>2. Stayed(p, e) /\ (p.esc.pending <=> b = "ESC") BY <1>2, <1>3, <2>1, StringArm
  <2> QED BY <1>1, <1>2, <1>3, <2>1, <2>2 DEF Stayed, OnItsWay, InBody
<1>6. CASE Ends(t, k) \/ Closed(t, k)
  <2>1. k + 1 = Len(t) /\ b = (IF e.pending THEN "st" ELSE "9c")
    BY <1>2, <1>3, <1>6 DEF Ends, Closed
  <2> QED BY <1>2, <1>3, <2>1, StringArm, QuietEnd
<1> QED BY <1>4, <1>5, <1>6

LEMMA MarkerEnd ==
    ASSUME NEW t, t \notin Unfinished, ~ Plain(t), Opens(t) = "Osc",
           NEW buf \in Seq(Byte), buf = Body(t), NEW k, k + 1 = Len(t),
           NEW p, p = PushMarker(buf)
    PROVE  OnItsWay(t, k, p)
<1>1. MarkerOf(buf) = Owes(t) BY OwesItsMarker
<1> QED BY <1>1, PushFields, NormalFields DEF OnItsWay, Owed

LEMMA OscBody ==
    ASSUME NEW t \in Tokens \ Unfinished, Introduced(t), Terminated(t), Opens(t) = "Osc",
           NEW k \in Intro(t) .. Len(t) - 1, NEW e, Tidy(e), ~ OverLimit(e), InBody(t, k, e),
           NEW p, p = Consume(e, t[k + 1])
    PROVE  OnItsWay(t, k, p)
<1>1. Len(t) \in Nat /\ Intro(t) \in {1, 2} /\ t \in Seq(Byte) BY TokenForms, Intros
<1>2. PICK b \in Byte : b = t[k + 1] BY <1>1, TokenForms
<1>3. /\ e.mode = "Osc" /\ e.consumed = k - Intro(t)
      /\ e.pending <=> t[k] = "ESC"
      /\ e.buf = SubSeq(t, Intro(t) + 1, IF t[k] = "ESC" THEN k - 1 ELSE k)
      /\ e.buf \in Seq(Byte)
  BY DEF InBody, Tidy, EscapeState
<1>4. Inner(t, k) \/ Ends(t, k) \/ Closes(t, k) \/ Closed(t, k) BY Placed
<1>5. CASE Inner(t, k)
  <2>1. k + 1 < Len(t) /\ ~ e.pending /\ t[k] # "ESC" /\ b \notin {"9c", "BEL", "ESC"}
    BY <1>2, <1>3, <1>5 DEF Inner
  <2>2. Stayed(p, e) /\ ~ p.esc.pending /\ p.esc.buf = Append(e.buf, b)
    <3>1. p = Consume(e, b) BY <1>2
    <3>2. ~ OscEnds(e, b) BY <2>1 DEF OscEnds
    <3>3. /\ Stayed(p, e) /\ (p.esc.pending <=> b = "ESC" /\ ~ e.pending)
          /\ p.esc.buf = IF b = "ESC" THEN e.buf ELSE Append(e.buf, b)
      <4>1. OscGoesOn(p, e, b)
        BY ONLY <1>3, <3>1, <3>2, OscArm, Tidy(e), ~ OverLimit(e), b \in Byte
      <4> QED BY <4>1 DEF OscGoesOn
    <3> QED BY <2>1, <3>3
  <2>3. Append(e.buf, b) = SubSeq(t, Intro(t) + 1, k + 1)
    <3>1. e.buf = SubSeq(t, Intro(t) + 1, k) BY <1>3, <2>1
    <3>2. k \in Nat /\ k < Len(t) /\ Intro(t) + 1 \in Nat \ {0} /\ Intro(t) + 1 <= k + 1
      BY <1>1, <2>1
    <3> QED BY <1>1, <1>2, <3>1, <3>2, SubSeqGrows
  <2>4. /\ p.esc.mode = Opens(t) /\ p.esc.consumed = (k + 1) - Intro(t)
        /\ p.visible = << >> /\ p.markers = << >> /\ Tidy(p.esc)
    BY <1>1, <1>3, <2>2 DEF Stayed
  <2>5. t[k + 1] # "ESC" BY <1>2, <2>1
  <2>6. p.esc.buf = SubSeq(t, Intro(t) + 1, k + 1) BY <2>2, <2>3
  <2>7. InBody(t, k + 1, p.esc) BY <2>2, <2>4, <2>5, <2>6 DEF InBody
  <2>8. k + 1 # Len(t) BY <1>1, <2>1
  <2> QED BY <2>4, <2>7, <2>8 DEF OnItsWay
<1>6. CASE Closes(t, k)
  <2>1. k + 1 < Len(t) /\ ~ e.pending /\ t[k] # "ESC" /\ b = "ESC" /\ (k + 1) - 1 = k
    BY <1>1, <1>2, <1>3, <1>6 DEF Closes
  <2>2. Stayed(p, e) /\ p.esc.pending /\ p.esc.buf = e.buf
    <3>1. p = Consume(e, b) BY <1>2
    <3>2. ~ OscEnds(e, b) BY <2>1 DEF OscEnds
    <3>3. OscGoesOn(p, e, b)
      BY ONLY <1>3, <3>1, <3>2, OscArm, Tidy(e), ~ OverLimit(e), b \in Byte
    <3> QED BY <2>1, <3>3 DEF OscGoesOn
  <2> QED BY <1>1, <1>2, <1>3, <2>1, <2>2 DEF Stayed, OnItsWay, InBody
<1>7. CASE Ends(t, k) \/ Closed(t, k)
  <2>1. /\ k + 1 = Len(t)
        /\ IF e.pending THEN b = "st" ELSE b \in {"BEL", "9c"}
        /\ e.buf = Body(t)
    <3>1. CASE Ends(t, k)
      <4>1. t[k] # "ESC" /\ k = LastOfBody(t) /\ k + 1 = Len(t) /\ b \in {"BEL", "9c"}
        BY <1>2, <3>1 DEF Ends
      <4> QED BY <1>3, <4>1 DEF Body
    <3>2. CASE Closed(t, k)
      <4>1. t[k] = "ESC" /\ k = LastOfBody(t) + 1 /\ k + 1 = Len(t) /\ b = "st"
        BY <1>2, <3>2 DEF Closed
      <4>2. LastOfBody(t) = k - 1 BY <1>1, <4>1 DEF LastOfBody
      <4> QED BY <1>3, <4>1, <4>2 DEF Body
    <3> QED BY <1>7, <3>1, <3>2
  <2>2. p = PushMarker(e.buf)
    <3>1. p = Consume(e, b) BY <1>2
    <3>2. OscEnds(e, b) BY <2>1 DEF OscEnds
    <3> QED BY ONLY <1>3, <3>1, <3>2, OscArm, Tidy(e), ~ OverLimit(e), b \in Byte
  <2> QED BY <1>3, <2>1, <2>2, Intros, MarkerEnd
<1> QED BY <1>4, <1>5, <1>6, <1>7

LEMMA BodyStep ==
    ASSUME NEW t \in Tokens \ Unfinished, ~ Plain(t), NEW k \in Intro(t) .. Len(t) - 1,
           NEW e, Tidy(e), InBody(t, k, e), NEW p, p = Consume(e, t[k + 1])
    PROVE  OnItsWay(t, k, p)
<1>1. /\ Introduced(t) /\ Terminated(t) /\ Len(t) - Intro(t) <= Limit
      /\ Len(t) \in Nat /\ Opens(t) \in Long /\ Intro(t) \in {1, 2}
  BY TokenForms, Intros
<1>2. ~ OverLimit(e)
  <2>1. e.consumed = k - Intro(t) BY DEF InBody
  <2> QED BY <1>1, <2>1, ParserAssumption DEF OverLimit
<1> QED BY <1>1, <1>2, CsiBody, IntermediateBody, StringBody, OscBody DEF Long

-----------------------------------------------------------------------------
(* The invariant: where the parser stands in the token being printed, and   *)
(* what the chunk under way adds to what its predecessors decided.          *)

\* Lost in a sequence that the output left, or in one cut off by the limit.
Blind == esc.mode \in Long /\ since <= 2 + esc.consumed

CutOff(t, k, e) ==
    \/ e = Normal
    \/ e = In("Esc") /\ k > 1 /\ t[k] = "ESC"

Typed ==
    /\ Tidy(esc) /\ at \in Nat /\ since \in Nat
    /\ at > 0 => token \in Tokens /\ at < Len(token) /\ (token \in Unfinished => since = at)
    /\ markers \in Seq(Kinds) /\ owedMarkers \in Seq(Kinds) /\ owedText \in Seq(Byte)

Placement ==
    \/ InStep(token, at, esc) /\ (at > 0 /\ token \in Unfinished => at < Intro(token))
    \/ since > 0 /\ Blind
    \/ since > 0 /\ at > 0 /\ CutOff(token, at, esc)

Exact == since = 0 => markers = owedMarkers /\ visible = owedText

Reports(f, ms, d) ==
    /\ f \in Seq(Kinds) /\ ms \in Seq(Kinds) /\ Len(f) <= Len(ms)
    /\ \A j \in 1 .. Len(f) : f[j] = ms[Len(ms) - Len(f) + j]
    /\ d = IF Len(f) = Len(ms) THEN "none" ELSE ms[Len(ms) - Len(f)]

ParserInv == Typed /\ Placement /\ Exact /\ Reports(found, markers, decided)

\* The next byte of any token that is printed whole.
Follow(t, k) == IF k + 1 = Len(t) THEN 0 ELSE k + 1
ShownOf(t, k) == IF Plain(t) /\ t[k + 1] \in Printable THEN <<t[k + 1]>> ELSE << >>

Followed(t, k, p) ==
    /\ Tidy(p.esc) /\ InStep(t, Follow(t, k), p.esc)
    /\ p.visible = ShownOf(t, k)
    /\ p.markers = IF k + 1 = Len(t) THEN Owed(t) ELSE << >>

LEMMA WholeTokenStep ==
    ASSUME NEW t \in Tokens \ Unfinished, NEW k \in 0 .. Len(t) - 1,
           NEW e, Tidy(e), InStep(t, k, e), NEW p, p = Consume(e, t[k + 1])
    PROVE  Followed(t, k, p)
<1>1. /\ Len(t) \in Nat \ {0}
      /\ Plain(t) \/ (Introduced(t) /\ Terminated(t))
  BY TokenForms
<1>2. PICK b \in Byte : b = t[k + 1] BY <1>1, TokenForms
<1>3. CASE Plain(t)
  <2>1. e = Normal BY <1>3 DEF InStep
  <2>2. b \in Printable \cup {"high"} BY <1>1, <1>2, <1>3 DEF Plain
  <2>3. b \notin {"ESC", "9b", "9d", "90"} BY <2>2 DEF Printable
  <2>4. /\ p.esc = Normal /\ p.markers = << >> /\ Tidy(p.esc)
        /\ p.visible = IF b \in Printable THEN <<b>> ELSE << >>
    <3>1. p = Consume(e, b) BY <1>2
    <3>2. /\ p.markers = << >> /\ Tidy(p.esc)
          /\ p.visible = IF b \in Printable THEN <<b>> ELSE << >>
          /\ p.esc = NormalTo(b)
      BY ONLY <2>1, <3>1, NormalStep, b \in Byte
    <3> QED BY <2>3, <3>2 DEF NormalTo
  <2>5. Owed(t) = << >> BY <1>3 DEF Owed, Owes
  <2>6. InStep(t, Follow(t, k), p.esc) BY <1>3, <2>4 DEF InStep
  <2> QED BY <1>2, <1>3, <2>4, <2>5, <2>6 DEF Followed, ShownOf
<1>4. CASE ~ Plain(t)
  <2>1. /\ Introduced(t) /\ Terminated(t) /\ Intro(t) \in {1, 2}
        /\ LastOfBody(t) >= Intro(t)
    BY <1>1, <1>4, Intros DEF Terminated
  <2>2. Intro(t) < Len(t) BY <1>1, <2>1 DEF LastOfBody
  <2>3. ShownOf(t, k) = << >> BY <1>4 DEF ShownOf
  <2>4. CASE k < Intro(t)
    <3>1. k \in {0, 1} /\ e = IF k = 0 THEN Normal ELSE In("Esc") BY <1>4, <2>1, <2>4 DEF InStep
    <3>2. /\ p.visible = << >> /\ p.markers = << >> /\ Tidy(p.esc)
          /\ p.esc = IF k + 1 < Intro(t) THEN In("Esc") ELSE In(Opens(t))
      BY <2>1, <2>4, <3>1, Opening
    <3>3. k + 1 # Len(t) /\ Follow(t, k) = k + 1 BY <1>1, <2>1, <2>2, <2>4 DEF Follow
    <3>4. InStep(t, k + 1, p.esc)
      <4>1. CASE k + 1 < Intro(t) BY <1>4, <3>1, <3>2, <4>1 DEF InStep
      <4>2. CASE k + 1 = Intro(t) BY <1>4, <2>1, <3>1, <3>2, <4>2, Begun DEF InStep
      <4> QED BY <2>1, <2>4, <3>1, <4>1, <4>2
    <3> QED BY <2>3, <3>2, <3>3, <3>4 DEF Followed
  <2>5. CASE k >= Intro(t)
    <3>1. k \in Intro(t) .. Len(t) - 1 /\ InBody(t, k, e) BY <1>1, <1>4, <2>1, <2>5 DEF InStep
    <3>2. OnItsWay(t, k, p) BY <1>4, <3>1, BodyStep
    <3>3. CASE k + 1 = Len(t)
      <4>1. InStep(t, Follow(t, k), p.esc) BY <3>2, <3>3 DEF OnItsWay, InStep, Follow
      <4> QED BY <2>3, <3>2, <3>3, <4>1 DEF OnItsWay, Followed
    <3>4. CASE k + 1 < Len(t)
      <4>1. Follow(t, k) = k + 1 BY <1>1, <3>4 DEF Follow
      <4>2. InStep(t, k + 1, p.esc) BY <1>4, <2>1, <2>5, <3>2, <3>4 DEF OnItsWay, InStep
      <4> QED BY <1>1, <2>3, <3>2, <3>4, <4>1, <4>2 DEF OnItsWay, Followed
    <3> QED BY <1>1, <3>3, <3>4
  <2> QED BY <2>1, <2>4, <2>5
<1> QED BY <1>3, <1>4

\* The bytes of a token whose beginning the parser took for something else.
LEMMA CutStep ==
    ASSUME NEW t \in Tokens, NEW k \in 1 .. Len(t) - 1, NEW e, CutOff(t, k, e),
           NEW p, p = Consume(e, t[k + 1])
    PROVE  /\ Tidy(p.esc) /\ p.markers = << >>
           /\ k + 1 = Len(t) => p.esc = Normal
           /\ CutOff(t, k + 1, p.esc)
<1>1. Len(t) \in Nat \ {0} /\ (Plain(t) \/ Introduced(t)) BY TokenForms
<1>2. PICK b \in Byte : b = t[k + 1] BY <1>1, TokenForms
<1>3. p = Consume(e, b) BY <1>2
<1>4. b \notin C1 /\ (b = "ESC" => k + 1 < Len(t))
  <2>1. CASE Plain(t) BY <1>1, <1>2, <2>1 DEF Plain, Printable, C1
  <2>2. CASE Introduced(t)
    <3>1. k + 1 \in 2 .. Len(t) BY <1>1
    <3> QED BY <1>2, <2>2, <3>1 DEF Introduced
  <2> QED BY <1>1, <2>1, <2>2
<1>5. CASE e = Normal
  <2>1. /\ p.markers = << >> /\ Tidy(p.esc)
        /\ p.esc = NormalTo(b)
    BY ONLY <1>3, <1>5, NormalStep, b \in Byte
  <2>2. p.esc = IF b = "ESC" THEN In("Esc") ELSE Normal BY <1>4, <2>1 DEF C1, NormalTo
  <2> QED BY <1>1, <1>2, <1>4, <2>1, <2>2 DEF CutOff
<1>6. CASE e = In("Esc") /\ k > 1 /\ t[k] = "ESC"
  <2>1. ~ Plain(t) BY <1>1, <1>6 DEF Plain, Printable
  <2>2. k \in 2 .. Len(t) BY <1>1, <1>6
  <2>3. b = "st" BY <1>1, <1>2, <1>6, <2>1, <2>2 DEF Introduced
  <2>4. /\ p.markers = << >> /\ Tidy(p.esc)
        /\ p.esc = EscapeTo(b)
    BY ONLY <1>3, <1>6, EscapeStep, b \in Byte
  <2>5. p.esc = Normal BY <2>3, <2>4 DEF EscapeTo
  <2> QED BY <2>4, <2>5 DEF CutOff
<1> QED BY <1>5, <1>6 DEF CutOff

-----------------------------------------------------------------------------
(* What the markers of a chunk decide. *)

LEMMA DecisionIsLast ==
    ASSUME NEW ms \in Seq(Kinds)
    PROVE  Decision(ms) = IF Len(ms) = 0 THEN "none" ELSE ms[Len(ms)]
<1>1. PICK n \in Nat : n = Len(ms) /\ DOMAIN ms = 1 .. n BY LenProperties
<1>2. \A i \in 1 .. n : ms[i] \in Kinds BY <1>1, ElementOfSeq
<1>3. CASE n = 0
  <2>1. DOMAIN ms = {} BY <1>1, <1>3
  <2> QED BY <1>1, <1>3, <2>1 DEF Decision
<1>4. CASE n > 0 /\ ms[n] = "command"
  <2>1. n \in DOMAIN ms /\ \A j \in DOMAIN ms : n >= j BY <1>1, <1>4
  <2> QED BY <1>1, <1>4, <2>1 DEF Decision
<1>5. CASE n > 0 /\ ms[n] = "prompt"
  <2>1. n \in DOMAIN ms BY <1>1, <1>5
  <2>2. \A i \in DOMAIN ms : ms[i] = "command" => ~ (i >= n) BY <1>1, <1>5
  <2> QED BY <1>1, <1>5, <2>1, <2>2 DEF Decision
<1> QED BY <1>1, <1>2, <1>3, <1>4, <1>5 DEF Kinds

LEMMA MarksTyped == ASSUME NEW m \in Marks PROVE m = << >> \/ \E k \in Kinds : m = <<k>>
BY DEF Marks

LEMMA ReportsMore ==
    ASSUME NEW f, NEW ms, NEW d, Reports(f, ms, d), NEW m \in Marks
    PROVE  Reports(f \o m, ms \o m, d)
<1>1. f \in Seq(Kinds) /\ ms \in Seq(Kinds) BY DEF Reports
<1>2. CASE m = << >>
  <2>1. f \o m = f /\ ms \o m = ms BY <1>1, <1>2, ConcatEmptySeq
  <2> QED BY <2>1
<1>3. ASSUME NEW k \in Kinds, m = <<k>> PROVE Reports(f \o m, ms \o m, d)
  <2>1. PICK g \in Seq(Kinds) : g = f \o m /\ g = Append(f, k)
    BY <1>1, <1>3, AppendIsConcat, AppendProperties
  <2>2. PICK ns \in Seq(Kinds) : ns = ms \o m /\ ns = Append(ms, k)
    BY <1>1, <1>3, AppendIsConcat, AppendProperties
  <2>3. PICK x \in Nat : x = Len(f) BY <1>1, LenProperties
  <2>4. PICK y \in Nat : y = Len(ms) BY <1>1, LenProperties
  <2>5. /\ Len(g) = x + 1 /\ g[x + 1] = k
        /\ \A i \in 1 .. x : g[i] = f[i]
    BY <1>1, <2>1, <2>3, AppendProperties
  <2>6. /\ Len(ns) = y + 1 /\ ns[y + 1] = k
        /\ \A i \in 1 .. y : ns[i] = ms[i]
    BY <1>1, <2>2, <2>4, AppendProperties
  <2>7. /\ x <= y
        /\ \A j \in 1 .. x : f[j] = ms[y - x + j]
        /\ d = IF x = y THEN "none" ELSE ms[y - x]
    BY <2>3, <2>4 DEF Reports
  <2>8. ASSUME NEW j \in 1 .. x + 1 PROVE g[j] = ns[(y + 1) - (x + 1) + j]
    <3>1. CASE j = x + 1
      <4>1. (y + 1) - (x + 1) + j = y + 1 BY <3>1
      <4> QED BY <2>5, <2>6, <3>1, <4>1
    <3>2. CASE j # x + 1
      <4>1. j \in 1 .. x /\ y - x + j \in 1 .. y /\ (y + 1) - (x + 1) + j = y - x + j
        BY <2>7, <3>2
      <4> QED BY <2>5, <2>6, <2>7, <4>1
    <3> QED BY <3>1, <3>2
  <2>9. d = IF x + 1 = y + 1 THEN "none" ELSE ns[(y + 1) - (x + 1)]
    <3>1. CASE x = y BY <2>7, <3>1
    <3>2. CASE x # y
      <4>1. y - x \in 1 .. y /\ (y + 1) - (x + 1) = y - x BY <2>7, <3>2
      <4> QED BY <2>6, <2>7, <3>2, <4>1
    <3> QED BY <3>1, <3>2
  <2>10. Reports(g, ns, d) BY <2>5, <2>6, <2>7, <2>8, <2>9 DEF Reports
  <2> QED BY <2>1, <2>2, <2>10
<1> QED BY <1>2, <1>3, MarksTyped

LEMMA ReportsDecides ==
    ASSUME NEW f, NEW ms, NEW d, Reports(f, ms, d)
    PROVE  Reports(<< >>, ms, IF Decision(f) = "none" THEN d ELSE Decision(f))
<1>1. f \in Seq(Kinds) /\ ms \in Seq(Kinds) BY DEF Reports
<1>2. PICK x \in Nat : x = Len(f) BY <1>1, LenProperties
<1>3. PICK y \in Nat : y = Len(ms) BY <1>1, LenProperties
<1>4. /\ x <= y
      /\ \A j \in 1 .. x : f[j] = ms[y - x + j]
      /\ d = IF x = y THEN "none" ELSE ms[y - x]
  BY <1>2, <1>3 DEF Reports
<1>5. PICK new : new = IF Decision(f) = "none" THEN d ELSE Decision(f) OBVIOUS
<1>6. new = IF 0 = y THEN "none" ELSE ms[y - 0]
  <2>1. CASE x = 0
    <3>1. Decision(f) = "none" BY <1>1, <1>2, <2>1, DecisionIsLast
    <3> QED BY <1>4, <1>5, <2>1, <3>1
  <2>2. CASE x > 0
    <3>1. Decision(f) = f[x] BY <1>1, <1>2, <2>2, DecisionIsLast
    <3>2. f[x] \in Kinds BY <1>1, <1>2, <2>2, ElementOfSeq
    <3>3. f[x] = ms[y]
      <4>1. x \in 1 .. x /\ y - x + x = y BY <2>2
      <4> QED BY <1>4, <4>1
    <3> QED BY <1>4, <1>5, <2>2, <3>1, <3>2, <3>3 DEF Kinds
  <2> QED BY <2>1, <2>2
<1>7. << >> \in Seq(Kinds) /\ Len(<< >>) = 0 OBVIOUS
<1> QED BY <1>1, <1>3, <1>5, <1>6, <1>7 DEF Reports

-----------------------------------------------------------------------------
(* Every byte read keeps the invariant. *)

\* What a step of the parser does, however the chunk goes on.
Advance(t, p) ==
    /\ Prints(t) /\ Parse(p)
    /\ \/ found' = found \o p.markers /\ decided' = decided
       \/ /\ found' = << >>
          /\ decided' = IF Decision(found \o p.markers) = "none" THEN decided
                        ELSE Decision(found \o p.markers)

LEMMA StepAdvances ==
    ASSUME NEW t, ReadByte(t) \/ ReadLast(t)
    PROVE  \E p : p = Consume(esc, t[at + 1]) /\ Advance(t, p)
BY DEF ReadByte, ReadLast, Advance

LEMMA WhereItPrints ==
    ASSUME Typed, NEW t \in Tokens, Prints(t)
    PROVE  /\ at \in 0 .. Len(t) - 1 /\ Len(t) \in Nat \ {0}
           /\ at > 0 => t = token
           /\ token' = t /\ at' = Follow(t, at) /\ at' \in Nat
           /\ at' > 0 => at' < Len(t)
           /\ t[at + 1] \in Byte
           /\ since' \in Nat
           /\ since' = 0 => since = 0 /\ t \notin Unfinished
           /\ since' > 0 => since' <= since + 1
           /\ t \in Unfinished => since' = at + 1
<1>1. Len(t) \in Nat \ {0} BY TokenForms
<1>2. at > 0 => t = token BY DEF Prints, Typed
<1>3. at \in 0 .. Len(t) - 1 BY <1>1, <1>2 DEF Typed
<1>4. t[at + 1] \in Byte BY <1>1, <1>3, TokenForms
<1>5. token' = t /\ at' = Follow(t, at) BY DEF Prints, Follow
<1>6. at' \in Nat /\ (at' > 0 => at' < Len(t)) BY <1>1, <1>3, <1>5 DEF Follow
<1>7. since' = IF at = 0 /\ t \in Unfinished THEN 1 ELSE IF since > 0 THEN since + 1 ELSE 0
  BY DEF Prints
<1>8. since \in Nat /\ (at > 0 /\ t \in Unfinished => since = at) BY <1>2 DEF Typed
<1>9. at \in Nat BY <1>3
<1>10. /\ since' \in Nat
       /\ since' = 0 => since = 0 /\ t \notin Unfinished
       /\ since' > 0 => since' <= since + 1
       /\ t \in Unfinished => since' = at + 1
  <2>1. CASE at = 0 BY <1>7, <1>8, <2>1
  <2>2. CASE at > 0 BY <1>7, <1>8, <1>9, <2>2
  <2> QED BY <1>9, <2>1, <2>2
<1> QED BY <1>1, <1>2, <1>3, <1>4, <1>5, <1>6, <1>10

LEMMA OwedMarks == ASSUME NEW t PROVE Owes(t) \in Kinds \cup {"none"} /\ Owed(t) \in Marks
BY DEF Owes, Owed, Marks, Kinds

LEMMA PlacementKept ==
    ASSUME Typed, Placement, NEW t \in Tokens, NEW p, p = Consume(esc, t[at + 1]), Advance(t, p)
    PROVE  /\ Tidy(esc') /\ p.markers \in Marks
           /\ Placement'
           /\ since' = 0 => Followed(t, at, p)
<1>1. /\ at \in 0 .. Len(t) - 1 /\ Len(t) \in Nat \ {0}
      /\ at > 0 => t = token
      /\ token' = t /\ at' = Follow(t, at) /\ at' \in Nat
      /\ since' \in Nat
      /\ since' = 0 => since = 0 /\ t \notin Unfinished
      /\ since' > 0 => since' <= since + 1
      /\ t \in Unfinished => since' = at + 1
  BY WhereItPrints DEF Advance
<1>2. PICK b \in Byte : b = t[at + 1] BY WhereItPrints DEF Advance
<1>3. esc' = p.esc BY DEF Advance, Parse
<1>4. Tidy(esc) /\ since \in Nat BY DEF Typed
<1>5. CASE InStep(token, at, esc) /\ (at > 0 /\ token \in Unfinished => at < Intro(token))
  <2>1. InStep(t, at, esc) BY <1>1, <1>5 DEF InStep
  <2>2. CASE t \notin Unfinished
    <3>1. Followed(t, at, p) BY <1>1, <1>4, <2>1, <2>2, WholeTokenStep
    <3>2. p.markers \in Marks BY <3>1, OwedMarks DEF Followed, Marks
    <3>3. Placement' BY <1>1, <1>3, <2>2, <3>1 DEF Followed, Placement
    <3> QED BY <1>3, <3>1, <3>2, <3>3 DEF Followed
  <2>3. CASE t \in Unfinished
    <3>1. Introduced(t) BY <2>3, TokenForms
    <3>2. Intro(t) \in {1, 2} /\ Intro(t) <= Len(t) /\ ~ Plain(t) /\ Opens(t) \in Long
      BY <3>1, Intros
    <3>3. at < Intro(t) BY <1>1, <1>5, <2>3, <3>2
    <3>4. at \in {0, 1} /\ esc = IF at = 0 THEN Normal ELSE In("Esc")
      BY <1>1, <2>1, <3>2, <3>3 DEF InStep
    <3>5. /\ p.markers = << >> /\ Tidy(p.esc)
          /\ p.esc = IF at + 1 < Intro(t) THEN In("Esc") ELSE In(Opens(t))
      BY <3>1, <3>3, <3>4, Opening
    <3>6. CASE at + 1 < Intro(t)
      <4>1. at' = at + 1 /\ at' < Intro(t) /\ at' # 0 BY <1>1, <3>2, <3>6 DEF Follow
      <4>2. InStep(t, at', esc') BY <1>3, <3>2, <3>5, <3>6, <4>1 DEF InStep
      <4> QED BY <1>1, <1>3, <2>3, <3>5, <4>1, <4>2 DEF Placement, Marks
    <3>7. CASE ~ (at + 1 < Intro(t))
      <4>1. PICK o \in Long : o = Opens(t) BY <3>2
      <4>2. esc'.mode = o /\ esc'.consumed = 0 BY <1>3, <3>5, <3>7, <4>1, InFields DEF Long, Modes
      <4>3. since' = at + 1 /\ since' <= 2 + esc'.consumed /\ since' > 0 BY <1>1, <2>3, <3>4, <4>2
      <4> QED BY <1>1, <1>3, <3>5, <4>2, <4>3 DEF Placement, Blind, Marks
    <3> QED BY <3>6, <3>7
  <2> QED BY <2>2, <2>3
<1>6. CASE since > 0 /\ Blind
  <2>1. since' > 0 BY <1>1, <1>4, <1>6
  <2>2. /\ p.markers \in Marks /\ Tidy(p.esc)
        /\ \/ p.esc = Normal
           \/ p.esc.mode = esc.mode /\ p.esc.consumed = esc.consumed + 1
    BY <1>2, <1>4, <1>6, LongStep DEF Blind
  <2>3. CASE p.esc = Normal
    <3>1. CASE at' = 0 BY <1>3, <2>1, <2>2, <2>3, <3>1 DEF Placement, InStep
    <3>2. CASE at' > 0 BY <1>3, <2>1, <2>2, <2>3, <3>2 DEF Placement, CutOff
    <3> QED BY <1>1, <1>3, <2>1, <2>2, <3>1, <3>2
  <2>4. CASE p.esc.mode = esc.mode /\ p.esc.consumed = esc.consumed + 1
    <3>1. esc.consumed \in Nat BY <1>4, ParserAssumption DEF Tidy, EscapeState
    <3>2. Blind' BY <1>1, <1>3, <1>4, <1>6, <2>1, <2>4, <3>1 DEF Blind
    <3> QED BY <1>3, <2>1, <2>2, <3>2 DEF Placement
  <2> QED BY <2>2, <2>3, <2>4
<1>7. CASE since > 0 /\ at > 0 /\ CutOff(token, at, esc)
  <2>1. since' > 0 BY <1>1, <1>4, <1>7
  <2>2. at \in 1 .. Len(t) - 1 /\ CutOff(t, at, esc) BY <1>1, <1>7
  <2>3. /\ Tidy(p.esc) /\ p.markers = << >>
        /\ at + 1 = Len(t) => p.esc = Normal
        /\ CutOff(t, at + 1, p.esc)
    BY <2>2, CutStep
  <2>4. CASE at + 1 = Len(t)
    <3>1. at' = 0 BY <1>1, <2>4 DEF Follow
    <3>2. Placement' BY <1>3, <2>3, <2>4, <3>1 DEF Placement, InStep
    <3> QED BY <1>3, <2>1, <2>3, <3>2 DEF Marks
  <2>5. CASE at + 1 # Len(t)
    <3>1. at' = at + 1 /\ at' > 0 BY <1>1, <2>5 DEF Follow
    <3>2. CutOff(token', at', esc') BY <1>1, <1>3, <2>3, <3>1
    <3> QED BY <1>3, <2>1, <2>3, <3>1, <3>2 DEF Placement, Marks
  <2> QED BY <2>4, <2>5
<1> QED BY <1>5, <1>6, <1>7 DEF Placement

LEMMA GrowsByMarks ==
    ASSUME NEW s \in Seq(Kinds), NEW m \in Marks
    PROVE  s \o m \in Seq(Kinds)
<1>1. << >> \in Seq(Kinds) /\ \A k \in Kinds : <<k>> \in Seq(Kinds) OBVIOUS
<1> QED BY <1>1, MarksTyped, ConcatProperties

LEMMA OwedGrows ==
    ASSUME Typed, NEW t \in Tokens, Prints(t)
    PROVE  /\ owedMarkers' = owedMarkers \o (IF at + 1 = Len(t) THEN Owed(t) ELSE << >>)
           /\ owedText' = owedText \o ShownOf(t, at)
           /\ owedMarkers' \in Seq(Kinds) /\ owedText' \in Seq(Byte)
<1>1. owedMarkers \in Seq(Kinds) /\ owedText \in Seq(Byte) BY DEF Typed
<1>2. PICK b \in Byte : b = t[at + 1] BY WhereItPrints
<1>3. /\ owedMarkers' = owedMarkers \o (IF at + 1 = Len(t) THEN Owed(t) ELSE << >>)
      /\ owedMarkers' \in Seq(Kinds)
  <2>1. CASE at + 1 = Len(t) /\ Owes(t) # "none"
    <3>1. PICK k \in Kinds : k = Owes(t) BY <2>1, OwedMarks
    <3>2. owedMarkers' = Append(owedMarkers, k) BY <2>1, <3>1 DEF Prints
    <3>3. Owed(t) = <<k>> BY <2>1, <3>1 DEF Owed
    <3> QED BY <1>1, <2>1, <3>2, <3>3, AppendIsConcat, AppendProperties
  <2>2. CASE ~ (at + 1 = Len(t) /\ Owes(t) # "none")
    <3>1. owedMarkers' = owedMarkers BY <2>2 DEF Prints
    <3>2. (IF at + 1 = Len(t) THEN Owed(t) ELSE << >>) = << >> BY <2>2 DEF Owed
    <3> QED BY <1>1, <3>1, <3>2, ConcatEmptySeq
  <2> QED BY <2>1, <2>2
<1>4. owedText' = owedText \o ShownOf(t, at) /\ owedText' \in Seq(Byte)
  <2>1. CASE Plain(t) /\ b \in Printable
    <3>1. owedText' = Append(owedText, b) BY <1>2, <2>1 DEF Prints
    <3>2. ShownOf(t, at) = <<b>> BY <1>2, <2>1 DEF ShownOf
    <3> QED BY <1>1, <3>1, <3>2, AppendIsConcat, AppendProperties
  <2>2. CASE ~ (Plain(t) /\ b \in Printable)
    <3>1. owedText' = owedText BY <1>2, <2>2 DEF Prints
    <3>2. ShownOf(t, at) = << >> BY <1>2, <2>2 DEF ShownOf
    <3> QED BY <1>1, <3>1, <3>2, ConcatEmptySeq
  <2> QED BY <2>1, <2>2
<1> QED BY <1>3, <1>4

LEMMA ParserStep ==
    ASSUME ParserInv, NEW t \in Tokens, ReadByte(t) \/ ReadLast(t)
    PROVE  ParserInv'
<1>1. PICK p : p = Consume(esc, t[at + 1]) /\ Advance(t, p) BY StepAdvances
<1>2. Typed /\ Placement /\ Exact /\ Reports(found, markers, decided) BY DEF ParserInv
<1>3. /\ Prints(t) /\ esc' = p.esc /\ visible' = visible \o p.visible
      /\ markers' = markers \o p.markers
  BY <1>1 DEF Advance, Parse
<1>4. /\ Tidy(esc') /\ p.markers \in Marks /\ Placement'
      /\ since' = 0 => Followed(t, at, p)
  BY <1>1, <1>2, PlacementKept
<1>5. Typed'
  <2>1. owedMarkers' \in Seq(Kinds) /\ owedText' \in Seq(Byte) BY <1>2, <1>3, OwedGrows
  <2>2. markers' \in Seq(Kinds) BY <1>2, <1>3, <1>4, GrowsByMarks DEF Typed
  <2>3. /\ at' \in Nat /\ since' \in Nat
        /\ at' > 0 => token' \in Tokens /\ at' < Len(token')
        /\ at' > 0 /\ token' \in Unfinished => since' = at'
    BY <1>2, <1>3, WhereItPrints DEF Follow
  <2> QED BY <1>4, <2>1, <2>2, <2>3 DEF Typed
<1>6. Exact'
  <2>1. SUFFICES ASSUME since' = 0 PROVE markers' = owedMarkers' /\ visible' = owedText'
    BY DEF Exact
  <2>2. since = 0 BY <1>2, <1>3, <2>1, WhereItPrints
  <2>3. markers = owedMarkers /\ visible = owedText BY <1>2, <2>2 DEF Exact
  <2>4. /\ p.visible = ShownOf(t, at)
        /\ p.markers = IF at + 1 = Len(t) THEN Owed(t) ELSE << >>
    BY <1>4, <2>1 DEF Followed
  <2> QED BY <1>2, <1>3, <2>3, <2>4, OwedGrows
<1>7. Reports(found, markers, decided)'
  <2>1. PICK f : f = found \o p.markers OBVIOUS
  <2>2. Reports(f, markers', decided) BY <1>2, <1>3, <1>4, <2>1, ReportsMore
  <2>3. CASE found' = f /\ decided' = decided BY <2>2, <2>3
  <2>4. CASE /\ found' = << >>
             /\ decided' = IF Decision(f) = "none" THEN decided ELSE Decision(f)
    BY <2>2, <2>4, ReportsDecides
  <2> QED BY <1>1, <2>1, <2>3, <2>4 DEF Advance
<1> QED BY <1>4, <1>5, <1>6, <1>7 DEF ParserInv

LEMMA ParserInvariant == ParserSpec => []ParserInv
<1>1. ParserInit => ParserInv
  <2> SUFFICES ASSUME ParserInit PROVE ParserInv OBVIOUS
  <2>1. /\ Tidy(esc) /\ esc = Normal BY NormalFields DEF ParserInit
  <2>2. << >> \in Seq(Kinds) /\ << >> \in Seq(Byte) /\ Len(<< >>) = 0 OBVIOUS
  <2>3. Typed BY <2>1, <2>2 DEF ParserInit, Typed
  <2>4. Placement BY <2>1 DEF ParserInit, Placement, InStep
  <2>5. Reports(found, markers, decided) BY <2>2 DEF ParserInit, Reports
  <2> QED BY <2>3, <2>4, <2>5 DEF ParserInit, ParserInv, Exact
<1>2. ParserInv /\ [ParserNext]_parserVars => ParserInv'
  <2> SUFFICES ASSUME ParserInv, [ParserNext]_parserVars PROVE ParserInv' OBVIOUS
  <2>1. CASE ParserNext BY <2>1, ParserStep DEF ParserNext
  <2>2. CASE UNCHANGED parserVars
    <3>1. Typed' BY <2>2 DEF ParserInv, Typed, parserVars
    <3>2. Placement' BY <2>2 DEF ParserInv, Placement, Blind, parserVars
    <3>3. Exact' BY <2>2 DEF ParserInv, Exact, parserVars
    <3>4. Reports(found, markers, decided)' BY <2>2 DEF ParserInv, parserVars
    <3> QED BY <3>1, <3>2, <3>3, <3>4 DEF ParserInv
  <2> QED BY <2>1, <2>2
<1> QED BY <1>1, <1>2, PTL DEF ParserSpec

\* The parser's state has its type, and what it keeps belongs to its mode: a
\* pending ESC to the strings, a payload to OSC.
THEOREM ParserTypeCorrect == ParserSpec => []ParserTypeOK
<1>1. ParserInv => ParserTypeOK
  <2> SUFFICES ASSUME ParserInv PROVE ParserTypeOK OBVIOUS
  <2>1. decided \in {"none", "prompt", "command"}
    <3>1. Reports(found, markers, decided) BY DEF ParserInv
    <3>2. PICK x \in Nat, y \in Nat : x = Len(found) /\ y = Len(markers)
      BY <3>1, LenProperties DEF Reports
    <3>3. x # y => markers[y - x] \in Kinds
      <4>1. x # y => y - x \in 1 .. y BY <3>1, <3>2 DEF Reports
      <4> QED BY <3>1, <3>2, <4>1, ElementOfSeq DEF Reports
    <3> QED BY <3>1, <3>2, <3>3 DEF Reports, Kinds
  <2> QED BY <2>1 DEF ParserInv, Typed, Tidy, ParserTypeOK
<1> QED BY <1>1, ParserInvariant, PTL

\* However the reads cut the output (process_output is called with whatever
\* the PTY read returned), a marker is reported at its last byte, once and in
\* order, the newest one decides, and no byte of a sequence shows as text:
\* for tokens of any form and number and any limit.
THEOREM CutsStayInvisible == ParserSpec => []CutsAreInvisible
<1>1. ParserInv => CutsAreInvisible
  <2> SUFFICES ASSUME ParserInv PROVE CutsAreInvisible OBVIOUS
  <2>1. WellFormed => markers = owedMarkers /\ visible = owedText
    BY DEF ParserInv, Exact, WellFormed
  <2>2. found = << >> => decided = IF markers = << >> THEN "none" ELSE markers[Len(markers)]
    <3> SUFFICES ASSUME found = << >>
                 PROVE  decided = IF markers = << >> THEN "none" ELSE markers[Len(markers)]
      OBVIOUS
    <3>1. Reports(found, markers, decided) BY DEF ParserInv
    <3>2. PICK y \in Nat : y = Len(markers) BY <3>1, LenProperties DEF Reports
    <3>3. decided = IF 0 = y THEN "none" ELSE markers[y]
      <4>1. Len(found) = 0 /\ y - 0 = y OBVIOUS
      <4> QED BY <3>1, <3>2, <4>1 DEF Reports
    <3>4. markers = << >> <=> y = 0 BY <3>1, <3>2, EmptySeq DEF Reports
    <3> QED BY <3>2, <3>3, <3>4
  <2> QED BY <2>1, <2>2 DEF CutsAreInvisible, MarkersAreSeen, TextIsExact
<1> QED BY <1>1, ParserInvariant, PTL

\* A sequence that is never finished blinds the parser for a bounded time: at
\* a token boundary more than the limit after it, the parser is in Normal,
\* even when the limit cut through whole sequences.
THEOREM BlindnessIsBounded == ParserSpec => []RecoversAfterLimit
<1>1. ParserInv => RecoversAfterLimit
  <2> SUFFICES ASSUME ParserInv, at = 0, since > 2 + Limit PROVE esc = Normal
    BY DEF RecoversAfterLimit
  <2>1. ~ Blind
    <3>1. esc.consumed \in 0 .. Limit /\ since \in Nat BY DEF ParserInv, Typed, Tidy, EscapeState
    <3> QED BY <3>1, ParserAssumption DEF Blind
  <2> QED BY <2>1 DEF ParserInv, Placement, InStep
<1> QED BY <1>1, ParserInvariant, PTL
=============================================================================
