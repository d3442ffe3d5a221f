--------------------------- MODULE StateDetector ---------------------------
(***************************************************************************)
(* The classifier of one terminal (src/state/detector.rs): it turns PTY    *)
(* output, local input, process-tree polls and three deadlines into one of *)
(* five session states.                                                    *)
(*                                                                         *)
(* The detector is one record, and each method of StateDetector is an      *)
(* operator from records to records: DetectorCalls makes the calls one by  *)
(* one, SessionActor composes those that a single step of the actor makes.  A deadline is the number of ticks     *)
(* left, Off when it is None: 0 means that the deadline has passed and no  *)
(* check_timers call has noticed yet.  A chunk of output is what the       *)
(* byte-level parser and the regular expressions report about it.          *)
(***************************************************************************)
EXTENDS Integers

CONSTANTS
    ErrorLinger,      \* ticks before an error clears itself (ERROR_LINGER_MS)
    OutputIdle,       \* ticks of silence that end a tool's turn (OUTPUT_IDLE_MS)
    AttentionDelay,   \* ticks before idle asks for attention (ATTENTION_DELAY_MS)
    Commands,         \* the command lines OSC 133;C can announce
    NoCmd             \* current_command = None

ASSUME DelaysAssumption ==
    /\ ErrorLinger \in Nat \ {0}
    /\ OutputIdle \in Nat \ {0}
    /\ AttentionDelay \in Nat \ {0}

ASSUME NoCmdAssumption == NoCmd \notin Commands

Off == -1
States == {"Idle", "Busy", "Error", "Attention", "Exited"}

HighCauses == {"osc133_command", "osc133_prompt", "error_pattern", "process_exit",
               "liveness_no_children", "liveness_has_children"}
LowerCauses == {"initial_state", "fallback_non_prompt_output",
                "fallback_prompt_detected", "error_timer_expired",
                "output_silence_expired", "attention_timer_expired",
                "dismiss_attention", "local_input"}

Detector ==
    [state : States, cause : HighCauses \cup LowerCauses,
     cmd : Commands \cup {NoCmd}, tui : BOOLEAN,
     err : Off .. ErrorLinger, att : Off .. AttentionDelay, out : Off .. OutputIdle]

(* What one chunk of output carries: the marker that wins (Osc133Decision), *)
(* visible text, a prompt as its last line, an error pattern in the text    *)
(* that the branch scans.                                                   *)
Chunk ==
    {c \in [osc : {"none", "prompt", "command"}, cmd : Commands \cup {NoCmd},
            text : BOOLEAN, prompt : BOOLEAN, error : BOOLEAN] :
        /\ (c.prompt \/ c.error) => c.text
        /\ c.osc = "command" <=> c.cmd # NoCmd}

(***************************************************************************)
(* The state transition every method goes through.                         *)
(***************************************************************************)

(* Mutant: leaving Idle for work keeps the attention deadline. *)
SetStateKeepsAttention(d, new, cmd, cause) ==
    [d EXCEPT !.state = new, !.cmd = cmd, !.cause = cause,
              !.att = IF d.state = "Busy" /\ new = "Idle" THEN AttentionDelay ELSE @]

SetState(d, new, cmd, cause) ==
    [d EXCEPT !.state = new, !.cmd = cmd, !.cause = cause,
              !.att = IF d.state = "Busy" /\ new = "Idle" THEN AttentionDelay
                      ELSE IF d.state = "Idle" /\ new \notin {"Idle", "Attention"}
                           THEN Off ELSE @]

ClearError(d) == [d EXCEPT !.err = Off]

(* check_timers: the three deadlines, in the code's order. *)
CheckError(d) ==
    IF d.err # 0 THEN d
    ELSE IF d.state # "Error" THEN ClearError(d)
    ELSE SetState(ClearError(d), "Idle", NoCmd, "error_timer_expired")

CheckSilence(d) ==
    LET taken == [d EXCEPT !.out = Off] IN
    IF d.out # 0 THEN d
    ELSE IF d.state # "Busy" THEN taken
    ELSE SetState(taken, "Idle", NoCmd, "output_silence_expired")

CheckAttention(d) ==
    LET taken == [d EXCEPT !.att = Off] IN
    IF d.att # 0 THEN d
    ELSE IF d.state # "Idle" THEN taken
    ELSE SetState(taken, "Attention", NoCmd, "attention_timer_expired")

CheckTimers(d) == CheckAttention(CheckSilence(CheckError(d)))

(***************************************************************************)
(* process_output.                                                         *)
(***************************************************************************)

ArmSilence(d) == IF d.tui /\ d.state = "Busy" THEN [d EXCEPT !.out = OutputIdle] ELSE d

ApplyErrorPattern(d, c) ==
    IF c.error THEN [SetState(d, "Error", d.cmd, "error_pattern") EXCEPT !.err = ErrorLinger]
    ELSE d

ApplyMarkerUntimed(d, c) ==   \* mutant: only fallback output arms the deadline
    ApplyErrorPattern(
        IF c.osc = "command" THEN SetState(ClearError(d), "Busy", c.cmd, "osc133_command")
        ELSE SetState(ClearError(d), "Idle", NoCmd, "osc133_prompt"), c)

ApplyMarker(d, c) ==
    IF c.osc = "command"
    THEN ArmSilence(ApplyErrorPattern(
             SetState(ClearError(d), "Busy", c.cmd, "osc133_command"), c))
    ELSE ApplyErrorPattern(SetState(ClearError(d), "Idle", NoCmd, "osc133_prompt"), c)

FallbackBusy(d, c) ==
    IF c.error \/ c.prompt \/ ~c.text \/ d.state \notin {"Idle", "Attention"} THEN d
    ELSE SetState(ClearError(d), "Busy", NoCmd, "fallback_non_prompt_output")

FallbackPrompt(d, c) ==
    IF d.state = "Idle" \/ ~c.prompt THEN d
    ELSE SetState(ClearError(d), "Idle", NoCmd, "fallback_prompt_detected")

ApplyFallbackOnce(d, c) ==   \* mutant: output does not push the deadline back
    FallbackPrompt(FallbackBusy(ApplyErrorPattern(d, c), c), c)

ApplyFallback(d, c) ==
    ArmSilence(FallbackPrompt(FallbackBusy(ApplyErrorPattern(d, c), c), c))

ProcessOutput(d, c) ==
    LET checked == CheckTimers(d) IN
    IF c.osc = "none" THEN ApplyFallback(checked, c) ELSE ApplyMarker(checked, c)

(***************************************************************************)
(* The other calls the actor makes.                                        *)
(***************************************************************************)

NoteInput(d) ==
    IF d.state \in {"Busy", "Exited"} THEN d
    ELSE ArmSilence(SetState(ClearError(d), "Busy", NoCmd, "local_input"))

DismissAttention(d) ==
    LET cleared == [d EXCEPT !.att = Off] IN
    IF d.state = "Attention"
    THEN SetState(cleared, "Idle", NoCmd, "dismiss_attention") ELSE cleared

MarkExited(d) ==
    IF d.state = "Exited" THEN d
    ELSE SetState([ClearError(d) EXCEPT !.att = Off], "Exited", NoCmd, "process_exit")

EnableTuiToolMode(d) ==
    LET on == [d EXCEPT !.tui = TRUE] IN IF d.out = Off THEN ArmSilence(on) ELSE on

ApplyProcessLiveness(d, hasChildren) ==
    CASE d.state = "Busy" /\ ~hasChildren ->
            SetState(d, "Idle", NoCmd, "liveness_no_children")
      [] d.state = "Busy" /\ hasChildren /\ ~d.tui /\ d.cause \notin HighCauses ->
            SetState(d, "Busy", d.cmd, "liveness_has_children")
      [] d.state \in {"Idle", "Attention"} /\ hasChildren /\ ~d.tui ->
            SetState(d, "Busy", NoCmd, "liveness_has_children")
      [] OTHER -> d

InitialDetector(tui) ==
    [state |-> "Idle", cause |-> "initial_state", cmd |-> NoCmd, tui |-> tui,
     err |-> Off, att |-> Off, out |-> Off]

(* One tick of the clock brings every deadline that is set one tick nearer. *)
Elapse(left) == IF left > 0 THEN left - 1 ELSE left
ElapseAll(d) ==
    [d EXCEPT !.err = Elapse(@), !.att = Elapse(@), !.out = Elapse(@)]

Expired(d) == 0 \in {d.err, d.att, d.out}

-----------------------------------------------------------------------------
(* The error deadline is pending exactly while the session is in Error: no  *)
(* path leaves an Error that never clears itself, or a stray deadline that  *)
(* would cut a later error short (schedule_error_clear, clear_error_timer). *)
ErrorClearsItself(d) == d.err # Off <=> d.state = "Error"

(* The attention deadline is pending only while the session is Idle, so     *)
(* work that resumed is never interrupted by a stale "needs attention"      *)
(* (update_attention_timer_for_transition).                                 *)
AttentionOnlyFromIdle(d) == d.att # Off => d.state = "Idle"

(* A busy tool session always has its silence deadline armed, whichever     *)
(* call made it busy and whichever came first, tool mode or work: the       *)
(* "stay Busy forever" case the comment in set_tui_tool_mode describes.     *)
BusyToolIsTimed(d) == d.tui /\ d.state = "Busy" => d.out # Off

(* A current command is shown only for work that runs or has just failed.   *)
CommandOnlyWhileWorking(d) == d.cmd # NoCmd => d.state \in {"Busy", "Error"}

(* The four together.                                                       *)
Timed(d) ==
    /\ ErrorClearsItself(d) /\ AttentionOnlyFromIdle(d)
    /\ BusyToolIsTimed(d) /\ CommandOnlyWhileWorking(d)
=============================================================================
