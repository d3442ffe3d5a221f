--------------------------- MODULE DetectorCalls ---------------------------
(***************************************************************************)
(* One StateDetector (src/state/detector.rs) driven by every order of the  *)
(* calls its actor can make.  Two history variables only observe it: quiet *)
(* counts the ticks since output or an input that started work, idleFor    *)
(* the ticks spent Idle without a break.  Both stop counting at the delay  *)
(* they are compared with.                                                 *)
(***************************************************************************)
EXTENDS StateDetector

VARIABLES
    detector,   \* the record of the StateDetector
    quiet,      \* ticks of silence
    idleFor     \* ticks of unbroken Idle

callVars == <<detector, quiet, idleFor>>

CapAt(n, bound) == IF n < bound THEN n ELSE bound
StayIdle ==
    idleFor' = IF detector.state = "Idle" /\ detector'.state = "Idle" THEN idleFor ELSE 0

CallInit ==
    /\ \E tui \in BOOLEAN : detector = InitialDetector(tui)
    /\ quiet = 0
    /\ idleFor = 0

OutputCall ==
    /\ \E c \in Chunk : detector' = ProcessOutput(detector, c)
    /\ quiet' = 0
    /\ StayIdle

InputCall ==
    /\ detector' = NoteInput(detector)
    /\ quiet' = IF detector' = detector THEN quiet ELSE 0
    /\ StayIdle

DismissCall == detector' = DismissAttention(detector) /\ StayIdle /\ UNCHANGED quiet

ExitCall == detector' = MarkExited(detector) /\ StayIdle /\ UNCHANGED quiet

ToolCall == detector' = EnableTuiToolMode(detector) /\ StayIdle /\ UNCHANGED quiet

LivenessCall ==
    /\ \E hasChildren \in BOOLEAN : detector' = ApplyProcessLiveness(detector, hasChildren)
    /\ StayIdle /\ UNCHANGED quiet

TimersCall ==
    /\ Expired(detector)
    /\ detector' = CheckTimers(detector)
    /\ StayIdle /\ UNCHANGED quiet

ClockTick ==
    /\ detector' = ElapseAll(detector)
    /\ quiet' = CapAt(quiet + 1, OutputIdle)
    /\ idleFor' = IF detector.state = "Idle" THEN CapAt(idleFor + 1, AttentionDelay) ELSE 0

CallNext ==
    OutputCall \/ InputCall \/ DismissCall \/ ExitCall \/ ToolCall \/ LivenessCall
    \/ TimersCall \/ ClockTick

(* The actor sleeps until next_deadline and then calls check_timers, so an  *)
(* expired deadline is noticed and time does not stop.                      *)
CallSpec == CallInit /\ [][CallNext]_callVars /\ WF_callVars(TimersCall) /\ WF_callVars(ClockTick)

-----------------------------------------------------------------------------
CallTypeOK ==
    /\ detector \in Detector
    /\ quiet \in 0 .. OutputIdle
    /\ idleFor \in 0 .. AttentionDelay

(* The couplings of states, deadlines and command hold of the detector: no  *)
(* single place of the code sets or clears them, yet no order of calls      *)
(* leaves one in a state it does not belong to, or such a state without it. *)
StatesAreTimed == Timed(detector)

(* Silence ends a turn only after OutputIdle ticks without any output: a    *)
(* deadline left over from an earlier turn never cuts a later one short.    *)
SilenceIsReal ==
    [][detector'.cause = "output_silence_expired" /\ detector.cause # "output_silence_expired"
       => quiet = OutputIdle]_callVars

(* Attention is asked for only after AttentionDelay ticks of unbroken Idle. *)
AttentionIsEarned ==
    [][detector'.state = "Attention" /\ detector.state # "Attention"
       => idleFor = AttentionDelay]_callVars

(* Neither deadline fires for a spell that is over. *)
DeadlinesAreEarned == SilenceIsReal /\ AttentionIsEarned

(* A tool that falls silent does not stay Busy, and an error does not stay  *)
(* on screen, unless new output arrives.                                    *)
SilentToolSettles ==
    detector.tui /\ detector.state = "Busy" /\ quiet > 0
        ~> detector.state # "Busy" \/ quiet = 0
ErrorFades == detector.state = "Error" /\ quiet > 0 ~> detector.state # "Error" \/ quiet = 0

(* Both: the timers settle every spell of work and every error.             *)
SettlesInTheEnd == SilentToolSettles /\ ErrorFades
=============================================================================
