----------------------------- MODULE TmuxBreaker -----------------------------
(***************************************************************************)
(* The bounded tmux commands of one tmux server and the circuit breaker    *)
(* that guards it (src/session/actor.rs, TMUX_HEALTH).  Every command has  *)
(* a timeout.  A command that times out opens the breaker: for 30 seconds  *)
(* times the number of timeouts in a row, at most 120, nonessential probes *)
(* fail at once and leave the server alone.  Essential commands always     *)
(* run.  Any command the server answers, with whatever exit status,        *)
(* removes the entry.  The breakers of two servers share nothing but the   *)
(* mutex of the map, so one server is modelled.  One tick is 30 seconds.   *)
(***************************************************************************)
EXTENDS Naturals

CONSTANTS
    Callers,    \* the tasks that run tmux commands, one command at a time each
    Probes,     \* those whose commands have the role NonessentialProbe
    MaxMultiplier,  \* the longest cooldown in ticks, 4 in the code
    MaxHangs    \* bound: how often the server hangs

ASSUME BreakerAssumption ==
    /\ Probes \subseteq Callers
    /\ MaxMultiplier \in Nat \ {0}
    /\ MaxHangs \in Nat

VARIABLES
    timeouts,   \* consecutive_timeouts; 0: the map has no entry
    cooling,    \* ticks until cooldown_until; 0: none, or in the past
    running,    \* callers whose command is running
    hung,       \* the server does not answer
    stuck,      \* running commands that met the hang: they may time out
    hangs,      \* hangs so far
    lastEnd     \* history: how the last command that ended did end

breakerVars == <<timeouts, cooling, running, hung, stuck, hangs, lastEnd>>

\* More timeouts than MaxMultiplier behave the same and are not counted.
BreakerTypeOK ==
    /\ timeouts \in 0..MaxMultiplier
    /\ cooling \in 0..MaxMultiplier
    /\ running \subseteq Callers
    /\ stuck \subseteq running
    /\ hung \in BOOLEAN
    /\ hangs \in 0..MaxHangs
    /\ lastEnd \in {"none", "answered", "timeout"}

BreakerInit ==
    /\ timeouts = 0
    /\ cooling = 0
    /\ running = {}
    /\ hung = FALSE
    /\ stuck = {}
    /\ hangs = 0
    /\ lastEnd = "none"

\* tmux_probe_cooldown_duration, in ticks.
Cooldown(n) == IF n < 1 THEN 1 ELSE IF n > MaxMultiplier THEN MaxMultiplier ELSE n

\* should_skip_tmux_command.
Skipped(c) == c \in Probes /\ cooling > 0

Start(c) ==
    /\ c \notin running
    /\ ~Skipped(c)
    /\ running' = running \cup {c}
    /\ stuck' = IF hung THEN stuck \cup {c} ELSE stuck
    /\ UNCHANGED <<timeouts, cooling, hung, hangs, lastEnd>>

Ended(c) ==
    /\ c \in running
    /\ running' = running \ {c}
    /\ stuck' = stuck \ {c}
    /\ UNCHANGED <<hung, hangs>>

\* Mutant of Answer: the count of timeouts outlives an answer.
AnswerKeepingCount(c) ==
    /\ ~hung
    /\ Ended(c)
    /\ cooling' = 0
    /\ lastEnd' = "answered"
    /\ UNCHANGED timeouts

\* record_tmux_command_success: the output arrived, the status may be a failure.
Answer(c) ==
    /\ ~hung
    /\ Ended(c)
    /\ timeouts' = 0
    /\ cooling' = 0
    /\ lastEnd' = "answered"

\* record_tmux_command_timeout; the client process is killed.
TimeOut(c) ==
    /\ c \in stuck
    /\ Ended(c)
    /\ timeouts' = IF timeouts < MaxMultiplier THEN timeouts + 1 ELSE timeouts
    /\ cooling' = Cooldown(timeouts')
    /\ lastEnd' = "timeout"

\* The command could not be spawned: neither a timeout nor a success.
SpawnFails(c) ==
    /\ Ended(c)
    /\ UNCHANGED <<timeouts, cooling, lastEnd>>

Tick ==
    /\ cooling > 0
    /\ cooling' = cooling - 1
    /\ UNCHANGED <<timeouts, running, hung, stuck, hangs, lastEnd>>

\* The server, not this program.
Hang ==
    /\ ~hung
    /\ hangs < MaxHangs
    /\ hung' = TRUE
    /\ hangs' = hangs + 1
    /\ stuck' = running
    /\ UNCHANGED <<timeouts, cooling, running, lastEnd>>

Recover ==
    /\ hung
    /\ hung' = FALSE
    /\ UNCHANGED <<timeouts, cooling, running, stuck, hangs, lastEnd>>

(***************************************************************************)
(* A cooldown stands only on a timeout that no answer has followed: a      *)
(* probe is skipped only while the last command that ended timed out, even *)
(* when several commands run at once and end in any order.                 *)
(***************************************************************************)
SkipsAreJustified == cooling > 0 => lastEnd = "timeout" /\ timeouts > 0

(***************************************************************************)
(* Once the server answers again the breaker closes for good, by the first *)
(* command of either role that is answered: cooldowns end, probes are let  *)
(* through and none of the timeouts left over from the hang reopens it for *)
(* ever.                                                                   *)
(***************************************************************************)
BreakerRecovers == <>[](timeouts = 0 \/ hung)
=============================================================================
