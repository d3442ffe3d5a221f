---------------------------- MODULE InputDelivery ----------------------------
(***************************************************************************)
(* How the actor of one session delivers terminal input                    *)
(* (src/session/actor.rs, src/session/actor/tmux_input.rs) and what the    *)
(* client is told of it (src/web/mod.rs, src/api/sessions/core_routes.rs). *)
(* The actor works on one request at a time.  Text it can type with tmux   *)
(* goes out as one send-keys command per chunk, a submitted line as a      *)
(* paste and two Enters, both after a send-keys -X cancel whose outcome is *)
(* ignored.  Whatever tmux cannot type, and whatever tmux failed to type   *)
(* before anything was confirmed, is written to the PTY of the attached    *)
(* tmux client.  A command that times out may have been obeyed, may be     *)
(* obeyed when the server recovers, or never.  The client waits two        *)
(* seconds and then reports that nothing was delivered.                    *)
(***************************************************************************)
EXTENDS TmuxBreaker, SequencesExt

CONSTANTS
    Actor,        \* the caller that is the session's actor
    Writes,       \* requests WriteInput and WriteInputAck
    Submits,      \* requests SubmitLine and SubmitLineAck
    Acked,        \* those of the requests with a client that waits for the result
    Chunks,       \* chunks of the text of a write
    NoRequest

Requests == Writes \cup Submits

ASSUME InputAssumption ==
    /\ Actor \in Callers \ Probes
    /\ Chunks \in Nat \ {0}
    /\ NoRequest \notin Requests
    /\ Writes \cap Submits = {}
    /\ Acked \subseteq Requests

VARIABLES
    mailbox,      \* requests sent to the actor and not yet received
    current,      \* the request it works on
    stage,        \* "idle", "tmux" or "pty"
    at,           \* which command of the request's script is next or running
    pane,         \* the keys of each request that the session's program got
    wire,         \* bytes written to the PTY that the tmux client has not read
    late,         \* keys of timed out commands that the server may still type
    alive,        \* the tmux session exists
    closed,       \* pty_closed: the actor has noticed that it does not
    said,         \* the InputDeliveryResult of each request
    told,         \* what its client was told
    unsure        \* history: keys whose command timed out

inputVars == <<mailbox, current, stage, at, pane, wire, late, alive, closed,
               said, told, unsure>>
vars == <<breakerVars, inputVars>>

Results == {"sent", "partial", "pty", "failed"}

\* The keys a request stands for: a submitted line is its text and two Enters.
Size(r) == IF r \in Writes THEN Chunks ELSE 3
WholeText(r) == [k \in 1..Size(r) |-> k]
Keys(r) == [k \in 1..Size(r) |-> <<r, k>>]

\* The tmux commands of a request, each by the key it types; 0 types nothing
\* (-X cancel and set-buffer).
Script(r) == IF r \in Writes THEN <<0>> \o WholeText(r) ELSE <<0, 0, 1, 2, 3>>

AllKeys == UNION {{<<r, k>> : k \in 1..Size(r)} : r \in Requests}

TypeOK ==
    /\ BreakerTypeOK
    /\ mailbox \in Seq(Requests)
    /\ stage \in {"idle", "tmux", "pty"}
    /\ current \in Requests \cup {NoRequest}
    /\ (stage = "idle") <=> (current = NoRequest)
    /\ stage = "tmux" => at \in 1..Len(Script(current))
    /\ Actor \in running => stage = "tmux"
    /\ \A r \in Requests : pane[r] \in Seq(1..Size(r))
    /\ wire \in Seq(AllKeys)
    /\ late \subseteq unsure
    /\ unsure \subseteq AllKeys
    /\ closed => ~alive
    /\ said \in [Requests -> Results \cup {"none"}]
    /\ told \in [Requests -> Results \cup {"unsent", "nothing", "waiting", "timeout"}]

Init ==
    /\ BreakerInit
    /\ mailbox = << >>
    /\ current = NoRequest
    /\ stage = "idle"
    /\ at = 1
    /\ pane = [r \in Requests |-> << >>]
    /\ wire = << >>
    /\ late = {}
    /\ alive = TRUE
    /\ closed = FALSE
    /\ said = [r \in Requests |-> "none"]
    /\ told = [r \in Requests |-> "unsent"]
    /\ unsure = {}

-----------------------------------------------------------------------------
(* The clients *)

Send(r) ==
    /\ told[r] = "unsent"
    /\ told' = [told EXCEPT ![r] = IF r \in Acked THEN "waiting" ELSE "nothing"]
    /\ mailbox' = Append(mailbox, r)
    /\ UNCHANGED <<breakerVars, current, stage, at, pane, wire, late, alive,
                   closed, said, unsure>>

\* send_delivery_ack, wait_for_input_delivery: the wait ends, the request stays.
GiveUp(r) ==
    /\ told[r] = "waiting"
    /\ told' = [told EXCEPT ![r] = "timeout"]
    /\ UNCHANGED <<breakerVars, mailbox, current, stage, at, pane, wire, late,
                   alive, closed, said, unsure>>

\* The result goes to the oneshot, whether anybody still waits or not.
Answered(r, result) ==
    /\ said' = [said EXCEPT ![r] = result]
    /\ told' = [told EXCEPT ![r] = IF @ = "waiting" THEN result ELSE @]

-----------------------------------------------------------------------------
(* The actor *)

Finish(result) ==
    /\ Answered(current, result)
    /\ stage' = "idle"
    /\ current' = NoRequest
    /\ at' = 1

\* handle_write_input and handle_submit_line up to their first command.  A write
\* with a control character or invalid UTF-8 has no chunks and goes to the PTY.
Receive ==
    /\ stage = "idle"
    /\ mailbox # << >>
    /\ mailbox' = Tail(mailbox)
    /\ IF closed
       THEN /\ Answered(Head(mailbox), "failed")
            /\ UNCHANGED <<current, stage, at>>
       ELSE /\ current' = Head(mailbox)
            /\ \/ stage' = "tmux"
               \/ stage' = "pty" /\ Head(mailbox) \in Writes
            /\ at' = 1
            /\ UNCHANGED <<said, told>>
    /\ UNCHANGED <<breakerVars, pane, wire, late, alive, closed, unsure>>

Issue ==
    /\ stage = "tmux"
    /\ Start(Actor)
    /\ UNCHANGED inputVars

Key == Script(current)[at]
Type(r, k) == pane' = [pane EXCEPT ![r] = Append(@, k)]

\* The next command of the script, or the end of the request.
Advance ==
    IF at = Len(Script(current))
    THEN Finish("sent")
    ELSE /\ at' = at + 1
         /\ UNCHANGED <<stage, current, said, told>>

\* The chunks that tmux_write_input_error_result counts; a submit counts none.
ConfirmedChunks == IF current \in Writes THEN at - 2 ELSE 0

\* Mutants of Missed: the buffer is replayed after confirmed chunks, a partial
\* delivery passes for a complete one, the cancel is repeated until it works.
MissedAndReplayed ==
    IF at = 1 THEN Advance
    ELSE /\ stage' = "pty"
         /\ UNCHANGED <<current, at, said, told>>

MissedSilently ==
    IF at = 1 THEN Advance
    ELSE IF ConfirmedChunks > 0 THEN Finish("sent")
    ELSE /\ stage' = "pty"
         /\ UNCHANGED <<current, at, said, told>>

MissedWaiting ==
    IF at = 1 THEN UNCHANGED <<stage, current, at, said, told>>
    ELSE IF ConfirmedChunks > 0 THEN Finish("partial")
    ELSE /\ stage' = "pty"
         /\ UNCHANGED <<current, at, said, told>>

\* A command failed.  The cancel does not count; a write that has confirmed
\* chunks ends as partial; everything else is written to the PTY.
Missed ==
    IF at = 1 THEN Advance
    ELSE IF ConfirmedChunks > 0 THEN Finish("partial")
    ELSE /\ stage' = "pty"
         /\ UNCHANGED <<current, at, said, told>>

CommandSucceeds ==
    /\ alive
    /\ Answer(Actor)
    /\ IF Key = 0 THEN UNCHANGED pane ELSE Type(current, Key)
    /\ Advance
    /\ UNCHANGED <<mailbox, wire, late, alive, closed, unsure>>

\* An exit status that is not 0: the cancel outside copy mode, any command
\* once the session is gone, or another fault.
CommandFails ==
    /\ Answer(Actor)
    /\ Missed
    /\ UNCHANGED <<mailbox, pane, wire, late, alive, closed, unsure>>

CommandTimesOut ==
    /\ TimeOut(Actor)
    /\ \/ UNCHANGED late
       \/ alive /\ Key # 0 /\ late' = late \cup {<<current, Key>>}
    /\ unsure' = IF Key = 0 THEN unsure ELSE unsure \cup {<<current, Key>>}
    /\ Missed
    /\ UNCHANGED <<mailbox, pane, wire, alive, closed>>

CommandNotSpawned ==
    /\ SpawnFails(Actor)
    /\ Missed
    /\ UNCHANGED <<mailbox, pane, wire, late, alive, closed, unsure>>

\* Mutant of Written: the PTY gets what follows the chunk that failed.
WrittenFromTheRest == wire \o SubSeq(Keys(current), 2, Size(current))

\* The whole request, whatever part of it tmux may have typed.
Written == wire \o Keys(current)

\* write_and_flush_input.
WritePty ==
    /\ stage = "pty"
    /\ wire' = Written
    /\ Finish("pty")
    /\ UNCHANGED <<breakerVars, mailbox, pane, late, alive, closed, unsure>>

\* write_all may have written the beginning when it fails.
WritePtyFails ==
    /\ stage = "pty"
    /\ \E n \in 0..(Size(current) - 1) : wire' = wire \o SubSeq(Keys(current), 1, n)
    /\ Finish("failed")
    /\ UNCHANGED <<breakerVars, mailbox, pane, late, alive, closed, unsure>>

\* mark_pty_closed: only between two requests.
NoticeExit ==
    /\ stage = "idle"
    /\ ~alive
    /\ ~closed
    /\ closed' = TRUE
    /\ UNCHANGED <<breakerVars, mailbox, current, stage, at, pane, wire, late,
                   alive, said, told, unsure>>

-----------------------------------------------------------------------------
(* tmux: the server and the attached client *)

Relay ==
    /\ alive
    /\ ~hung
    /\ wire # << >>
    /\ Type(Head(wire)[1], Head(wire)[2])
    /\ wire' = Tail(wire)
    /\ UNCHANGED <<breakerVars, mailbox, current, stage, at, late, alive, closed,
                   said, told, unsure>>

TypeLate(x) ==
    /\ alive
    /\ ~hung
    /\ x \in late
    /\ Type(x[1], x[2])
    /\ late' = late \ {x}
    /\ UNCHANGED <<breakerVars, mailbox, current, stage, at, wire, alive, closed,
                   said, told, unsure>>

SessionEnds ==
    /\ alive
    /\ alive' = FALSE
    /\ UNCHANGED <<breakerVars, mailbox, current, stage, at, pane, wire, late,
                   closed, said, told, unsure>>

\* Probes of this and of other sessions' tasks on the same server.
ProbeStarts(p) == p \in Probes /\ Start(p) /\ UNCHANGED inputVars
ProbeIsAnswered(p) == p \in Probes /\ Answer(p) /\ UNCHANGED inputVars
ProbeTimesOut(p) == p \in Probes /\ TimeOut(p) /\ UNCHANGED inputVars
ProbeNotSpawned(p) == p \in Probes /\ SpawnFails(p) /\ UNCHANGED inputVars
ProbeEnds(p) == ProbeIsAnswered(p) \/ ProbeTimesOut(p) \/ ProbeNotSpawned(p)

Server == (Hang \/ Recover \/ Tick) /\ UNCHANGED inputVars

CommandEnds ==
    CommandSucceeds \/ CommandFails \/ CommandTimesOut \/ CommandNotSpawned

ActorStep ==
    \/ Receive
    \/ Issue
    \/ CommandEnds
    \/ WritePty \/ WritePtyFails
    \/ NoticeExit

Next ==
    \/ \E r \in Requests : Send(r) \/ GiveUp(r)
    \/ ActorStep
    \/ Relay
    \/ \E x \in AllKeys : TypeLate(x)
    \/ SessionEnds
    \/ \E p \in Probes : ProbeStarts(p) \/ ProbeEnds(p)
    \/ Server

Fairness ==
    /\ WF_vars(ActorStep)
    /\ WF_vars(Relay)
    /\ WF_vars(Tick /\ UNCHANGED inputVars)
    /\ \A p \in Probes : /\ WF_vars(ProbeStarts(p) \/ ProbeEnds(p))
                         /\ SF_vars(ProbeIsAnswered(p))

Spec == Init /\ [][Next]_vars /\ Fairness

-----------------------------------------------------------------------------
(* Properties *)

OnTheWay(r) == {k \in 1..Size(r) : Contains(wire, <<r, k>>)}
Arrived(r) == ToSet(pane[r])

(***************************************************************************)
(* Text is not typed twice: a chunk of a write reaches the session a       *)
(* second time only when it is the first one and its command timed out, so *)
(* that nothing was confirmed when the whole buffer went to the PTY.       *)
(***************************************************************************)
OnlyUnconfirmedRepeats ==
    \A r \in Writes : \A i, j \in 1..Len(pane[r]) :
        pane[r][i] = pane[r][j] /\ i # j => pane[r][i] = 1 /\ <<r, 1>> \in unsure

(***************************************************************************)
(* What the actor says of a request is what happened to it: "sent" means   *)
(* typed completely, once and in order; "partial" a beginning of it, once; *)
(* "pty" that all of it is at the session or on its way there.             *)
(***************************************************************************)
AnswerIsTrue ==
    \A r \in Requests :
        /\ said[r] = "sent" => pane[r] = WholeText(r)
        /\ said[r] = "partial" =>
               /\ pane[r] # << >>
               /\ IsPrefix(pane[r], WholeText(r))
        /\ said[r] = "pty" => Arrived(r) \cup OnTheWay(r) = 1..Size(r)

(***************************************************************************)
(* No request stays unanswered by the actor, whatever tmux does: every     *)
(* command ends by an answer or its timeout and the fallback always ends   *)
(* the request.                                                            *)
(***************************************************************************)
EveryRequestIsAnswered ==
    <>[](\A r \in Requests : told[r] # "unsent" => said[r] # "none")

(***************************************************************************)
(* Input that was reported delivered is eventually typed, unless the       *)
(* session ends or the server hangs for ever.                              *)
(***************************************************************************)
DeliveredArrives ==
    <>[](\A r \in Requests : said[r] \in {"sent", "pty"} =>
             Arrived(r) = 1..Size(r) \/ ~alive \/ hung)
=============================================================================
