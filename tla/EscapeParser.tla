---------------------------- MODULE EscapeParser ----------------------------
(***************************************************************************)
(* The byte-level parser of the state detector (src/state/detector.rs,     *)
(* parse_chunk): it takes control sequences out of the PTY output, keeps   *)
(* its position in an unfinished one from one chunk to the next, and       *)
(* reports the visible text and the OSC 133 markers of each chunk, of      *)
(* which the last decides what the session is doing.                       *)
(*                                                                         *)
(* A byte is a member of one of the classes the code tells apart; a few    *)
(* bytes that always come together are one.  The program in the session    *)
(* prints tokens: text, whole control sequences, and sequences it never    *)
(* finishes.  The chunks are cut anywhere: any byte may be the last one.   *)
(***************************************************************************)
EXTENDS Naturals, Sequences

CONSTANTS
    Tokens,      \* what the program prints, sequences of bytes
    Unfinished,  \* those of them that it leaves open
    MaxTokens,   \* bound: tokens printed
    Limit        \* TERMINAL_STRING_RECOVERY_BYTES, 8192 in the code

-----------------------------------------------------------------------------
(* What a terminal program may print (ECMA-48, OSC 133) *)

\* "133" starts a marker's payload, "cmd" follows its kind; "high" is a
\* byte from 0x80 that introduces nothing, "c" any other letter.
Printable == {"c", "A", "C", "133", "cmd", "[", "]", "P", "st", "sp"}
C1 == {"9b", "9d", "90"}
Byte == Printable \cup C1 \cup {"high", "ESC", "BEL", "9c"}
Finals == {"c", "A", "C", "cmd", "[", "]", "P", "st"}

Plain(t) == \A i \in 1 .. Len(t) : t[i] \in Printable \cup {"high"}

\* The bytes that introduce a sequence, and what they introduce.
Intro(t) == IF t[1] = "ESC" THEN 2 ELSE 1
Begins(t, c1, final) == t[1] = c1 \/ (t[1] = "ESC" /\ t[2] = final)
Opens(t) ==
    CASE Begins(t, "9b", "[") -> "Csi"
      [] Begins(t, "9d", "]") -> "Osc"
      [] Begins(t, "90", "P") -> "String"
      [] OTHER -> "EscIntermediate"

\* After its introducer a sequence has no other; an ESC is one of an ESC and a backslash.
Introduced(t) ==
    /\ t[1] \in C1 \/ (t[1] = "ESC" /\ Len(t) > 1 /\ t[2] \in {"[", "]", "P", "sp"})
    /\ \A i \in 2 .. Len(t) :
          /\ t[i] \notin C1
          /\ t[i] = "ESC" => i < Len(t) /\ t[i + 1] = "st"

\* Where the payload ends, and the terminator of one or two bytes begins.
LastOfBody(t) == IF t[Len(t)] = "st" /\ Opens(t) \in {"Osc", "String"} THEN Len(t) - 2
                                                                     ELSE Len(t) - 1
Body(t) == SubSeq(t, Intro(t) + 1, LastOfBody(t))

Terminated(t) ==
    LET end == t[Len(t)] IN
    /\ LastOfBody(t) >= Intro(t)
    /\ CASE Opens(t) = "Csi" -> end \in Finals
         [] Opens(t) = "EscIntermediate" -> end # "sp"
         [] Opens(t) = "Osc" -> end \in {"BEL", "9c"} \/ (end = "st" /\ t[Len(t) - 1] = "ESC")
         [] Opens(t) = "String" -> end = "9c" \/ (end = "st" /\ t[Len(t) - 1] = "ESC")
    /\ \A i \in Intro(t) + 1 .. LastOfBody(t) :
          CASE Opens(t) = "Csi" -> t[i] \notin Finals
            [] Opens(t) = "EscIntermediate" -> t[i] = "sp"
            [] Opens(t) = "Osc" -> t[i] \notin {"BEL", "9c", "ESC"}
            [] Opens(t) = "String" -> t[i] \notin {"9c", "ESC"}

ASSUME ParserAssumption ==
    /\ MaxTokens \in Nat /\ Limit \in Nat
    /\ Unfinished \subseteq Tokens
    /\ \A t \in Tokens : t \in Seq(Byte) /\ t # << >>
    /\ \A t \in Unfinished : Introduced(t)
    /\ \A t \in Tokens \ Unfinished :
          \/ Plain(t)
          \/ Introduced(t) /\ Terminated(t) /\ Len(t) - Intro(t) <= Limit

\* A marker names its kind right after "133", and may say more after a semicolon.
Names(t, kind) ==
    LET b == Body(t) IN
    /\ Len(b) > 1 /\ b[1] = "133" /\ b[2] = kind
    /\ Len(b) > 2 => b[3] = "cmd"

Owes(t) ==
    IF Plain(t) \/ t \in Unfinished \/ Opens(t) # "Osc" THEN "none"
    ELSE IF Names(t, "A") THEN "prompt"
    ELSE IF Names(t, "C") THEN "command"
    ELSE "none"

-----------------------------------------------------------------------------
VARIABLES
    esc,        \* escape_state
    found,      \* the markers of the chunk under way
    decided,    \* the marker that decided last, "none" before
    token,      \* what is being printed
    at,         \* how many bytes of it have been read, 0 between two tokens
    printed,    \* how many tokens have been begun
    since,      \* bytes read since the last unfinished token began, 0 before
    markers,    \* history: the markers reported so far
    visible,    \* history: the visible bytes reported so far
    owedMarkers,\* history: the markers printed so far
    owedText    \* history: the visible bytes of the text printed so far

parserVars == <<esc, found, decided, token, at, printed, since, markers, visible, owedMarkers,
                owedText>>

-----------------------------------------------------------------------------
(* The parser: EscapeState, and one operator per state *)

Normal == [mode |-> "Normal", buf |-> << >>, pending |-> FALSE, consumed |-> 0]
In(mode) == [Normal EXCEPT !.mode = mode]

Modes == {"Normal", "Esc", "EscIntermediate", "Csi", "Osc", "String"}
EscapeState == [mode : Modes, buf : Seq(Byte), pending : BOOLEAN, consumed : 0 .. Limit]

\* What one byte does: the state it leaves, and what it adds to the ParsedChunk.
Found(e, v, m) == [esc |-> e, visible |-> v, markers |-> m]
Goes(e) == Found(e, << >>, << >>)

\* parse_osc133: the kind is the part up to the next semicolon.
MarkerOf(buf) ==
    IF Len(buf) < 2 \/ buf[1] # "133" THEN "none"
    ELSE IF Len(buf) > 2 /\ buf[3] # "cmd" THEN "none"
    ELSE CASE buf[2] = "A" -> "prompt"
           [] buf[2] = "C" -> "command"
           [] OTHER -> "none"

PushMarker(buf) ==
    Found(Normal, << >>, IF MarkerOf(buf) = "none" THEN << >> ELSE <<MarkerOf(buf)>>)

ConsumeNormal(b) ==
    CASE b = "ESC" -> Goes(In("Esc"))
      [] b = "9b"  -> Goes(In("Csi"))
      [] b = "9d"  -> Goes(In("Osc"))
      [] b = "90"  -> Goes(In("String"))
      [] b \in Printable -> Found(Normal, <<b>>, << >>)
      [] OTHER -> Goes(Normal)

ConsumeEscape(b) ==
    Goes(CASE b = "["  -> In("Csi")
           [] b = "]"  -> In("Osc")
           [] b = "P"  -> In("String")
           [] b = "sp" -> In("EscIntermediate")
           [] OTHER    -> Normal)

\* Every byte inside a sequence counts against the limit.
Counted(e) == [e EXCEPT !.consumed = @ + 1]
OverLimit(e) == e.consumed + 1 > Limit

ConsumeIntermediate(e, b) == Goes(IF OverLimit(e) \/ b # "sp" THEN Normal ELSE Counted(e))

\* Mutant of ConsumeCsi: only a final byte ends it.
ConsumeCsiUnlimited(e, b) == Goes(IF b \in Finals THEN Normal ELSE e)

ConsumeCsi(e, b) == Goes(IF OverLimit(e) \/ b \in Finals THEN Normal ELSE Counted(e))

\* A pending ESC that turns out to end nothing is dropped, the byte after it is not.
ConsumeOsc(e, b) ==
    CASE OverLimit(e) -> Goes(Normal)
      [] ~OverLimit(e) /\ e.pending ->
             IF b = "st" THEN PushMarker(e.buf)
             ELSE Goes([Counted(e) EXCEPT !.pending = FALSE,
                                          !.buf = IF b = "ESC" THEN @ ELSE Append(@, b)])
      [] ~OverLimit(e) /\ ~e.pending ->
             CASE b \in {"BEL", "9c"} -> PushMarker(e.buf)
               [] b = "ESC" -> Goes([Counted(e) EXCEPT !.pending = TRUE])
               [] OTHER -> Goes([Counted(e) EXCEPT !.buf = Append(@, b)])

ConsumeString(e, b) ==
    Goes(IF OverLimit(e) \/ b = (IF e.pending THEN "st" ELSE "9c") THEN Normal
         ELSE [Counted(e) EXCEPT !.pending = b = "ESC"])

\* consume_chunk_byte.
Consume(e, b) ==
    CASE e.mode = "Normal"          -> ConsumeNormal(b)
      [] e.mode = "Esc"             -> ConsumeEscape(b)
      [] e.mode = "EscIntermediate" -> ConsumeIntermediate(e, b)
      [] e.mode = "Csi"             -> ConsumeCsi(e, b)
      [] e.mode = "Osc"             -> ConsumeOsc(e, b)
      [] e.mode = "String"          -> ConsumeString(e, b)

\* Osc133Decision::from_markers: the last command wins unless a prompt follows it.
Decision(ms) ==
    IF \E i \in DOMAIN ms : /\ ms[i] = "command"
                            /\ \A j \in DOMAIN ms : ms[j] = "prompt" => i >= j
    THEN "command"
    ELSE IF \E i \in DOMAIN ms : ms[i] = "prompt" THEN "prompt" ELSE "none"

-----------------------------------------------------------------------------
ParserInit ==
    /\ esc = Normal /\ found = << >> /\ decided = "none"
    /\ token = << >> /\ at = 0 /\ printed = 0 /\ since = 0
    /\ markers = << >> /\ visible = << >> /\ owedMarkers = << >> /\ owedText = << >>

\* The next byte the program prints, of the token t: a new one when at = 0.
Prints(t) ==
    /\ IF at = 0 THEN printed < MaxTokens /\ printed' = printed + 1
                 ELSE t = token /\ printed' = printed
    /\ token' = t
    /\ at' = IF at + 1 = Len(t) THEN 0 ELSE at + 1
    /\ since' = IF at = 0 /\ t \in Unfinished THEN 1
                ELSE IF since > 0 THEN since + 1 ELSE 0
    /\ owedMarkers' = IF at + 1 = Len(t) /\ Owes(t) # "none" THEN Append(owedMarkers, Owes(t))
                                                           ELSE owedMarkers
    /\ owedText' = IF Plain(t) /\ t[at + 1] \in Printable THEN Append(owedText, t[at + 1])
                                                         ELSE owedText

\* A turn of parse_chunk's loop on that byte.
Parse(p) ==
    /\ esc' = p.esc
    /\ visible' = visible \o p.visible
    /\ markers' = markers \o p.markers

\* A byte inside a chunk.
ReadByte(t) ==
    LET p == Consume(esc, t[at + 1]) IN
    Prints(t) /\ Parse(p) /\ found' = found \o p.markers /\ decided' = decided

\* Mutant of ReadLast: every chunk starts in Normal.
ReadLastAfresh(t) ==
    LET p == Consume(esc, t[at + 1])
        d == Decision(found \o p.markers)
    IN
    /\ Prints(t) /\ Parse([p EXCEPT !.esc = Normal])
    /\ found' = << >>
    /\ decided' = IF d = "none" THEN decided ELSE d

\* The last byte of a chunk, and what process_output does with the markers.
ReadLast(t) ==
    LET p == Consume(esc, t[at + 1])
        d == Decision(found \o p.markers)
    IN
    /\ Prints(t) /\ Parse(p)
    /\ found' = << >>
    /\ decided' = IF d = "none" THEN decided ELSE d

ParserNext == \E t \in Tokens : ReadByte(t) \/ ReadLast(t)

ParserSpec == ParserInit /\ [][ParserNext]_parserVars

-----------------------------------------------------------------------------
(* Properties *)

ParserTypeOK ==
    /\ esc \in EscapeState
    /\ esc.mode \notin {"Osc", "String"} => ~esc.pending
    /\ esc.mode # "Osc" => esc.buf = << >>
    /\ decided \in {"none", "prompt", "command"}
    /\ at > 0 => token \in Tokens /\ at < Len(token)

WellFormed == since = 0

(***************************************************************************)
(* However the reads cut the output, every OSC 133 marker in it is         *)
(* reported at its last byte, once and in order, between control           *)
(* sequences of every other kind, and once its chunk has been processed    *)
(* the newest one decides.                                                 *)
(***************************************************************************)
MarkersAreSeen ==
    /\ WellFormed => markers = owedMarkers
    /\ found = << >> =>
          decided = IF markers = << >> THEN "none" ELSE markers[Len(markers)]

(***************************************************************************)
(* No byte of a control sequence shows as text, where it could look like a *)
(* prompt or an error, and no text is taken for one.                       *)
(***************************************************************************)
TextIsExact == WellFormed => visible = owedText

(***************************************************************************)
(* Both: where the reads cut the output makes no difference.               *)
(***************************************************************************)
CutsAreInvisible == MarkersAreSeen /\ TextIsExact

(***************************************************************************)
(* An unfinished sequence blinds the parser for a bounded time only: once  *)
(* more than the limit of bytes has followed its introducer (two bytes at  *)
(* most) the parser is in step with the output again at the next token     *)
(* boundary, even when the limit cut through a whole sequence.             *)
(***************************************************************************)
RecoversAfterLimit == at = 0 /\ since > 2 + Limit => esc = Normal
=============================================================================
