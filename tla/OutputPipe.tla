----------------------------- MODULE OutputPipe -----------------------------
(***************************************************************************)
(* What a SessionActor promises about the output of its session, whatever  *)
(* it buffers, merges, classifies or waits for on the way: the reads of    *)
(* the PTY, numbered as they come, are passed on in their order, each      *)
(* once, none before it is made, and nothing once the session is closed.   *)
(* SessionActor implements it.                                             *)
(***************************************************************************)
EXTENDS Naturals, Sequences

VARIABLES
    produced,   \* how many reads there are
    shown,      \* those passed on, in this order
    open        \* output is still passed on

pipeVars == <<produced, shown, open>>

FirstReads(n) == [k \in 1 .. n |-> k]

Init == produced = 0 /\ shown = <<>> /\ open = TRUE

Produce == open /\ produced' = produced + 1 /\ UNCHANGED <<shown, open>>

(* What is passed on now follows what was passed on before; the close may   *)
(* come with the last of it.                                               *)
Show ==
    /\ open
    /\ \E n \in Len(shown) .. produced : shown' = FirstReads(n)
    /\ open' \in BOOLEAN
    /\ UNCHANGED produced

Next == Produce \/ Show

Spec == Init /\ [][Next]_pipeVars
=============================================================================
