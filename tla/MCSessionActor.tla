--------------------------- MODULE MCSessionActor ---------------------------
(* The reads that the detector and the guard tell apart: text, escape       *)
(* sequences only, a prompt, an error, a shell-integration command, each    *)
(* passed through, and text or a prompt inside a full-screen redraw.        *)
EXTENDS SessionActor

CONSTANT tool

Data(osc, cmd, text, prompt, error) ==
    [osc |-> osc, cmd |-> cmd, text |-> text, prompt |-> prompt, error |-> error]

Text    == Data("none", NoCmd, TRUE, FALSE, FALSE)
Escapes == Data("none", NoCmd, FALSE, FALSE, FALSE)
Prompt  == Data("none", NoCmd, TRUE, TRUE, FALSE)
Failure == Data("none", NoCmd, TRUE, FALSE, TRUE)
Command == Data("command", tool, FALSE, FALSE, FALSE)

MCReads ==
    {[redraw |-> FALSE, data |-> d] : d \in {Text, Escapes, Prompt, Failure, Command}}
    \cup {[redraw |-> TRUE, data |-> d] : d \in {Text, Prompt}}
=============================================================================
