--------------------------- MODULE MCEscapeParser ---------------------------
(* Tokens of every kind: text, colours, markers in both encodings, titles,  *)
(* private strings, and one unfinished sequence of each mode.               *)
EXTENDS EscapeParser

MCUnfinished ==
    {<<"ESC", "]", "c">>,
     <<"90", "c">>,
     <<"9b", "133">>,
     <<"ESC", "sp">>}

MCTokens ==
    MCUnfinished \cup
    {<<"c">>,
     <<"sp", "sp">>,
     <<"high", "high">>,
     <<"ESC", "[", "133", "c">>,
     <<"ESC", "sp", "c">>,
     <<"ESC", "]", "133", "C", "cmd", "BEL">>,
     <<"ESC", "]", "133", "A", "ESC", "st">>,
     <<"9d", "133", "A", "9c">>,
     <<"ESC", "]", "c", "BEL">>,
     <<"ESC", "P", "]", "ESC", "st">>}
=============================================================================
