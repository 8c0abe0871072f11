---------------------------- MODULE MCNameTyping ----------------------------
(* Two letters, the second of two bytes, a sign that reads as the first, and a
   full stop; one profane word, one too short to be one within another.       *)
EXTENDS NameTyping

CONSTANTS x, y, sign, stop

MCWidth == [c \in Chars |-> IF c = y THEN 2 ELSE 1]
MCReads == [c \in Chars |-> CASE c = sign -> x [] c = stop -> Gap [] OTHER -> c]
MCStopWords == {<<y>>}
MCProfane == {<<x, y>>, <<y, y, x>>}
=============================================================================
