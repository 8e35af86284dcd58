------------------------------ MODULE MCViewer ------------------------------
(* A keyboard for TLC: a letter of each kind, Esc alone, and each form of  *)
(* an escape sequence (a final letter, one without meaning, a number with  *)
(* a modifier).                                                            *)
EXTENDS Viewer

Key(bytes, rawCommand, lineCmd) == [bytes |-> bytes, raw |-> rawCommand, line |-> lineCmd]

SomeKeys == {
    Key(<<"q">>, "exit", "exit"),
    Key(<<"r">>, "rescan", "rescan"),
    Key(<<"ESC">>, "none", "none"),
    Key(<<"ESC", "O", "A">>, "up", "none"),
    Key(<<"ESC", "[", "C">>, "none", "none"),
    Key(<<"ESC", "[", "6", ";", "5", "~">>, "pagedown", "none") }
=============================================================================
