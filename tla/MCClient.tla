------------------------------ MODULE MCClient ------------------------------
(***************************************************************************)
(* Instances of WerewolfClient for TLC: the lines typed.                   *)
(***************************************************************************)
EXTENDS WerewolfClient

Line(text, command, args) == [text |-> text, command |-> command, args |-> args]

Speech  == Line("speech", NULL, "missing")
Blank   == Line("blank", NULL, "missing")
Help    == Line("command", "help", "missing")
Whisper == Line("command", "whisper", "good")

AllLines   == {Speech, Blank, Help, Line("command", NULL, "missing"),
               Line("command", "shout", "missing"), Whisper}
\* The commands that /help lists, as it shows them.
ListedOnly == {Help, Whisper, Line("command", "ww", "good")}
=============================================================================
