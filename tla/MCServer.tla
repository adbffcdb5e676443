------------------------------ MODULE MCServer ------------------------------
(***************************************************************************)
(* Instances of WerewolfServer for TLC: tables scaled to few players and   *)
(* the lines clients type.                                                 *)
(***************************************************************************)
EXTENDS WerewolfServer

\* One werewolf among two players, a pack of two among three.
PackConfigs == <<GameConfig(2, 2, 1, 1, <<>>), GameConfig(3, 3, 2, 1, <<>>)>>

NoLines  == {}
TalkOnly == {[kind |-> "talk", to |-> 0]}
WhisperOnly == {[kind |-> "whisper", to |-> 1]}
=============================================================================
