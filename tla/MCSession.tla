----------------------------- MODULE MCSession -----------------------------
(***************************************************************************)
(* Instances of WerewolfSession for TLC.                                   *)
(***************************************************************************)
EXTENDS WerewolfSession, MCServer

\* A line of each kind; the whisper has an addressee.
SomeLines == {[kind |-> "blank", to |-> 0], [kind |-> "talk", to |-> 0],
              [kind |-> "whisper", to |-> 1]}
=============================================================================
