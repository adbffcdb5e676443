----------------------------- MODULE ChannelSet -----------------------------
(***************************************************************************)
(* What a channel promises: a set of at most MaxSubscriptions members, and *)
(* a message that only members hear.  The program's forward_message leaves *)
(* out the entry at index 0, so one member may miss it.                    *)
(***************************************************************************)
EXTENDS Naturals, FiniteSets

CONSTANTS MaxSubscriptions, Sockets

VARIABLES members, call, heard

setVars == <<members, call, heard>>

SetInit == members = {} /\ call = <<"none">> /\ heard = {}

AddMember(s) ==
  /\ call' = <<"subscribe", s>>
  /\ members' = IF Cardinality(members) < MaxSubscriptions
                THEN members \union {s} ELSE members
  /\ heard' = {}

DropMember(s) ==
  /\ call' = <<"unsubscribe", s>>
  /\ members' = members \ {s}
  /\ heard' = {}

Hear ==
  /\ call' = <<"forward">>
  /\ heard' \in SUBSET members
  /\ Cardinality(members \ heard') <= 1
  /\ UNCHANGED members

SetNext == Hear \/ \E s \in Sockets : AddMember(s) \/ DropMember(s)

SetSpec == SetInit /\ [][SetNext]_setVars
=============================================================================
