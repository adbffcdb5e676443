------------------------------- MODULE Lobby -------------------------------
(***************************************************************************)
(* What the game manager promises, without lists, numbers and counters:    *)
(* connections take seats until the table is full; the last seat deals the *)
(* whole deck, one card to each; from then on nobody is added and a hand   *)
(* never changes, players only leave.                                      *)
(***************************************************************************)
EXTENDS GameConfig

CONSTANT Sockets

VARIABLES
  seated,   \* the connections that hold a seat
  hand,     \* the role of each of them
  started

lobbyVars == <<seated, hand, started>>

\* Every way to deal the deck to the players of S.
Deals(S) ==
  {h \in [S -> DealtRoles] :
     \A r \in DealtRoles : Cardinality({s \in S : h[s] = r}) = DeckCount(r)}

LobbyInit == seated = {} /\ hand = <<>> /\ started = FALSE

TakeSeat(s) ==
  /\ ~started
  /\ s \notin seated
  /\ Cardinality(seated) + 1 < MaxPlayers
  /\ seated' = seated \union {s}
  /\ hand' = [t \in seated' |-> "UNASSIGNED"]
  /\ UNCHANGED started

TakeLastSeat(s) ==
  /\ ~started
  /\ s \notin seated
  /\ Cardinality(seated) + 1 = MaxPlayers
  /\ seated' = seated \union {s}
  /\ hand' \in Deals(seated')
  /\ started' = TRUE

LeaveSeat(s) ==
  /\ s \in seated
  /\ seated' = seated \ {s}
  /\ hand' = [t \in seated' |-> hand[t]]
  /\ UNCHANGED started

LobbyNext == \E s \in Sockets : TakeSeat(s) \/ TakeLastSeat(s) \/ LeaveSeat(s)

LobbySpec == LobbyInit /\ [][LobbyNext]_lobbyVars
=============================================================================
