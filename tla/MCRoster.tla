------------------------------ MODULE MCRoster ------------------------------
(***************************************************************************)
(* Instances of GameRoster for TLC.                                        *)
(***************************************************************************)
EXTENDS GameRoster, Shuffle

CONSTANT LobbyLeaves   \* bound on the leaves before the start

\* A table scaled to three players that keeps the shape of the real one: a
\* werewolf, a villager, and a special role whose slot is the last.
ScaledConfigs == <<GameConfig(2, 2, 1, 1, <<>>), GameConfig(3, 3, 1, 1, <<"SEER">>)>>

(***************************************************************************)
(* Every player count main accepts has one row in the program's table, and *)
(* that row's werewolves and villagers fit in the player array that the    *)
(* loops of game_manager_start_game index without a check.                 *)
(***************************************************************************)
RowsFor(n) == {c \in ToSet(GAME_CONFIGS) : c.min_players <= n /\ n <= c.max_players}

ASSUME RealTableFits ==
  \A n \in 6 .. 16 :
    /\ Cardinality(RowsFor(n)) = 1
    /\ \A c \in RowsFor(n) : c.num_werewolves + c.num_villagers <= n

(***************************************************************************)
(* shuffle_array turns the players into each order by exactly one sequence *)
(* of random numbers: no order is left out and none is favoured.           *)
(***************************************************************************)
ASSUME ShuffleIsFair ==
  \A n \in 1 .. 5 :
    \A order \in Bijection(1 .. n, 1 .. n) :
      Cardinality({c \in RandResults(n) : shuffle_array([i \in 1 .. n |-> i], c) = order}) = 1

\* As many descriptors as players and one to spare.
Descriptors == 3 .. MaxPlayers + 3

\* Leaves in the lobby are counted, downwards, by the placeholder role.
BoundedLeave(s) ==
  /\ InLobby => gm.roles["UNASSIGNED"].alive_count > -LobbyLeaves
  /\ Leave(s)

BoundedNext == \E s \in Sockets : Join(s) \/ BoundedLeave(s)

BoundedSpec == Init /\ [][BoundedNext]_gm
=============================================================================
