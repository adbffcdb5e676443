---------------------------- MODULE GameManager ----------------------------
(***************************************************************************)
(* The operations of server/game/game_manager.c, on one game manager gm:   *)
(*                                                                         *)
(*   players        the linked list, its head (the most recent player)     *)
(*                  first; a player has its socket_id, the player_number   *)
(*                  others whisper to, its role and is_alive               *)
(*   player_count, alive_count                                             *)
(*   roles          per role, how many were dealt (total_count) and how    *)
(*                  many of them are still alive (alive_count)             *)
(*   state          phase, flags and counters of the game cycle            *)
(*                                                                         *)
(* Left out because nothing in the program ever changes them: is_protected *)
(* and has_used_ability (always false), protected_count, votes and         *)
(* vote_count.  An int that may go below 0 is an Int.                      *)
(***************************************************************************)
EXTENDS GameConfig

Phases == {"LOBBY", "NIGHT", "DAY", "VOTING", "ENDED"}

PlayerType(sockets) ==
  [socket_id : sockets, player_number : 1 .. MaxPlayers,
   role : Roles, is_alive : BOOLEAN]

ManagerType(sockets) ==
  [players : Seq(PlayerType(sockets)),
   player_count : Nat,
   alive_count : Nat,
   roles : [Roles -> [total_count : Nat, alive_count : Int]],
   state : [is_night : BOOLEAN, is_game_started : BOOLEAN,
            current_phase : Phases, day_count : Nat, night_count : Nat]]

game_manager_create ==
  [players      |-> <<>>,
   player_count |-> 0,
   alive_count  |-> 0,
   roles        |-> [r \in Roles |-> [total_count |-> 0, alive_count |-> 0]],
   state        |-> [is_night |-> FALSE, is_game_started |-> FALSE,
                     current_phase |-> "LOBBY", day_count |-> 0,
                     night_count |-> 0]]

\* The position of the first player with that socket, 0 (NULL) without one.
find_player_by_socket(gm, socket_id) ==
  SelectInSeq(gm.players, LAMBDA p : p.socket_id = socket_id)

\* The sockets of the players, in list order.
game_manager_get_players_sockets(gm) ==
  [i \in DOMAIN gm.players |-> gm.players[i].socket_id]

game_manager_get_player_role(gm, socket_id) ==
  LET i == find_player_by_socket(gm, socket_id)
  IN  IF i = 0 THEN "UNASSIGNED" ELSE gm.players[i].role

game_manager_is_player_werewolf(gm, socket_id) ==
  game_manager_get_player_role(gm, socket_id) = "WEREWOLF"

game_manager_get_player_number(gm, socket_id) ==
  LET i == find_player_by_socket(gm, socket_id)
  IN  IF i = 0 THEN -1 ELSE gm.players[i].player_number

\* The first player of the list with that number: the most recent one.
game_manager_get_socket_by_player_number(gm, player_number) ==
  LET i == SelectInSeq(gm.players, LAMBDA p : p.player_number = player_number)
  IN  IF i = 0 THEN -1 ELSE gm.players[i].socket_id

\* Mutant: a socket that already plays is added again.
add_player_accepts_known(gm, socket_id) == gm.player_count < MaxPlayers

\* game_manager_add_player refuses a known socket and a full game.
add_player_accepts(gm, socket_id) ==
  /\ find_player_by_socket(gm, socket_id) = 0
  /\ gm.player_count < MaxPlayers

\* Mutant: the new player is not counted among the living.
add_player_uncounted(gm, socket_id) ==
  [gm EXCEPT
     !.players = <<[socket_id     |-> socket_id,
                    player_number |-> gm.player_count + 1,
                    role          |-> "UNASSIGNED",
                    is_alive      |-> TRUE]>> \o @,
     !.player_count = @ + 1]

game_manager_add_player(gm, socket_id) ==
  [gm EXCEPT
     !.players = <<[socket_id     |-> socket_id,
                    player_number |-> gm.player_count + 1,
                    role          |-> "UNASSIGNED",
                    is_alive      |-> TRUE]>> \o @,
     !.player_count = @ + 1,
     !.alive_count  = @ + 1]

\* Mutant: the list is unlinked without the bookkeeping of the role.
remove_player_unaccounted(gm, socket_id) ==
  LET i == find_player_by_socket(gm, socket_id)
  IN  IF i = 0 THEN gm
      ELSE [gm EXCEPT !.players      = RemoveAt(@, i),
                      !.player_count = @ - 1,
                      !.alive_count  = @ - 1]

\* Mutant: the living are not counted down.
remove_player_stays_alive(gm, socket_id) ==
  LET i == find_player_by_socket(gm, socket_id)
  IN  IF i = 0 THEN gm
      ELSE [gm EXCEPT !.players = RemoveAt(@, i), !.player_count = @ - 1]

game_manager_remove_player(gm, socket_id) ==
  LET i    == find_player_by_socket(gm, socket_id)
      dead == IF gm.players[i].is_alive THEN 1 ELSE 0
  IN  IF i = 0 THEN gm
      ELSE [gm EXCEPT
              !.players      = RemoveAt(@, i),
              !.player_count = @ - 1,
              !.alive_count  = @ - dead,
              !.roles[gm.players[i].role].alive_count = @ - dead]

(***************************************************************************)
(* game_manager_start_game: seat is the outcome of shuffle_array, the      *)
(* position in the shuffled array of each player of the list.  The server  *)
(* starts the game with player_count = max_players only.                   *)
(***************************************************************************)
\* Mutant: a swap loses one of the two elements, another is there twice.
SeatingsLossy ==
  {[s EXCEPT ![2] = s[1]] : s \in Bijection(1 .. MaxPlayers, 1 .. MaxPlayers)}

Seatings == Bijection(1 .. MaxPlayers, 1 .. MaxPlayers)

first_night(state) ==
  [state EXCEPT !.is_game_started = TRUE,
                !.current_phase   = "NIGHT",
                !.is_night        = TRUE,
                !.night_count     = @ + 1,
                !.day_count       = 0]

game_manager_start_game(gm, seat) ==
  LET dealt(r) == Cardinality({k \in 1 .. gm.player_count : role_at(k) = r})
  IN  [gm EXCEPT
         !.players = [i \in DOMAIN @ |-> [@[i] EXCEPT !.role = role_at(seat[i])]],
         !.roles   = [r \in Roles |->
                        [total_count |-> @[r].total_count + dealt(r),
                         alive_count |-> @[r].alive_count + dealt(r)]],
         !.state   = first_night(@)]
=============================================================================
