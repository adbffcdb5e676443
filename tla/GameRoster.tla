----------------------------- MODULE GameRoster -----------------------------
(***************************************************************************)
(* The game manager as the server drives it: a connection accepted in the  *)
(* lobby becomes a player, and the one that fills the table starts the     *)
(* game in the same call of handle_new_connection; a player leaves when    *)
(* its connection is found closed, before or after the start.  A socket is *)
(* a small descriptor that the kernel hands out again once it is closed.   *)
(***************************************************************************)
EXTENDS GameManager

CONSTANT Sockets   \* the descriptors a client connection can get

VARIABLE gm

Seated  == ToSet(game_manager_get_players_sockets(gm))
InLobby == gm.state.current_phase = "LOBBY"

Init == gm = game_manager_create

\* Mutant: the phase is not looked at.
JoinAnyPhase(s) ==
  /\ add_player_accepts(gm, s)
  /\ LET joined == game_manager_add_player(gm, s)
     IN  IF joined.player_count = MaxPlayers
         THEN \E seat \in Seatings :
                gm' = game_manager_start_game(joined, seat)
         ELSE gm' = joined

\* handle_new_connection for a connection that gets a seat.
Join(s) ==
  /\ InLobby
  /\ add_player_accepts(gm, s)
  /\ LET joined == game_manager_add_player(gm, s)
     IN  IF joined.player_count = MaxPlayers
         THEN \E seat \in Seatings :
                gm' = game_manager_start_game(joined, seat)
         ELSE gm' = joined

\* The removal of a disconnected client from the game.
Leave(s) ==
  /\ find_player_by_socket(gm, s) # 0
  /\ gm' = game_manager_remove_player(gm, s)

Next == \E s \in Sockets : Join(s) \/ Leave(s)

Spec == Init /\ [][Next]_gm

-----------------------------------------------------------------------------
\* The shape of the game manager's fields; alive_count of a role is an Int
\* because the lobby's placeholder role is decremented and never incremented.
TypeOK == gm \in ManagerType(Sockets)

\* No connection is seated twice: whatever the order of joins, leaves and
\* reuses of a descriptor, a socket names at most one player.
SocketsDistinct ==
  \A i, j \in DOMAIN gm.players :
    gm.players[i].socket_id = gm.players[j].socket_id => i = j

\* The counters kept beside the list agree with it, so the table is never
\* overfull and "player_count == max_players" means what it says.
CountsAgree ==
  /\ gm.player_count = Len(gm.players)
  /\ gm.alive_count = Cardinality({i \in DOMAIN gm.players : gm.players[i].is_alive})
  /\ gm.player_count <= MaxPlayers

\* The phase, the flag and the roles tell one story through every leave and
\* join: in the lobby nobody has a role and there is a free seat, outside it the
\* game is started and no player is left over without a role.
PhaseCoherent ==
  /\ InLobby <=> ~gm.state.is_game_started
  /\ InLobby => gm.player_count < MaxPlayers
  /\ \A i \in DOMAIN gm.players : gm.players[i].role = "UNASSIGNED" <=> InLobby

\* The per-role bookkeeping counts the players of the list: each dealt role
\* has as many living holders as its alive_count says, and its total_count is
\* the deck's share whatever happens after the start.
RoleAccounting ==
  \A r \in DealtRoles :
    /\ gm.roles[r].alive_count =
         Cardinality({i \in DOMAIN gm.players :
                        gm.players[i].role = r /\ gm.players[i].is_alive})
    /\ gm.roles[r].total_count = IF InLobby THEN 0 ELSE DeckCount(r)

\* The number whispers are addressed to names one player.
PlayerNumbersUnique ==
  \A i, j \in DOMAIN gm.players :
    gm.players[i].player_number = gm.players[j].player_number => i = j

\* Once dealt, a role never changes hands: after the start nobody is added,
\* and every player that stays keeps its number, role and place.
HandsKept ==
  [][gm.state.is_game_started =>
       /\ gm'.state = gm.state
       /\ ToSet(gm'.players) \subseteq ToSet(gm.players)
       /\ \A r \in DealtRoles : gm'.roles[r].total_count = gm.roles[r].total_count]_gm

-----------------------------------------------------------------------------
\* The abstract lobby this machine implements: the list read as a set of
\* sockets and the role each of them holds.
HandOf(s) == game_manager_get_player_role(gm, s)

L == INSTANCE Lobby WITH seated  <- Seated,
                         hand    <- [s \in Seated |-> HandOf(s)],
                         started <- gm.state.is_game_started

\* Every step of the list, its counters and its shuffled deal is a step of
\* the abstract lobby: seats, one full deck, no change of hands.
ImplementsLobby == L!LobbySpec
=============================================================================
