--------------------------- MODULE GameRosterProofs ---------------------------
(***************************************************************************)
(* Proofs about GameRoster, for every number of players, every table of    *)
(* configurations that fits it and every set of sockets.                   *)
(***************************************************************************)
EXTENDS GameRoster, GameManagerProofs

\* The inductive invariant: the game manager is in order.
IInv == Good(Sockets, gm)

\* The invariant implies what the runs check.
LEMMA GoodImplies ==
  IInv => TypeOK /\ SocketsDistinct /\ CountsAgree /\ PhaseCoherent
<1> SUFFICES ASSUME IInv PROVE TypeOK /\ SocketsDistinct /\ CountsAgree /\ PhaseCoherent
  OBVIOUS
<1>1. TypeOK /\ SocketsDistinct
  BY DEF IInv, Good, TypeOK, SocketsDistinct, Distinct
<1>2. CountsAgree
  BY EveryoneAlive DEF IInv, Good, Counted, CountsAgree
<1>3. PhaseCoherent
  <2>1. "UNASSIGNED" \notin DealtRoles /\ "LOBBY" # "NIGHT"
    BY DEF DealtRoles
  <2>2. CASE Waiting(gm) /\ gm.player_count < MaxPlayers
    BY <2>1, <2>2 DEF IInv, Good, Phased, Waiting, Living, PhaseCoherent, InLobby
  <2>3. CASE Dealt(gm)
    BY <2>1, <2>3 DEF IInv, Good, Phased, Dealt, Living, PhaseCoherent, InLobby
  <2> QED
    BY <2>2, <2>3 DEF IInv, Good
<1> QED
  BY <1>1, <1>2, <1>3

\* A join, the start included, keeps the invariant.
LEMMA GoodJoin ==
  ASSUME IInv, NEW s \in Sockets, Join(s)
  PROVE  IInv'
<1> DEFINE h == game_manager_add_player(gm, s)
<1>1. /\ h \in ManagerType(Sockets)
      /\ Distinct(h) /\ Living(h) /\ Counted(h) /\ Phased(h) /\ Waiting(h)
  BY SeatTaken DEF IInv, Join, InLobby
<1>2. CASE h.player_count = MaxPlayers
  <2>1. PICK seat \in Seatings : gm' = game_manager_start_game(h, seat)
    BY <1>2 DEF Join
  <2> HIDE DEF h
  <2>2. Good(Sockets, game_manager_start_game(h, seat))
    BY <1>1, <1>2, GameStarted
  <2> QED
    BY <2>1, <2>2 DEF IInv
<1>3. CASE h.player_count # MaxPlayers
  <2>1. gm' = h
    BY <1>3 DEF Join
  <2>2. h.player_count < MaxPlayers
    BY <1>1, <1>3, PlayersAssumption, ManagerFields DEF Counted
  <2> HIDE DEF h
  <2>3. Good(Sockets, h)
    BY <1>1, <2>2 DEF Good
  <2> QED
    BY <2>1, <2>3 DEF IInv
<1> QED
  BY <1>2, <1>3

\* A leave keeps the invariant.
LEMMA GoodLeave ==
  ASSUME IInv, NEW s \in Sockets, Leave(s)
  PROVE  IInv'
BY SeatLeft DEF IInv, Leave

(***************************************************************************)
(* The invariant holds in every state the game manager can reach.          *)
(***************************************************************************)
THEOREM Invariance == Spec => []IInv
<1>1. Init => IInv
  BY GoodCreate DEF Init, IInv
<1>2. IInv /\ [Next]_gm => IInv'
  <2> SUFFICES ASSUME IInv, [Next]_gm PROVE IInv'
    OBVIOUS
  <2>1. ASSUME NEW s \in Sockets, Join(s) PROVE IInv'
    BY <2>1, GoodJoin
  <2>2. ASSUME NEW s \in Sockets, Leave(s) PROVE IInv'
    BY <2>2, GoodLeave
  <2>3. CASE UNCHANGED gm
    BY <2>3 DEF IInv
  <2> QED
    BY <2>1, <2>2, <2>3 DEF Next
<1> QED
  BY <1>1, <1>2, PTL DEF Spec

\* Type correctness of the game manager: its fields keep their shape through
\* every sequence of joins, leaves and the start.
THEOREM TypeCorrect == Spec => []TypeOK
BY Invariance, GoodImplies, PTL

\* No socket is ever seated twice, for any number of players and any reuse of
\* descriptors by handle_new_connection.
THEOREM NoSocketTwice == Spec => []SocketsDistinct
BY Invariance, GoodImplies, PTL

\* player_count and alive_count always agree with the list of players and never
\* exceed max_players.
THEOREM CountersRight == Spec => []CountsAgree
BY Invariance, GoodImplies, PTL

\* The lobby has a free seat and no roles, a started game has a role for
\* everybody.
THEOREM PhasesRight == Spec => []PhaseCoherent
BY Invariance, GoodImplies, PTL

(***************************************************************************)
(* One step after the start is a player leaving, or nothing.               *)
(***************************************************************************)
LEMMA HandsKeptStep ==
  ASSUME IInv, [Next]_gm, gm.state.is_game_started
  PROVE  /\ gm'.state = gm.state
         /\ ToSet(gm'.players) \subseteq ToSet(gm.players)
         /\ \A r \in DealtRoles : gm'.roles[r].total_count = gm.roles[r].total_count
<1>1. ASSUME NEW s \in Sockets, Join(s) PROVE FALSE
  BY <1>1 DEF IInv, Good, Phased, Join, InLobby
<1>2. ASSUME NEW s \in Sockets, Leave(s)
      PROVE  /\ gm'.state = gm.state
             /\ ToSet(gm'.players) \subseteq ToSet(gm.players)
             /\ \A r \in DealtRoles : gm'.roles[r].total_count = gm.roles[r].total_count
  <2> DEFINE h == game_manager_remove_player(gm, s)
             k == find_player_by_socket(gm, s)
             n == Len(gm.players)
  <2>1. gm \in ManagerType(Sockets) /\ n \in Nat /\ DOMAIN gm.players = 1 .. n
        /\ gm.player_count = n /\ gm.alive_count = n
    BY ManagerFields DEF IInv, Good, Counted
  <2>2. /\ k \in 1 .. n
        /\ h \in ManagerType(Sockets)
        /\ Len(h.players) = n - 1
        /\ \A i \in 1 .. Len(h.players) :
             h.players[i] = gm.players[IF i < k THEN i ELSE i + 1]
        /\ h.state = gm.state
        /\ \A r \in Roles :
             h.roles[r] = [total_count |-> gm.roles[r].total_count,
                           alive_count |-> gm.roles[r].alive_count
                                           - IF r = gm.players[k].role THEN 1 ELSE 0]
    BY <1>2, <2>1, RemoveEffect DEF IInv, Good, Leave
  <2>3. DOMAIN h.players = 1 .. n - 1 /\ gm' = h
    BY <1>2, <2>2, ManagerFields DEF Leave
  <2> HIDE DEF h, k, n
  <2>4. ToSet(h.players) \subseteq ToSet(gm.players)
    <3>1. \A i \in 1 .. n - 1 : (IF i < k THEN i ELSE i + 1) \in DOMAIN gm.players
      BY <2>1, <2>2
    <3> QED
      BY <2>2, <2>3, <3>1 DEF ToSet
  <2>5. \A r \in DealtRoles : h.roles[r].total_count = gm.roles[r].total_count
    <3> TAKE r \in DealtRoles
    <3>1. r \in Roles
      BY DEF DealtRoles
    <3>2. \E a : h.roles[r] = [total_count |-> gm.roles[r].total_count,
                              alive_count |-> a]
      BY <2>2, <3>1
    <3> QED
      BY <3>2
  <2> QED
    BY <2>2, <2>3, <2>4, <2>5
<1> QED
  BY <1>1, <1>2 DEF Next

\* Once the game has started no step adds a player, changes a role, a number or
\* the phase, or redeals: handle_new_connection refuses, and
\* game_manager_remove_player takes one player out and touches no other.
THEOREM HandsStayDealt == Spec => HandsKept
<1>1. IInv /\ [Next]_gm =>
        [gm.state.is_game_started =>
           /\ gm'.state = gm.state
           /\ ToSet(gm'.players) \subseteq ToSet(gm.players)
           /\ \A r \in DealtRoles :
                gm'.roles[r].total_count = gm.roles[r].total_count]_gm
  BY HandsKeptStep
<1> QED
  BY <1>1, Invariance, PTL DEF Spec, HandsKept
=============================================================================
