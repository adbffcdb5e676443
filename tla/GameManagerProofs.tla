------------------------- MODULE GameManagerProofs -------------------------
(***************************************************************************)
(* What the operations of GameManager do to a game manager, for every      *)
(* number of players, every table of configurations that fits it and every *)
(* set S of sockets, and the condition that all of them keep.  The         *)
(* machines that drive a game manager are proved from these lemmas.        *)
(***************************************************************************)
EXTENDS GameManager, TLAPS, FiniteSetTheorems, SequenceTheorems

(***************************************************************************)
(* The inductive invariant, said of a game manager g.  Each part needs the *)
(* others: a join keeps sockets distinct because find_player_by_socket     *)
(* sees every player, the counters decide when the game starts, and a full *)
(* table is what makes the start leave nobody without a role.              *)
(***************************************************************************)
Distinct(g) == \A i, j \in DOMAIN g.players :
                 g.players[i].socket_id = g.players[j].socket_id => i = j
Living(g)   == \A i \in DOMAIN g.players : g.players[i].is_alive
Counted(g)  == /\ g.player_count = Len(g.players)
               /\ g.alive_count = Len(g.players)
               /\ g.player_count <= MaxPlayers
Phased(g)   == g.state.current_phase = IF g.state.is_game_started THEN "NIGHT" ELSE "LOBBY"
Waiting(g)  == /\ ~g.state.is_game_started
               /\ \A i \in DOMAIN g.players : g.players[i].role = "UNASSIGNED"
Dealt(g)    == /\ g.state.is_game_started
               /\ \A i \in DOMAIN g.players : g.players[i].role \in DealtRoles

Good(S, g) ==
  /\ g \in ManagerType(S)
  /\ Distinct(g) /\ Living(g) /\ Counted(g) /\ Phased(g)
  /\ (Waiting(g) /\ g.player_count < MaxPlayers) \/ Dealt(g)

-----------------------------------------------------------------------------

(***************************************************************************)
(* What find_player_by_socket returns on a list without duplicates: 0 when *)
(* nobody has the socket, otherwise the place of the one player that has.  *)
(***************************************************************************)
LEMMA FindPlayer ==
  ASSUME NEW S, NEW g \in ManagerType(S), NEW s, Distinct(g)
  PROVE  /\ find_player_by_socket(g, s) \in 0 .. Len(g.players)
         /\ find_player_by_socket(g, s) = 0 =>
              \A i \in 1 .. Len(g.players) : g.players[i].socket_id # s
         /\ find_player_by_socket(g, s) # 0 =>
              g.players[find_player_by_socket(g, s)].socket_id = s
<1> DEFINE I == {i \in 1 .. Len(g.players) : g.players[i].socket_id = s}
<1>1. find_player_by_socket(g, s) = IF I # {} THEN Min(I) ELSE 0
  BY DEF find_player_by_socket, SelectInSeq
<1>2. Len(g.players) \in Nat /\ DOMAIN g.players = 1 .. Len(g.players)
  BY LenProperties DEF ManagerType
<1>3. CASE I = {}
  BY <1>1, <1>2, <1>3
<1>4. CASE I # {}
  <2>1. PICK i \in I : TRUE
    BY <1>4
  <2>2. \A x \in I : x = i
    BY <2>1, <1>2 DEF Distinct
  <2>3. Min(I) \in I
    <3>1. i \in I /\ \A y \in I : i <= y
      BY <2>1, <2>2, <1>2
    <3> HIDE DEF I
    <3> QED
      BY <3>1 DEF Min
  <2> QED
    BY <1>1, <1>2, <1>4, <2>3
<1> QED
  BY <1>3, <1>4

\* A seating gives each position of the array to exactly one player.
LEMMA SeatingIsABijection ==
  ASSUME NEW n \in Nat, NEW seat \in Bijection(1 .. n, 1 .. n)
  PROVE  /\ seat \in [1 .. n -> 1 .. n]
         /\ \A i, j \in 1 .. n : seat[i] = seat[j] => i = j
         /\ \A k \in 1 .. n : \E i \in 1 .. n : seat[i] = k
BY DEF Bijection, Injection, Surjection, IsInjective

(***************************************************************************)
(* The role dealt at any place of a full table is one of the game's.       *)
(***************************************************************************)
LEMMA DealtRole ==
  ASSUME NEW k \in 1 .. MaxPlayers
  PROVE  role_at(k) \in DealtRoles
<1>1. config.special_roles \in Seq(DealtRoles)
  BY ConfigAssumption
<1>2. \A j \in DOMAIN config.special_roles : config.special_roles[j] \in DealtRoles
  BY <1>1
<1> QED
  BY <1>2 DEF role_at, DealtRoles, Roles

(***************************************************************************)
(* A manager is the record of its five fields, of their types.             *)
(***************************************************************************)
LEMMA ManagerFields ==
  ASSUME NEW S, NEW g \in ManagerType(S)
  PROVE  /\ g = [players |-> g.players, player_count |-> g.player_count,
                 alive_count |-> g.alive_count, roles |-> g.roles, state |-> g.state]
         /\ g.players \in Seq(PlayerType(S))
         /\ Len(g.players) \in Nat
         /\ DOMAIN g.players = 1 .. Len(g.players)
         /\ g.player_count \in Nat
         /\ g.alive_count \in Nat
         /\ g.roles \in [Roles -> [total_count : Nat, alive_count : Int]]
BY LenProperties DEF ManagerType

(***************************************************************************)
(* game_manager_add_player puts the new player before the others.          *)
(***************************************************************************)
LEMMA AddEffect ==
  ASSUME NEW S, NEW g \in ManagerType(S), NEW s \in S,
         g.player_count < MaxPlayers
  PROVE  LET h == game_manager_add_player(g, s) IN
         /\ h \in ManagerType(S)
         /\ Len(h.players) = Len(g.players) + 1
         /\ h.players[1].socket_id = s
         /\ h.players[1].role = "UNASSIGNED"
         /\ h.players[1].is_alive
         /\ \A i \in 2 .. Len(h.players) : h.players[i] = g.players[i - 1]
         /\ h.player_count = g.player_count + 1
         /\ h.alive_count = g.alive_count + 1
         /\ h.roles = g.roles
         /\ h.state = g.state
<1> DEFINE p == [socket_id |-> s, player_number |-> g.player_count + 1,
                 role |-> "UNASSIGNED", is_alive |-> TRUE]
           h == game_manager_add_player(g, s)
<1>1. p \in PlayerType(S)
  <2>1. g.player_count + 1 \in 1 .. MaxPlayers
    BY ManagerFields, PlayersAssumption
  <2> QED
    BY <2>1 DEF PlayerType, Roles
<1>2. /\ <<p>> \in Seq(PlayerType(S)) /\ Len(<<p>>) = 1 /\ <<p>>[1] = p
      /\ g.players \in Seq(PlayerType(S)) /\ Len(g.players) \in Nat
  BY <1>1, ManagerFields
<1>3. /\ h.players = <<p>> \o g.players
      /\ h.player_count = g.player_count + 1
      /\ h.alive_count = g.alive_count + 1
      /\ h.roles = g.roles
      /\ h.state = g.state
      /\ h = [players |-> h.players, player_count |-> h.player_count,
              alive_count |-> h.alive_count, roles |-> h.roles, state |-> h.state]
  <2> DEFINE q == <<p>> \o g.players
  <2>1. h = [g EXCEPT !.players = q, !.player_count = g.player_count + 1,
                      !.alive_count = g.alive_count + 1]
    BY DEF game_manager_add_player
  <2>2. g = [players |-> g.players, player_count |-> g.player_count,
             alive_count |-> g.alive_count, roles |-> g.roles, state |-> g.state]
    BY ManagerFields
  <2> HIDE DEF q, h, p
  <2>3. h = [players |-> q, player_count |-> g.player_count + 1,
             alive_count |-> g.alive_count + 1, roles |-> g.roles, state |-> g.state]
    BY <2>1, <2>2
  <2> QED
    BY <2>3 DEF q
<1> HIDE DEF p, h
<1>4. /\ h.players \in Seq(PlayerType(S))
      /\ Len(h.players) = 1 + Len(g.players)
      /\ \A i \in 1 .. 1 + Len(g.players) :
           h.players[i] = IF i <= 1 THEN <<p>>[i] ELSE g.players[i - 1]
  BY <1>2, <1>3, ConcatProperties
<1>5. h \in ManagerType(S)
  <2>1. h.player_count \in Nat /\ h.alive_count \in Nat
    BY <1>3, ManagerFields
  <2> QED
    BY <1>3, <1>4, <2>1 DEF ManagerType
<1>6. h.players[1] = p
  BY <1>2, <1>4
<1>7. p.socket_id = s /\ p.role = "UNASSIGNED" /\ p.is_alive
  BY DEF p
<1> QED
  BY <1>2, <1>3, <1>4, <1>5, <1>6, <1>7 DEF h

(***************************************************************************)
(* game_manager_remove_player takes out one player and keeps the order of  *)
(* the others.                                                             *)
(***************************************************************************)
LEMMA RemoveEffect ==
  ASSUME NEW S, NEW g \in ManagerType(S), NEW s, Distinct(g), Living(g),
         g.player_count = Len(g.players), g.alive_count = Len(g.players),
         find_player_by_socket(g, s) # 0
  PROVE  LET h == game_manager_remove_player(g, s)
             k == find_player_by_socket(g, s)
         IN
         /\ k \in 1 .. Len(g.players)
         /\ g.players[k].socket_id = s
         /\ h \in ManagerType(S)
         /\ Len(h.players) = Len(g.players) - 1
         /\ \A i \in 1 .. Len(h.players) :
              h.players[i] = g.players[IF i < k THEN i ELSE i + 1]
         /\ h.player_count = g.player_count - 1
         /\ h.alive_count = g.alive_count - 1
         /\ h.state = g.state
         /\ \A r \in Roles :
              h.roles[r] = [total_count |-> g.roles[r].total_count,
                            alive_count |-> g.roles[r].alive_count
                                            - IF r = g.players[k].role THEN 1 ELSE 0]
<1> DEFINE h == game_manager_remove_player(g, s)
           k == find_player_by_socket(g, s)
           n == Len(g.players)
<1>1. g.players \in Seq(PlayerType(S)) /\ n \in Nat /\ DOMAIN g.players = 1 .. n
  BY LenProperties DEF ManagerType
<1>2. k \in 1 .. n /\ g.players[k].socket_id = s
  <2>1. k \in 0 .. n /\ (k # 0 => g.players[k].socket_id = s)
    BY <1>1, FindPlayer
  <2> QED
    BY <2>1, <1>1
<1>3. g.players[k] \in PlayerType(S) /\ g.players[k].role \in Roles /\ g.players[k].is_alive
  <2>1. g.players[k] \in PlayerType(S)
    BY <1>1, <1>2, ElementOfSeq
  <2> QED
    BY <1>1, <1>2, <2>1 DEF PlayerType, Living
<1>4. /\ h.players = RemoveAt(g.players, k)
      /\ h.player_count = g.player_count - 1
      /\ h.alive_count = g.alive_count - 1
      /\ h.state = g.state
      /\ h.roles = [g.roles EXCEPT ![g.players[k].role].alive_count = @ - 1]
      /\ h = [players |-> h.players, player_count |-> h.player_count,
              alive_count |-> h.alive_count, roles |-> h.roles, state |-> h.state]
  BY <1>3 DEF game_manager_remove_player, ManagerType
<1> HIDE DEF h, k
<1>5. /\ h.players \in Seq(PlayerType(S))
      /\ Len(h.players) = n - 1
      /\ \A i \in 1 .. n - 1 : h.players[i] = g.players[IF i < k THEN i ELSE i + 1]
  <2> DEFINE a == SubSeq(g.players, 1, k - 1)
             b == SubSeq(g.players, k + 1, n)
  <2>1. \A i \in 1 .. n : g.players[i] \in PlayerType(S)
    BY <1>1, ElementOfSeq
  <2>2. /\ a \in Seq(PlayerType(S)) /\ Len(a) = k - 1
        /\ \A i \in 1 .. k - 1 : a[i] = g.players[i]
    <3>1. \A i \in 1 .. k - 1 : g.players[i] \in PlayerType(S)
      BY <1>1, <1>2, <2>1
    <3> QED
      BY <1>1, <1>2, <3>1, SubSeqProperties
  <2>3. /\ b \in Seq(PlayerType(S)) /\ Len(b) = n - k
        /\ \A i \in 1 .. n - k : b[i] = g.players[k + i]
    <3>1. \A i \in k + 1 .. n : g.players[i] \in PlayerType(S)
      BY <1>1, <1>2, <2>1
    <3>2. /\ b \in Seq(PlayerType(S))
          /\ Len(b) = IF k + 1 <= n THEN n - (k + 1) + 1 ELSE 0
          /\ \A i \in 1 .. n - (k + 1) + 1 : b[i] = g.players[k + 1 + i - 1]
      BY <1>1, <1>2, <3>1, SubSeqProperties
    <3> QED
      BY <1>1, <1>2, <3>2
  <2>4. h.players = a \o b
    BY <1>4 DEF RemoveAt
  <2> HIDE DEF a, b
  <2>5. /\ a \o b \in Seq(PlayerType(S))
        /\ Len(a \o b) = Len(a) + Len(b)
        /\ \A i \in 1 .. Len(a) + Len(b) :
             (a \o b)[i] = IF i <= Len(a) THEN a[i] ELSE b[i - Len(a)]
    <3>1. a \in Seq(PlayerType(S)) /\ b \in Seq(PlayerType(S))
      BY <2>2, <2>3
    <3> QED
      BY <3>1, ConcatProperties
  <2>6. Len(a) + Len(b) = n - 1
    BY <1>1, <1>2, <2>2, <2>3
  <2>7. ASSUME NEW i \in 1 .. n - 1
        PROVE  h.players[i] = g.players[IF i < k THEN i ELSE i + 1]
    <3>1. CASE i < k
      BY <1>1, <1>2, <2>2, <2>4, <2>5, <2>6, <3>1
    <3>2. CASE ~(i < k)
      <4>1. i - (k - 1) \in 1 .. n - k /\ k + (i - (k - 1)) = i + 1
        BY <1>1, <1>2, <3>2
      <4>2. (a \o b)[i] = b[i - (k - 1)]
        BY <1>1, <1>2, <2>2, <2>5, <2>6, <3>2
      <4> QED
        BY <2>3, <2>4, <3>2, <4>1, <4>2
    <3> QED
      BY <3>1, <3>2
  <2> QED
    BY <2>4, <2>5, <2>6, <2>7
<1>6. g.roles \in [Roles -> [total_count : Nat, alive_count : Int]]
  BY DEF ManagerType
<1>7. /\ h.roles \in [Roles -> [total_count : Nat, alive_count : Int]]
      /\ \A r \in Roles :
           h.roles[r] = [total_count |-> g.roles[r].total_count,
                         alive_count |-> g.roles[r].alive_count
                                         - IF r = g.players[k].role THEN 1 ELSE 0]
  BY <1>3, <1>4, <1>6
<1>8. n - 1 \in Nat
  BY <1>1, <1>2
<1>9. h \in ManagerType(S)
  <2>1. h.player_count \in Nat /\ h.alive_count \in Nat
    BY <1>1, <1>4, <1>8
  <2>2. h.state \in [is_night : BOOLEAN, is_game_started : BOOLEAN,
                     current_phase : Phases, day_count : Nat, night_count : Nat]
    BY <1>4 DEF ManagerType
  <2> QED
    BY <1>4, <1>5, <1>7, <2>1, <2>2 DEF ManagerType
<1> QED
  BY <1>1, <1>2, <1>4, <1>5, <1>7, <1>9 DEF h, k

(***************************************************************************)
(* game_manager_start_game on a full table changes roles, totals and phase *)
(* and nothing else of a player.                                           *)
(***************************************************************************)
LEMMA StartEffect ==
  ASSUME NEW S, NEW g \in ManagerType(S), NEW seat \in Seatings,
         g.player_count = MaxPlayers, Len(g.players) = MaxPlayers
  PROVE  LET h == game_manager_start_game(g, seat) IN
         /\ h \in ManagerType(S)
         /\ Len(h.players) = MaxPlayers
         /\ \A i \in 1 .. MaxPlayers :
              /\ h.players[i].socket_id = g.players[i].socket_id
              /\ h.players[i].is_alive = g.players[i].is_alive
              /\ h.players[i].role = role_at(seat[i])
              /\ h.players[i].role \in DealtRoles
         /\ h.player_count = MaxPlayers
         /\ h.alive_count = g.alive_count
         /\ h.state.is_game_started
         /\ h.state.current_phase = "NIGHT"
         /\ \A r \in Roles :
              LET dealt == Cardinality({k \in 1 .. MaxPlayers : role_at(k) = r})
              IN  h.roles[r] = [total_count |-> g.roles[r].total_count + dealt,
                                alive_count |-> g.roles[r].alive_count + dealt]
<1> DEFINE h == game_manager_start_game(g, seat)
           dealt(r) == Cardinality({k \in 1 .. MaxPlayers : role_at(k) = r})
           pl == [i \in 1 .. MaxPlayers |->
                    [g.players[i] EXCEPT !.role = role_at(seat[i])]]
           ro == [r \in Roles |-> [total_count |-> g.roles[r].total_count + dealt(r),
                                   alive_count |-> g.roles[r].alive_count + dealt(r)]]
           st == first_night(g.state)
<1>1. MaxPlayers \in Nat
  BY PlayersAssumption
<1>2. \A i \in 1 .. MaxPlayers : seat[i] \in 1 .. MaxPlayers
  BY <1>1, SeatingIsABijection DEF Seatings
<1>3. \A i \in 1 .. MaxPlayers : role_at(seat[i]) \in DealtRoles
  BY <1>2, DealtRole
<1>4. \A r : dealt(r) \in Nat
  <2> TAKE r
  <2>1. IsFiniteSet(1 .. MaxPlayers)
    BY <1>1, FS_Interval
  <2>2. {k \in 1 .. MaxPlayers : role_at(k) = r} \in SUBSET (1 .. MaxPlayers)
    OBVIOUS
  <2>3. IsFiniteSet({k \in 1 .. MaxPlayers : role_at(k) = r})
    BY <2>1, <2>2, FS_Subset
  <2> QED
    BY <2>3, FS_CardinalityType
<1>5. \A i \in 1 .. MaxPlayers : g.players[i] \in PlayerType(S)
  BY ManagerFields, ElementOfSeq
<1>6. ASSUME NEW i \in 1 .. MaxPlayers
      PROVE  /\ pl[i] \in PlayerType(S)
             /\ pl[i].socket_id = g.players[i].socket_id
             /\ pl[i].is_alive = g.players[i].is_alive
             /\ pl[i].role = role_at(seat[i])
  <2> DEFINE q == g.players[i]
             c == role_at(seat[i])
  <2>1. q \in PlayerType(S) /\ c \in Roles
    BY <1>3, <1>5 DEF DealtRoles
  <2>2. pl[i] = [q EXCEPT !.role = c]
    OBVIOUS
  <2> HIDE DEF q, c, pl
  <2>3. /\ pl[i] \in PlayerType(S)
        /\ pl[i].socket_id = q.socket_id
        /\ pl[i].is_alive = q.is_alive
        /\ pl[i].role = c
    BY <2>1, <2>2 DEF PlayerType
  <2> QED
    BY <2>3 DEF q, c
<1>7. pl \in Seq(PlayerType(S)) /\ Len(pl) = MaxPlayers
  <2>1. pl \in [1 .. MaxPlayers -> PlayerType(S)]
    BY <1>6
  <2> HIDE DEF pl
  <2> QED
    BY <1>1, <2>1
<1>8. ro \in [Roles -> [total_count : Nat, alive_count : Int]]
  <2>1. \A r \in Roles : g.roles[r].total_count \in Nat /\ g.roles[r].alive_count \in Int
    BY ManagerFields
  <2> HIDE DEF dealt
  <2> QED
    BY <1>4, <2>1
<1>9. st \in [is_night : BOOLEAN, is_game_started : BOOLEAN, current_phase : Phases,
              day_count : Nat, night_count : Nat]
      /\ st.is_game_started /\ st.current_phase = "NIGHT"
  <2> DEFINE t == g.state
  <2>1. t \in [is_night : BOOLEAN, is_game_started : BOOLEAN, current_phase : Phases,
               day_count : Nat, night_count : Nat]
    BY DEF ManagerType
  <2>2. st = [t EXCEPT !.is_game_started = TRUE, !.current_phase = "NIGHT",
                       !.is_night = TRUE, !.night_count = t.night_count + 1,
                       !.day_count = 0]
    BY DEF first_night
  <2> HIDE DEF t, st
  <2>3. st = [is_night |-> TRUE, is_game_started |-> TRUE, current_phase |-> "NIGHT",
              day_count |-> 0, night_count |-> t.night_count + 1]
    BY <2>1, <2>2
  <2>4. t.night_count + 1 \in Nat
    BY <2>1
  <2> QED
    BY <2>3, <2>4 DEF Phases
<1>10. h = [players |-> pl, player_count |-> g.player_count,
            alive_count |-> g.alive_count, roles |-> ro, state |-> st]
  <2>1. DOMAIN g.players = 1 .. MaxPlayers
    BY ManagerFields
  <2>2. h = [g EXCEPT !.players = pl, !.roles = ro, !.state = st]
    <3> DEFINE roN == [r \in Roles |->
                        [total_count |-> g.roles[r].total_count
                           + Cardinality({k \in 1 .. g.player_count : role_at(k) = r}),
                         alive_count |-> g.roles[r].alive_count
                           + Cardinality({k \in 1 .. g.player_count : role_at(k) = r})]]
               plN == [i \in DOMAIN g.players |->
                        [g.players[i] EXCEPT !.role = role_at(seat[i])]]
    <3>1. h = [g EXCEPT !.players = plN, !.roles = roN, !.state = st]
      BY DEF game_manager_start_game
    <3>2. plN = pl
      BY <2>1
    <3>3. roN = ro
      BY g.player_count = MaxPlayers
    <3> HIDE DEF plN, roN, pl, ro, st, h
    <3> QED
      BY <3>1, <3>2, <3>3
  <2>3. g = [players |-> g.players, player_count |-> g.player_count,
             alive_count |-> g.alive_count, roles |-> g.roles, state |-> g.state]
    BY ManagerFields
  <2> HIDE DEF pl, ro, st, h
  <2> QED
    BY <2>2, <2>3
<1>11. h \in ManagerType(S)
  <2>1. g.player_count \in Nat /\ g.alive_count \in Nat
    BY ManagerFields
  <2> HIDE DEF pl, ro, st, h
  <2> QED
    BY <1>7, <1>8, <1>9, <1>10, <2>1 DEF ManagerType
<1>12. \A r \in Roles : h.roles[r] = ro[r]
  <2> HIDE DEF pl, ro, st, h
  <2> QED
    BY <1>10
<1>13. /\ h.players = pl /\ h.player_count = MaxPlayers
       /\ h.alive_count = g.alive_count /\ h.state = st
  <2> HIDE DEF pl, ro, st, h
  <2> QED
    BY <1>10
<1>14. \A i \in 1 .. MaxPlayers :
         /\ pl[i].socket_id = g.players[i].socket_id
         /\ pl[i].is_alive = g.players[i].is_alive
         /\ pl[i].role = role_at(seat[i])
         /\ pl[i].role \in DealtRoles
  BY <1>3, <1>6
<1>15. \A r \in Roles :
         h.roles[r] = [total_count |-> g.roles[r].total_count + dealt(r),
                       alive_count |-> g.roles[r].alive_count + dealt(r)]
  BY <1>12
<1> HIDE DEF pl, ro, st, h
<1>16. /\ h \in ManagerType(S)
       /\ Len(h.players) = MaxPlayers
       /\ \A i \in 1 .. MaxPlayers :
            /\ h.players[i].socket_id = g.players[i].socket_id
            /\ h.players[i].is_alive = g.players[i].is_alive
            /\ h.players[i].role = role_at(seat[i])
            /\ h.players[i].role \in DealtRoles
       /\ h.player_count = MaxPlayers
       /\ h.alive_count = g.alive_count
       /\ h.state.is_game_started
       /\ h.state.current_phase = "NIGHT"
  BY <1>7, <1>9, <1>11, <1>13, <1>14
<1> QED
  BY <1>15, <1>16 DEF h

\* When nobody has died the living are as many as the players.
LEMMA EveryoneAlive ==
  ASSUME NEW S, NEW g \in ManagerType(S), Living(g)
  PROVE  Cardinality({i \in DOMAIN g.players : g.players[i].is_alive}) = Len(g.players)
<1>1. {i \in DOMAIN g.players : g.players[i].is_alive} = 1 .. Len(g.players)
  BY ManagerFields DEF Living
<1>2. Cardinality(1 .. Len(g.players)) = Len(g.players)
  <2>1. Len(g.players) \in Nat
    BY ManagerFields
  <2> QED
    BY <2>1, FS_Interval
<1> QED
  BY <1>1, <1>2

\* A new game manager is good.
LEMMA GoodCreate ==
  ASSUME NEW S
  PROVE  Good(S, game_manager_create)
<1> DEFINE g == game_manager_create
<1>1. g.players = <<>> /\ g.player_count = 0 /\ g.alive_count = 0
      /\ g.roles = [r \in Roles |-> [total_count |-> 0, alive_count |-> 0]]
      /\ ~g.state.is_game_started /\ g.state.current_phase = "LOBBY"
      /\ g.state.day_count = 0 /\ g.state.night_count = 0
  BY DEF game_manager_create
<1>2. DOMAIN g.players = {} /\ Len(g.players) = 0
  BY <1>1
<1>3. g \in ManagerType(S)
  BY DEF game_manager_create, ManagerType, Phases
<1>4. 0 < MaxPlayers
  BY PlayersAssumption
<1> HIDE DEF g
<1>5. Distinct(g) /\ Living(g) /\ Waiting(g)
  BY <1>1, <1>2 DEF Distinct, Living, Waiting
<1>6. Counted(g) /\ Phased(g)
  BY <1>1, <1>2, PlayersAssumption DEF Counted, Phased
<1>7. Good(S, g)
  BY <1>1, <1>3, <1>4, <1>5, <1>6 DEF Good
<1> QED
  BY <1>7 DEF g

(***************************************************************************)
(* A seat taken in the lobby, before the start the last one causes.        *)
(***************************************************************************)
LEMMA SeatTaken ==
  ASSUME NEW S, NEW g, NEW s \in S,
         Good(S, g), g.state.current_phase = "LOBBY", add_player_accepts(g, s)
  PROVE  LET h == game_manager_add_player(g, s) IN
         /\ h \in ManagerType(S)
         /\ Distinct(h) /\ Living(h) /\ Counted(h) /\ Phased(h) /\ Waiting(h)
<1> DEFINE h == game_manager_add_player(g, s)
           n == Len(g.players)
<1>1. g \in ManagerType(S) /\ n \in Nat /\ DOMAIN g.players = 1 .. n
      /\ g.player_count = n /\ g.alive_count = n /\ n < MaxPlayers
  BY ManagerFields DEF Good, Counted, add_player_accepts
<1>2. Waiting(g)
  BY DEF Good, Phased, Dealt
<1>3. \A i \in 1 .. n : g.players[i].socket_id # s
  BY <1>1, FindPlayer DEF Good, add_player_accepts
<1>4. /\ h \in ManagerType(S)
      /\ Len(h.players) = n + 1
      /\ h.players[1].socket_id = s
      /\ h.players[1].role = "UNASSIGNED"
      /\ h.players[1].is_alive
      /\ \A i \in 2 .. Len(h.players) : h.players[i] = g.players[i - 1]
      /\ h.player_count = n + 1
      /\ h.alive_count = n + 1
      /\ h.state = g.state
  <2>1. g \in ManagerType(S) /\ g.player_count < MaxPlayers
    BY <1>1
  <2> HIDE DEF n
  <2>2. /\ h \in ManagerType(S)
        /\ Len(h.players) = Len(g.players) + 1
        /\ h.players[1].socket_id = s
        /\ h.players[1].role = "UNASSIGNED"
        /\ h.players[1].is_alive
        /\ \A i \in 2 .. Len(h.players) : h.players[i] = g.players[i - 1]
        /\ h.player_count = g.player_count + 1
        /\ h.alive_count = g.alive_count + 1
        /\ h.state = g.state
    BY <2>1, AddEffect
  <2> HIDE DEF h
  <2> QED
    BY <1>1, <2>2 DEF n
<1>5. DOMAIN h.players = 1 .. n + 1
  BY <1>4, ManagerFields
<1> HIDE DEF h, n
<1>6. \A i \in 1 .. n + 1 : i = 1 \/ (i \in 2 .. Len(h.players) /\ i - 1 \in 1 .. n)
  BY <1>1, <1>4
<1>7. Distinct(h)
  <2> SUFFICES ASSUME NEW i \in 1 .. n + 1, NEW j \in 1 .. n + 1,
                      h.players[i].socket_id = h.players[j].socket_id
               PROVE  i = j
    BY <1>5 DEF Distinct
  <2>1. CASE i = 1 /\ j = 1
    BY <2>1
  <2>2. CASE i = 1 /\ j # 1
    BY <1>3, <1>4, <1>6, <2>2
  <2>3. CASE i # 1 /\ j = 1
    BY <1>3, <1>4, <1>6, <2>3
  <2>4. CASE i # 1 /\ j # 1
    <3>1. g.players[i - 1].socket_id = g.players[j - 1].socket_id
      BY <1>4, <1>6, <2>4
    <3>2. i - 1 \in DOMAIN g.players /\ j - 1 \in DOMAIN g.players
      BY <1>1, <1>6, <2>4
    <3>3. i - 1 = j - 1
      BY <3>1, <3>2 DEF Good, Distinct
    <3> QED
      BY <1>1, <3>3
  <2> QED
    BY <2>1, <2>2, <2>3, <2>4
<1>8. Living(h)
  BY <1>1, <1>4, <1>5, <1>6 DEF Good, Living
<1>9. Waiting(h)
  <2> SUFFICES ASSUME NEW i \in 1 .. n + 1 PROVE h.players[i].role = "UNASSIGNED"
    BY <1>2, <1>4, <1>5 DEF Waiting
  <2>1. CASE i = 1
    BY <1>4, <2>1
  <2>2. CASE i # 1
    BY <1>1, <1>2, <1>4, <1>6, <2>2 DEF Waiting
  <2> QED
    BY <2>1, <2>2
<1>10. Counted(h) /\ Phased(h)
  BY <1>1, <1>4, PlayersAssumption DEF Good, Counted, Phased
<1> QED
  BY <1>4, <1>7, <1>8, <1>9, <1>10 DEF h

(***************************************************************************)
(* The start of the game on a full table.                                  *)
(***************************************************************************)
LEMMA GameStarted ==
  ASSUME NEW S, NEW h \in ManagerType(S), NEW seat \in Seatings,
         Distinct(h), Living(h), Counted(h), h.player_count = MaxPlayers
  PROVE  LET g == game_manager_start_game(h, seat) IN
         /\ Good(S, g)
         /\ g.state.is_game_started
         /\ Len(g.players) = MaxPlayers
         /\ \A i \in 1 .. MaxPlayers : g.players[i].socket_id = h.players[i].socket_id
<1> DEFINE g == game_manager_start_game(h, seat)
<1>1. Len(h.players) = MaxPlayers /\ h.alive_count = MaxPlayers
      /\ DOMAIN h.players = 1 .. MaxPlayers
  BY ManagerFields DEF Counted
<1>2. /\ g \in ManagerType(S)
      /\ Len(g.players) = MaxPlayers
      /\ \A i \in 1 .. MaxPlayers :
           /\ g.players[i].socket_id = h.players[i].socket_id
           /\ g.players[i].is_alive = h.players[i].is_alive
           /\ g.players[i].role \in DealtRoles
      /\ g.player_count = MaxPlayers
      /\ g.alive_count = MaxPlayers
      /\ g.state.is_game_started
      /\ g.state.current_phase = "NIGHT"
  BY <1>1, StartEffect
<1>3. DOMAIN g.players = 1 .. MaxPlayers /\ MaxPlayers \in Nat
  BY <1>2, ManagerFields, PlayersAssumption
<1> HIDE DEF g
<1>4. Distinct(g) /\ Living(g)
  BY <1>1, <1>2, <1>3 DEF Distinct, Living
<1>5. Counted(g) /\ Phased(g) /\ Dealt(g)
  BY <1>2, <1>3 DEF Counted, Phased, Dealt
<1>6. Good(S, g)
  BY <1>2, <1>4, <1>5 DEF Good
<1> QED
  BY <1>2, <1>6 DEF g

(***************************************************************************)
(* A player removed, before the start or after it.                         *)
(***************************************************************************)
LEMMA SeatLeft ==
  ASSUME NEW S, NEW g, NEW s, Good(S, g), find_player_by_socket(g, s) # 0
  PROVE  Good(S, game_manager_remove_player(g, s))
<1> DEFINE h == game_manager_remove_player(g, s)
           k == find_player_by_socket(g, s)
           n == Len(g.players)
<1>1. g \in ManagerType(S) /\ n \in Nat /\ DOMAIN g.players = 1 .. n
      /\ g.player_count = n /\ g.alive_count = n /\ n <= MaxPlayers
  BY ManagerFields DEF Good, Counted
<1>2. /\ k \in 1 .. n
      /\ h \in ManagerType(S)
      /\ Len(h.players) = n - 1
      /\ \A i \in 1 .. Len(h.players) :
           h.players[i] = g.players[IF i < k THEN i ELSE i + 1]
      /\ h.player_count = n - 1
      /\ h.alive_count = n - 1
      /\ h.state = g.state
  BY <1>1, RemoveEffect DEF Good
<1>3. DOMAIN h.players = 1 .. n - 1
  BY <1>2, ManagerFields
<1> HIDE DEF h, k, n
<1> DEFINE up(i) == IF i < k THEN i ELSE i + 1
<1>4. \A i \in 1 .. n - 1 : up(i) \in 1 .. n /\ h.players[i] = g.players[up(i)]
  BY <1>1, <1>2
<1>5. \A i, j \in 1 .. n - 1 : up(i) = up(j) => i = j
  BY <1>1, <1>2
<1> HIDE DEF up
<1>6. Distinct(h)
  <2>1. \A i, j \in 1 .. Len(g.players) :
          g.players[i].socket_id = g.players[j].socket_id => i = j
    BY <1>1 DEF Good, Distinct
  <2> SUFFICES ASSUME NEW i \in 1 .. n - 1, NEW j \in 1 .. n - 1,
                      h.players[i].socket_id = h.players[j].socket_id
               PROVE  i = j
    BY <1>3 DEF Distinct
  <2>2. up(i) \in 1 .. n /\ up(j) \in 1 .. n
        /\ g.players[up(i)].socket_id = g.players[up(j)].socket_id
    BY <1>4
  <2>3. up(i) = up(j)
    BY <2>1, <2>2 DEF n
  <2> QED
    BY <1>5, <2>3
<1>7. Living(h)
  BY <1>1, <1>3, <1>4 DEF Good, Living
<1>8. Counted(h) /\ Phased(h)
  BY <1>1, <1>2, PlayersAssumption DEF Good, Counted, Phased
<1>9. Waiting(g) => Waiting(h) /\ h.player_count < MaxPlayers
  BY <1>1, <1>2, <1>3, <1>4, PlayersAssumption DEF Waiting
<1>10. Dealt(g) => Dealt(h)
  BY <1>1, <1>2, <1>3, <1>4 DEF Dealt
<1>11. Good(S, h)
  BY <1>2, <1>6, <1>7, <1>8, <1>9, <1>10 DEF Good
<1> QED
  BY <1>11 DEF h

-----------------------------------------------------------------------------
(* The list of the players' sockets, which the server keeps a copy of.     *)

(***************************************************************************)
(* game_manager_get_players_sockets has one socket per player, in order.   *)
(***************************************************************************)
LEMMA SocketsListed ==
  ASSUME NEW S, NEW g \in ManagerType(S), Distinct(g)
  PROVE  LET q == game_manager_get_players_sockets(g) IN
         /\ q \in Seq(S) /\ Len(q) = Len(g.players)
         /\ \A i \in 1 .. Len(g.players) : q[i] = g.players[i].socket_id
         /\ \A i, j \in DOMAIN q : q[i] = q[j] => i = j
         /\ ToSet(q) = {g.players[i].socket_id : i \in 1 .. Len(g.players)}
<1> DEFINE q == game_manager_get_players_sockets(g)
           n == Len(g.players)
<1> SUFFICES /\ q \in Seq(S) /\ Len(q) = n
             /\ \A i \in 1 .. n : q[i] = g.players[i].socket_id
             /\ \A i, j \in DOMAIN q : q[i] = q[j] => i = j
             /\ ToSet(q) = {g.players[i].socket_id : i \in 1 .. n}
  OBVIOUS
<1>1. n \in Nat /\ DOMAIN g.players = 1 .. n
  BY ManagerFields
<1>2. \A i \in 1 .. n : g.players[i] \in PlayerType(S)
  BY ManagerFields, ElementOfSeq
<1>3. q = [i \in 1 .. n |-> g.players[i].socket_id]
  BY <1>1 DEF game_manager_get_players_sockets
<1> HIDE DEF q
<1>4. q \in [1 .. n -> S]
  BY <1>2, <1>3 DEF PlayerType
<1>5. q \in Seq(S) /\ Len(q) = n
  BY <1>1, <1>4
<1> QED
  BY <1>1, <1>3, <1>5 DEF Distinct, ToSet

(***************************************************************************)
(* game_manager_get_player_role finds the role of the player that has the  *)
(* socket.                                                                 *)
(***************************************************************************)
LEMMA RoleHeld ==
  ASSUME NEW S, NEW g \in ManagerType(S), Distinct(g), NEW i \in 1 .. Len(g.players)
  PROVE  /\ find_player_by_socket(g, g.players[i].socket_id) = i
         /\ game_manager_get_player_role(g, g.players[i].socket_id) = g.players[i].role
<1> DEFINE s == g.players[i].socket_id
           k == find_player_by_socket(g, s)
<1>1. /\ k \in 0 .. Len(g.players)
      /\ k = 0 => \A j \in 1 .. Len(g.players) : g.players[j].socket_id # s
      /\ k # 0 => g.players[k].socket_id = s
  BY FindPlayer
<1>2. DOMAIN g.players = 1 .. Len(g.players)
  BY ManagerFields
<1>3. k = i
  <2> HIDE DEF k
  <2> QED
    BY <1>1, <1>2 DEF Distinct
<1>4. i # 0
  BY ManagerFields
<1> QED
  BY <1>3, <1>4 DEF game_manager_get_player_role

(***************************************************************************)
(* Taking one entry out of a list moves the later ones up.                 *)
(***************************************************************************)
LEMMA RemoveAtEffect ==
  ASSUME NEW S, NEW q \in Seq(S), NEW k \in 1 .. Len(q)
  PROVE  /\ RemoveAt(q, k) \in Seq(S)
         /\ Len(RemoveAt(q, k)) = Len(q) - 1
         /\ \A i \in 1 .. Len(q) - 1 : RemoveAt(q, k)[i] = q[IF i < k THEN i ELSE i + 1]
<1> DEFINE n == Len(q)
           a == SubSeq(q, 1, k - 1)
           b == SubSeq(q, k + 1, n)
<1>1. n \in Nat /\ \A i \in 1 .. n : q[i] \in S
  BY LenProperties, ElementOfSeq
<1>2. /\ a \in Seq(S) /\ Len(a) = k - 1
      /\ \A i \in 1 .. k - 1 : a[i] = q[i]
  <2>1. \A i \in 1 .. k - 1 : q[i] \in S
    BY <1>1
  <2>2. /\ a \in Seq(S)
        /\ Len(a) = IF 1 <= k - 1 THEN k - 1 - 1 + 1 ELSE 0
        /\ \A i \in 1 .. k - 1 - 1 + 1 : a[i] = q[1 + i - 1]
    BY <1>1, <2>1, SubSeqProperties
  <2> HIDE DEF a
  <2> QED
    BY <1>1, <2>2
<1>3. /\ b \in Seq(S) /\ Len(b) = n - k
      /\ \A i \in 1 .. n - k : b[i] = q[k + i]
  <2>1. \A i \in k + 1 .. n : q[i] \in S
    BY <1>1
  <2>2. /\ b \in Seq(S)
        /\ Len(b) = IF k + 1 <= n THEN n - (k + 1) + 1 ELSE 0
        /\ \A i \in 1 .. n - (k + 1) + 1 : b[i] = q[k + 1 + i - 1]
    BY <1>1, <2>1, SubSeqProperties
  <2> HIDE DEF b
  <2> QED
    BY <1>1, <2>2
<1>4. RemoveAt(q, k) = a \o b
  BY DEF RemoveAt
<1> HIDE DEF a, b
<1>5. /\ a \o b \in Seq(S)
      /\ Len(a \o b) = Len(a) + Len(b)
      /\ \A i \in 1 .. Len(a) + Len(b) :
           (a \o b)[i] = IF i <= Len(a) THEN a[i] ELSE b[i - Len(a)]
  BY <1>2, <1>3, ConcatProperties
<1>6. \A i \in 1 .. n - 1 : (a \o b)[i] = q[IF i < k THEN i ELSE i + 1]
  <2> TAKE i \in 1 .. n - 1
  <2>1. Len(a) + Len(b) = n - 1
    BY <1>1, <1>2, <1>3
  <2>2. (a \o b)[i] = IF i <= k - 1 THEN a[i] ELSE b[i - (k - 1)]
    BY <1>2, <1>5, <2>1
  <2>3. CASE i < k
    <3>1. i <= k - 1 /\ i \in 1 .. k - 1
      BY <1>1, <2>3
    <3> QED
      BY <1>2, <2>2, <2>3, <3>1
  <2>4. CASE ~(i < k)
    <3>1. ~(i <= k - 1) /\ i - (k - 1) \in 1 .. n - k /\ k + (i - (k - 1)) = i + 1
      BY <1>1, <2>4
    <3> QED
      BY <1>3, <2>2, <2>4, <3>1
  <2> QED
    BY <2>3, <2>4
<1> QED
  BY <1>1, <1>2, <1>3, <1>4, <1>5, <1>6

(***************************************************************************)
(* A joining socket is put before the others, and the start of the game    *)
(* moves nobody.                                                           *)
(***************************************************************************)
LEMMA SocketsAdded ==
  ASSUME NEW S, NEW g \in ManagerType(S), Distinct(g), NEW s \in S,
         g.player_count < MaxPlayers, Distinct(game_manager_add_player(g, s))
  PROVE  game_manager_get_players_sockets(game_manager_add_player(g, s))
           = <<s>> \o game_manager_get_players_sockets(g)
<1> DEFINE h == game_manager_add_player(g, s)
           n == Len(g.players)
           q == game_manager_get_players_sockets(g)
           r == game_manager_get_players_sockets(h)
<1>1. /\ h \in ManagerType(S)
      /\ Len(h.players) = n + 1
      /\ h.players[1].socket_id = s
      /\ \A i \in 2 .. Len(h.players) : h.players[i] = g.players[i - 1]
  BY AddEffect
<1>2. n \in Nat
  BY ManagerFields
<1>3. q \in Seq(S) /\ Len(q) = n /\ \A i \in 1 .. n : q[i] = g.players[i].socket_id
  BY SocketsListed
<1> HIDE DEF h
<1>4. /\ r \in Seq(S) /\ Len(r) = n + 1
      /\ \A i \in 1 .. n + 1 : r[i] = h.players[i].socket_id
  BY <1>1, SocketsListed DEF h
<1> HIDE DEF q, r, n
<1>5. /\ <<s>> \in Seq(S) /\ Len(<<s>>) = 1 /\ <<s>>[1] = s
  OBVIOUS
<1>6. /\ <<s>> \o q \in Seq(S) /\ Len(<<s>> \o q) = 1 + n
      /\ \A i \in 1 .. 1 + n : (<<s>> \o q)[i] = IF i <= 1 THEN <<s>>[i] ELSE q[i - 1]
  BY <1>3, <1>5, ConcatProperties
<1>7. \A i \in 1 .. n + 1 : r[i] = (<<s>> \o q)[i]
  <2> TAKE i \in 1 .. n + 1
  <2>1. CASE i = 1
    BY <1>1, <1>2, <1>4, <1>5, <1>6, <2>1
  <2>2. CASE i # 1
    <3>1. i \in 2 .. n + 1 /\ i - 1 \in 1 .. n /\ i \in 1 .. 1 + n /\ ~(i <= 1)
      BY <1>2, <2>2
    <3> QED
      BY <1>1, <1>3, <1>4, <1>6, <3>1
  <2> QED
    BY <2>1, <2>2
<1>8. Len(r) = Len(<<s>> \o q)
  BY <1>2, <1>4, <1>6
<1> QED
  BY <1>4, <1>6, <1>7, <1>8, SeqEqual DEF q, r, h

\* The start changes roles only: the sockets stay in their places.
LEMMA SocketsStarted ==
  ASSUME NEW S, NEW h \in ManagerType(S), NEW seat \in Seatings, Distinct(h), Living(h),
         Counted(h), h.player_count = MaxPlayers
  PROVE  game_manager_get_players_sockets(game_manager_start_game(h, seat))
           = game_manager_get_players_sockets(h)
<1> DEFINE g == game_manager_start_game(h, seat)
<1>1. h.players \in Seq(PlayerType(S)) /\ DOMAIN h.players = 1 .. MaxPlayers
  BY ManagerFields DEF Counted
<1>2. /\ g \in ManagerType(S)
      /\ Len(g.players) = MaxPlayers
      /\ \A i \in 1 .. MaxPlayers : g.players[i].socket_id = h.players[i].socket_id
  BY GameStarted DEF Good
<1> HIDE DEF g
<1>3. DOMAIN g.players = 1 .. MaxPlayers
  BY <1>2, ManagerFields
<1> QED
  BY <1>1, <1>2, <1>3 DEF g, game_manager_get_players_sockets

(***************************************************************************)
(* A removal takes the socket out of the list, and the others keep their   *)
(* places' order and their roles.                                          *)
(***************************************************************************)
LEMMA SocketsRemoved ==
  ASSUME NEW S, NEW g, NEW s, Good(S, g), find_player_by_socket(g, s) # 0
  PROVE  LET q == game_manager_get_players_sockets(g)
             h == game_manager_remove_player(g, s)
             r == game_manager_get_players_sockets(h)
         IN
         /\ r = RemoveAt(q, find_player_by_socket(g, s))
         /\ ToSet(r) = ToSet(q) \ {s}
         /\ \A t \in ToSet(r) : game_manager_get_player_role(h, t)
                                = game_manager_get_player_role(g, t)
         /\ h.state = g.state
<1> DEFINE q == game_manager_get_players_sockets(g)
           h == game_manager_remove_player(g, s)
           r == game_manager_get_players_sockets(h)
           k == find_player_by_socket(g, s)
           n == Len(g.players)
           old(i) == IF i < k THEN i ELSE i + 1
<1> SUFFICES /\ r = RemoveAt(q, k)
             /\ ToSet(r) = ToSet(q) \ {s}
             /\ \A t \in ToSet(r) : game_manager_get_player_role(h, t)
                                    = game_manager_get_player_role(g, t)
             /\ h.state = g.state
  OBVIOUS
<1>1. /\ g \in ManagerType(S) /\ Distinct(g) /\ Living(g)
      /\ g.player_count = n /\ g.alive_count = n /\ n \in Nat
  BY ManagerFields DEF Good, Counted
<1>2. /\ k \in 1 .. n
      /\ g.players[k].socket_id = s
      /\ h \in ManagerType(S)
      /\ Len(h.players) = n - 1
      /\ \A i \in 1 .. Len(h.players) : h.players[i] = g.players[old(i)]
      /\ h.state = g.state
  BY <1>1, RemoveEffect
<1>3. Distinct(h)
  BY SeatLeft DEF Good
<1>4. /\ q \in Seq(S) /\ Len(q) = n
      /\ \A i \in 1 .. n : q[i] = g.players[i].socket_id
      /\ ToSet(q) = {g.players[i].socket_id : i \in 1 .. n}
  BY <1>1, SocketsListed
<1> HIDE DEF h, k
<1>5. /\ r \in Seq(S) /\ Len(r) = n - 1
      /\ \A i \in 1 .. n - 1 : r[i] = h.players[i].socket_id
      /\ ToSet(r) = {h.players[i].socket_id : i \in 1 .. n - 1}
  BY <1>2, <1>3, SocketsListed
<1> HIDE DEF q, r, n
<1>6. r = RemoveAt(q, k)
  <2>1. /\ RemoveAt(q, k) \in Seq(S)
        /\ Len(RemoveAt(q, k)) = n - 1
        /\ \A i \in 1 .. n - 1 : RemoveAt(q, k)[i] = q[old(i)]
    BY <1>2, <1>4, RemoveAtEffect
  <2>2. \A i \in 1 .. n - 1 : r[i] = RemoveAt(q, k)[i]
    <3>1. \A i \in 1 .. n - 1 : old(i) \in 1 .. n
      BY <1>1, <1>2
    <3> QED
      BY <1>2, <1>4, <1>5, <2>1, <3>1
  <2> QED
    BY <1>5, <2>1, <2>2, SeqEqual
<1>7. \A i \in 1 .. n - 1 : old(i) \in 1 .. n /\ old(i) # k
  BY <1>1, <1>2
<1>8. \A j \in 1 .. n : j # k => \E i \in 1 .. n - 1 : old(i) = j
  <2> TAKE j \in 1 .. n
  <2>1. CASE j < k
    <3>1. j \in 1 .. n - 1 /\ old(j) = j
      BY <1>1, <1>2, <2>1
    <3> QED
      BY <3>1
  <2>2. CASE k < j
    <3>1. j - 1 \in 1 .. n - 1 /\ old(j - 1) = j
      BY <1>1, <1>2, <2>2
    <3> QED
      BY <3>1
  <2> QED
    BY <1>1, <1>2, <2>1, <2>2
<1> HIDE DEF old
<1>9. DOMAIN g.players = 1 .. n
  BY <1>1, ManagerFields DEF n
<1>10. ToSet(r) = ToSet(q) \ {s}
  <2>1. ASSUME NEW i \in 1 .. n - 1 PROVE h.players[i].socket_id \in ToSet(q) \ {s}
    <3>1. /\ old(i) \in 1 .. n /\ old(i) # k
          /\ h.players[i].socket_id = g.players[old(i)].socket_id
      BY <1>2, <1>7
    <3>2. g.players[old(i)].socket_id # s
      BY <1>1, <1>2, <1>9, <3>1 DEF Distinct
    <3> QED
      BY <1>4, <3>1, <3>2
  <2>2. \A j \in 1 .. n : g.players[j].socket_id # s => g.players[j].socket_id \in ToSet(r)
    BY <1>2, <1>5, <1>8
  <2>3. \A t \in ToSet(r) : t \in ToSet(q) \ {s}
    BY ONLY <1>5, <2>1
  <2>4. \A t \in ToSet(q) \ {s} : t \in ToSet(r)
    BY ONLY <1>4, <2>2
  <2> QED
    BY <2>3, <2>4
<1>11. ASSUME NEW i \in 1 .. n - 1
       PROVE  game_manager_get_player_role(h, h.players[i].socket_id)
                = game_manager_get_player_role(g, h.players[i].socket_id)
  <2>1. game_manager_get_player_role(h, h.players[i].socket_id) = h.players[i].role
    BY <1>2, <1>3, RoleHeld
  <2>2. /\ old(i) \in 1 .. n
        /\ game_manager_get_player_role(g, g.players[old(i)].socket_id) = g.players[old(i)].role
    BY <1>1, <1>7, RoleHeld DEF n
  <2> QED
    BY <1>2, <2>1, <2>2
<1> QED
  BY <1>2, <1>5, <1>6, <1>10, <1>11
=============================================================================
