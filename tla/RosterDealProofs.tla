-------------------------- MODULE RosterDealProofs --------------------------
(***************************************************************************)
(* Proofs about the deal: what the loops of game_manager_start_game deal   *)
(* is the deck of the table's row, the counts kept per role count the      *)
(* players, and the roster implements the abstract lobby.                  *)
(***************************************************************************)
EXTENDS GameRosterProofs

(***************************************************************************)
(* Sets that correspond one to one have the same size.                     *)
(***************************************************************************)
LEMMA SameSize ==
  ASSUME NEW A, NEW B, IsFiniteSet(A), NEW f \in [A -> B],
         \A x, y \in A : f[x] = f[y] => x = y,
         \A b \in B : \E a \in A : f[a] = b
  PROVE  IsFiniteSet(B) /\ Cardinality(B) = Cardinality(A)
<1>1. f \in Bijection(A, B)
  BY DEF Bijection, Injection, Surjection, IsInjective
<1> QED
  BY <1>1, FS_Bijection DEF ExistsBijection

(***************************************************************************)
(* The loops deal each role as often as the row says: the werewolves at    *)
(* the beginning of the array, the special roles behind the villagers as   *)
(* far as the array goes, and villagers at the places that are left.       *)
(***************************************************************************)
LEMMA DeckCounted ==
  ASSUME NEW r \in DealtRoles
  PROVE  Cardinality({k \in 1 .. MaxPlayers : role_at(k) = r}) = DeckCount(r)
<1> DEFINE N == MaxPlayers
           W == config.num_werewolves
           V == config.num_villagers
           S == config.special_roles
           SD == {i \in DOMAIN S : i <= N - W - V}
           SDr == {i \in SD : S[i] = r}
           A == 1 .. W
           B == {k \in 1 .. N : k - W - V \in DOMAIN S}
           Br == {k \in B : S[k - W - V] = r}
           C == (W + 1 .. N) \ B
           P == {k \in 1 .. N : role_at(k) = r}
<1>1. N \in Nat /\ W \in Nat /\ V \in Nat /\ W + V <= N
  BY PlayersAssumption, ConfigAssumption
<1>2. Len(S) \in Nat /\ DOMAIN S = 1 .. Len(S)
  BY ConfigAssumption, LenProperties
<1>3. SpecialsDealt = SD
  BY DEF SpecialsDealt
<1>4. \A k \in 1 .. N : role_at(k) = IF k <= W THEN "WEREWOLF"
                                     ELSE IF k - W - V \in DOMAIN S THEN S[k - W - V]
                                     ELSE "VILLAGER"
  BY DEF role_at
<1>5. DeckCount(r) = Cardinality(SDr)
                     + (IF r = "WEREWOLF" THEN W
                        ELSE IF r = "VILLAGER" THEN N - W - Cardinality(SD) ELSE 0)
  BY <1>3 DEF DeckCount
<1> HIDE DEF N, W, V, S
<1>6. P = IF r = "WEREWOLF" THEN A \union Br
          ELSE IF r = "VILLAGER" THEN C \union Br ELSE Br
  BY <1>1, <1>2, <1>4
<1>7. IsFiniteSet(SD) /\ IsFiniteSet(SDr)
  <2>1. IsFiniteSet(1 .. Len(S))
    BY <1>2, FS_Interval
  <2>2. SD \in SUBSET (1 .. Len(S)) /\ SDr \in SUBSET (1 .. Len(S))
    BY <1>2
  <2> QED
    BY <2>1, <2>2, FS_Subset
<1>8. IsFiniteSet(B) /\ Cardinality(B) = Cardinality(SD)
  <2> DEFINE f == [i \in SD |-> W + V + i]
  <2>1. f \in [SD -> B]
    BY <1>1, <1>2
  <2>2. \A x, y \in SD : f[x] = f[y] => x = y
    BY <1>1, <1>2
  <2>3. \A b \in B : b - W - V \in SD /\ f[b - W - V] = b
    BY <1>1, <1>2
  <2> HIDE DEF f, SD, B
  <2> QED
    BY <1>7, <2>1, <2>2, <2>3, SameSize
<1>9. IsFiniteSet(Br) /\ Cardinality(Br) = Cardinality(SDr)
  <2> DEFINE f == [i \in SDr |-> W + V + i]
  <2>1. f \in [SDr -> Br]
    <3> SUFFICES ASSUME NEW i \in SDr PROVE W + V + i \in Br
      OBVIOUS
    <3>1. (W + V + i) - W - V = i /\ W + V + i \in 1 .. N
      BY <1>1, <1>2
    <3> QED
      BY <3>1
  <2>2. \A x, y \in SDr : f[x] = f[y] => x = y
    BY <1>1, <1>2
  <2>3. \A b \in Br : b - W - V \in SDr /\ f[b - W - V] = b
    BY <1>1, <1>2
  <2> HIDE DEF f, SDr, Br
  <2> QED
    BY <1>7, <2>1, <2>2, <2>3, SameSize
<1>10. /\ IsFiniteSet(A) /\ Cardinality(A) = W
       /\ IsFiniteSet(W + 1 .. N) /\ Cardinality(W + 1 .. N) = N - W
  <2>1. 1 \in Int /\ W \in Int /\ W + 1 \in Int /\ N \in Int
    BY <1>1
  <2>2. /\ IsFiniteSet(1 .. W) /\ IsFiniteSet(W + 1 .. N)
        /\ Cardinality(1 .. W) = IF 1 > W THEN 0 ELSE W - 1 + 1
        /\ Cardinality(W + 1 .. N) = IF W + 1 > N THEN 0 ELSE N - (W + 1) + 1
    BY <2>1, FS_Interval
  <2> QED
    BY <1>1, <2>2
<1>11. IsFiniteSet(C) /\ Cardinality(C) = N - W - Cardinality(SD)
  <2>1. (W + 1 .. N) \cap B = B
    BY <1>1, <1>2
  <2>2. /\ IsFiniteSet(C)
        /\ Cardinality(C) = Cardinality(W + 1 .. N) - Cardinality((W + 1 .. N) \cap B)
    <3> HIDE DEF B
    <3> QED
      BY <1>8, <1>10, FS_Difference
  <2> QED
    BY <1>8, <1>10, <2>1, <2>2
<1>12. A \cap Br = {} /\ C \cap Br = {}
  BY <1>1, <1>2
<1> HIDE DEF A, B, Br, C, SD, SDr, P
<1>13. /\ Cardinality(A \union Br) = Cardinality(A) + Cardinality(Br) - Cardinality({})
       /\ Cardinality(C \union Br) = Cardinality(C) + Cardinality(Br) - Cardinality({})
  <2>1. Cardinality(A \union Br) = Cardinality(A) + Cardinality(Br) - Cardinality(A \cap Br)
    BY <1>9, <1>10, FS_Union
  <2>2. Cardinality(C \union Br) = Cardinality(C) + Cardinality(Br) - Cardinality(C \cap Br)
    BY <1>9, <1>11, FS_Union
  <2> QED
    BY <1>12, <2>1, <2>2
<1>14. Cardinality({}) = 0 /\ Cardinality(SD) \in Nat /\ Cardinality(SDr) \in Nat
  BY <1>7, FS_EmptySet, FS_CardinalityType
<1>15. Cardinality(P) = DeckCount(r)
  BY <1>1, <1>5, <1>6, <1>9, <1>10, <1>11, <1>13, <1>14
<1> QED
  BY <1>15 DEF P, N

-----------------------------------------------------------------------------
(***************************************************************************)
(* The invariant of the accounting, beside Good: with Good, the living of  *)
(* a role are its holders, and in the lobby no dealt role has any.         *)
(***************************************************************************)
Holders(g, r) == {i \in DOMAIN g.players :
                    g.players[i].role = r /\ g.players[i].is_alive}

Accounted(g) ==
  \A r \in DealtRoles :
    /\ g.roles[r].alive_count = Cardinality(Holders(g, r))
    /\ g.roles[r].total_count = IF g.state.current_phase = "LOBBY" THEN 0 ELSE DeckCount(r)

DInv == IInv /\ Accounted(gm)

\* The holders of a role can be counted.
LEMMA HoldersFinite ==
  ASSUME NEW g \in ManagerType(Sockets), NEW r
  PROVE  IsFiniteSet(Holders(g, r)) /\ Cardinality(Holders(g, r)) \in Nat
<1>1. IsFiniteSet(1 .. Len(g.players)) /\ DOMAIN g.players = 1 .. Len(g.players)
  <2>1. Len(g.players) \in Nat /\ DOMAIN g.players = 1 .. Len(g.players)
    BY ManagerFields
  <2> QED
    BY <2>1, FS_Interval
<1>2. Holders(g, r) \in SUBSET (1 .. Len(g.players))
  BY <1>1 DEF Holders
<1> QED
  BY <1>1, <1>2, FS_Subset, FS_CardinalityType

\* In the lobby nobody holds a role that is dealt.
LEMMA NoHoldersInLobby ==
  ASSUME NEW g, Waiting(g), NEW r \in DealtRoles
  PROVE  Cardinality(Holders(g, r)) = 0
<1>1. Holders(g, r) = {}
  BY DEF Waiting, Holders, DealtRoles
<1> QED
  BY <1>1, FS_EmptySet

\* A new game manager counts no holder, and has none.
LEMMA AccountedCreate == Accounted(game_manager_create)
<1> DEFINE g == game_manager_create
<1>1. Waiting(g)
  BY DEF game_manager_create, Waiting
<1>2. \A r \in DealtRoles : g.roles[r] = [total_count |-> 0, alive_count |-> 0]
  BY DEF game_manager_create, DealtRoles
<1>3. g.state.current_phase = "LOBBY"
  BY DEF game_manager_create
<1> HIDE DEF g
<1>4. Accounted(g)
  BY <1>1, <1>2, <1>3, NoHoldersInLobby DEF Accounted
<1> QED
  BY <1>4 DEF g

(***************************************************************************)
(* A shuffle does not change how many players hold a role.                 *)
(***************************************************************************)
LEMMA HoldersAfterStart ==
  ASSUME NEW g \in ManagerType(Sockets), NEW seat \in Seatings, NEW r,
         Len(g.players) = MaxPlayers, Living(g),
         \A i \in 1 .. MaxPlayers : g.players[i].role = role_at(seat[i])
  PROVE  Cardinality(Holders(g, r)) = Cardinality({k \in 1 .. MaxPlayers : role_at(k) = r})
<1> DEFINE H == Holders(g, r)
           P == {k \in 1 .. MaxPlayers : role_at(k) = r}
           f == [i \in H |-> seat[i]]
<1>1. DOMAIN g.players = 1 .. MaxPlayers /\ MaxPlayers \in Nat
  BY ManagerFields, PlayersAssumption
<1>2. /\ seat \in [1 .. MaxPlayers -> 1 .. MaxPlayers]
      /\ \A i, j \in 1 .. MaxPlayers : seat[i] = seat[j] => i = j
      /\ \A k \in 1 .. MaxPlayers : \E i \in 1 .. MaxPlayers : seat[i] = k
  <2> HIDE DEF H, P, f
  <2> QED
    BY DEF Seatings, Bijection, Injection, Surjection, IsInjective
<1>3. H = {i \in 1 .. MaxPlayers : role_at(seat[i]) = r}
  BY <1>1 DEF Holders, Living
<1>4. f \in [H -> P]
  BY <1>2, <1>3
<1>5. \A x, y \in H : f[x] = f[y] => x = y
  BY <1>2, <1>3
<1>6. \A k \in P : \E i \in H : f[i] = k
  BY <1>2, <1>3
<1>7. IsFiniteSet(H)
  BY HoldersFinite
<1> HIDE DEF H, P, f
<1>8. Cardinality(P) = Cardinality(H)
  BY <1>4, <1>5, <1>6, <1>7, SameSize
<1> QED
  BY <1>8 DEF H, P

\* A join keeps the counts per role, also when it starts the game.
LEMMA AccountedJoin ==
  ASSUME DInv, NEW s \in Sockets, Join(s)
  PROVE  Accounted(gm')
<1> DEFINE h == game_manager_add_player(gm, s)
<1>1. gm \in ManagerType(Sockets) /\ Waiting(gm) /\ gm.player_count < MaxPlayers
      /\ gm.state.current_phase = "LOBBY"
  BY DEF DInv, IInv, Good, Phased, Dealt, Waiting, Join, InLobby
<1>2. /\ h \in ManagerType(Sockets) /\ h.roles = gm.roles /\ h.state = gm.state
  BY <1>1, AddEffect
<1>3. Living(h) /\ Counted(h) /\ Waiting(h)
  BY SeatTaken DEF DInv, IInv, Join, InLobby
<1>4. \A r \in DealtRoles : gm.roles[r].alive_count = 0 /\ gm.roles[r].total_count = 0
  BY <1>1, NoHoldersInLobby DEF DInv, Accounted
<1>5. CASE h.player_count = MaxPlayers
  <2>1. PICK seat \in Seatings : gm' = game_manager_start_game(h, seat)
    BY <1>5 DEF Join
  <2> DEFINE g == game_manager_start_game(h, seat)
  <2>2. Len(h.players) = MaxPlayers /\ DOMAIN h.players = 1 .. MaxPlayers
    BY <1>2, <1>3, <1>5, ManagerFields DEF Counted
  <2> HIDE DEF h
  <2>3. /\ g \in ManagerType(Sockets)
        /\ Len(g.players) = MaxPlayers
        /\ \A i \in 1 .. MaxPlayers :
             /\ g.players[i].is_alive = h.players[i].is_alive
             /\ g.players[i].role = role_at(seat[i])
        /\ g.state.current_phase = "NIGHT"
        /\ \A r \in Roles :
             LET dealt == Cardinality({k \in 1 .. MaxPlayers : role_at(k) = r})
             IN  g.roles[r] = [total_count |-> h.roles[r].total_count + dealt,
                               alive_count |-> h.roles[r].alive_count + dealt]
    <3>1. h \in ManagerType(Sockets) /\ h.player_count = MaxPlayers
          /\ Len(h.players) = MaxPlayers
      BY <1>2, <1>5, <2>2
    <3>2. /\ g \in ManagerType(Sockets)
          /\ Len(g.players) = MaxPlayers
          /\ \A i \in 1 .. MaxPlayers :
               /\ g.players[i].is_alive = h.players[i].is_alive
               /\ g.players[i].role = role_at(seat[i])
          /\ g.state.current_phase = "NIGHT"
      BY <3>1, StartEffect, SMTT(60)
    <3>3. \A r \in Roles :
             LET dealt == Cardinality({k \in 1 .. MaxPlayers : role_at(k) = r})
             IN  g.roles[r] = [total_count |-> h.roles[r].total_count + dealt,
                               alive_count |-> h.roles[r].alive_count + dealt]
      BY ONLY <3>1, StartEffect
    <3> QED
      BY <3>2, <3>3
  <2> HIDE DEF g
  <2>4. Living(g)
    <3>1. g \in ManagerType(Sockets) /\ Len(g.players) = MaxPlayers
      BY <2>3
    <3>2. DOMAIN g.players = 1 .. MaxPlayers
      BY <3>1, ManagerFields
    <3> QED
      BY <1>3, <2>2, <2>3, <3>2 DEF Living
  <2>5. ASSUME NEW r \in DealtRoles
        PROVE  /\ g.roles[r].alive_count = Cardinality(Holders(g, r))
               /\ g.roles[r].total_count = DeckCount(r)
    <3> DEFINE dealt == Cardinality({k \in 1 .. MaxPlayers : role_at(k) = r})
    <3>1. r \in Roles
      BY DEF DealtRoles
    <3>2. g.roles[r] = [total_count |-> h.roles[r].total_count + dealt,
                        alive_count |-> h.roles[r].alive_count + dealt]
      BY <2>3, <3>1
    <3>3. dealt = DeckCount(r)
      BY DeckCounted
    <3>4. Cardinality(Holders(g, r)) = dealt
      BY <2>3, <2>4, HoldersAfterStart
    <3>5. dealt \in Nat
      BY <2>3, <3>4, HoldersFinite
    <3> HIDE DEF dealt
    <3>6. h.roles[r].total_count = 0 /\ h.roles[r].alive_count = 0
      BY <1>2, <1>4
    <3> QED
      BY <3>2, <3>3, <3>4, <3>5, <3>6
  <2>6. Accounted(g)
    BY <2>3, <2>5 DEF Accounted
  <2> QED
    BY <2>1, <2>6 DEF g
<1>6. CASE h.player_count # MaxPlayers
  <2>1. gm' = h
    BY <1>6 DEF Join
  <2> HIDE DEF h
  <2>2. Accounted(h)
    BY <1>1, <1>2, <1>3, <1>4, NoHoldersInLobby DEF Accounted
  <2> QED
    BY <2>1, <2>2
<1> QED
  BY <1>5, <1>6

(***************************************************************************)
(* The player that leaves is taken from the holders of its role, and the   *)
(* others move up without changing theirs.                                 *)
(***************************************************************************)
LEMMA AccountedLeave ==
  ASSUME DInv, NEW s \in Sockets, Leave(s)
  PROVE  Accounted(gm')
<1> DEFINE h == game_manager_remove_player(gm, s)
           k == find_player_by_socket(gm, s)
           n == Len(gm.players)
<1>1. gm \in ManagerType(Sockets) /\ n \in Nat /\ DOMAIN gm.players = 1 .. n
      /\ gm.player_count = n /\ gm.alive_count = n
  BY ManagerFields DEF DInv, IInv, Good, Counted
<1>2. /\ k \in 1 .. n
      /\ h \in ManagerType(Sockets)
      /\ Len(h.players) = n - 1
      /\ \A i \in 1 .. Len(h.players) :
           h.players[i] = gm.players[IF i < k THEN i ELSE i + 1]
      /\ h.state = gm.state
      /\ \A r \in Roles :
           h.roles[r] = [total_count |-> gm.roles[r].total_count,
                         alive_count |-> gm.roles[r].alive_count
                                         - IF r = gm.players[k].role THEN 1 ELSE 0]
  BY <1>1, RemoveEffect DEF DInv, IInv, Good, Leave
<1>3. DOMAIN h.players = 1 .. n - 1 /\ gm' = h
  BY <1>2, ManagerFields DEF Leave
<1> HIDE DEF h, k, n
<1>4. ASSUME NEW r \in DealtRoles
      PROVE  /\ h.roles[r].alive_count = Cardinality(Holders(h, r))
             /\ h.roles[r].total_count = gm.roles[r].total_count
  <2> DEFINE G == Holders(gm, r)
             H == Holders(h, r)
             up(i) == IF i < k THEN i ELSE i + 1
             f == [i \in H |-> up(i)]
  <2>1. r \in Roles
    BY DEF DealtRoles
  <2>2. \A i \in 1 .. n - 1 : up(i) \in 1 .. n /\ h.players[i] = gm.players[up(i)]
    BY <1>1, <1>2
  <2>3. G = {i \in 1 .. n : gm.players[i].role = r /\ gm.players[i].is_alive}
    BY <1>1 DEF Holders
  <2>4. H = {i \in 1 .. n - 1 : gm.players[up(i)].role = r /\ gm.players[up(i)].is_alive}
    BY <1>3, <2>2 DEF Holders
  <2> HIDE DEF G, H
  <2>5. f \in [H -> G \ {k}]
    BY <1>1, <1>2, <2>2, <2>3, <2>4
  <2>6. \A x, y \in H : f[x] = f[y] => x = y
    BY <1>1, <1>2, <2>4
  <2>7. \A b \in G \ {k} : \E a \in H : f[a] = b
    <3> SUFFICES ASSUME NEW b \in G \ {k} PROVE \E a \in H : f[a] = b
      OBVIOUS
    <3> DEFINE a == IF b < k THEN b ELSE b - 1
    <3>1. a \in 1 .. n - 1 /\ up(a) = b
      BY <1>1, <1>2, <2>3
    <3>2. a \in H
      BY <2>3, <2>4, <3>1
    <3> QED
      BY <3>1, <3>2
  <2>8. /\ IsFiniteSet(G) /\ Cardinality(G) \in Nat
        /\ IsFiniteSet(H) /\ Cardinality(H) \in Nat
    BY <1>1, <1>2, HoldersFinite DEF G, H
  <2> HIDE DEF f, up
  <2>9. Cardinality(H) = Cardinality(G \ {k})
    BY <2>5, <2>6, <2>7, <2>8, SameSize
  <2>10. Cardinality(G \ {k}) = IF k \in G THEN Cardinality(G) - 1 ELSE Cardinality(G)
    BY <2>8, FS_RemoveElement
  <2>11. k \in G <=> r = gm.players[k].role
    BY <1>1, <1>2, <2>3 DEF DInv, IInv, Good, Living
  <2>12. gm.roles[r].alive_count = Cardinality(G)
    BY DEF DInv, Accounted, G
  <2>13. h.roles[r] = [total_count |-> gm.roles[r].total_count,
                       alive_count |-> gm.roles[r].alive_count
                                       - IF r = gm.players[k].role THEN 1 ELSE 0]
    BY <1>2, <2>1
  <2>14. h.roles[r].alive_count = Cardinality(H)
    BY <2>8, <2>9, <2>10, <2>11, <2>12, <2>13
  <2> QED
    BY <2>13, <2>14 DEF H
<1>5. Accounted(h)
  BY <1>2, <1>4 DEF DInv, Accounted
<1> QED
  BY <1>3, <1>5

\* The per-role counts agree with the list after every join, start and leave,
\* together with the roster invariant the agreement rests on.
THEOREM DealInvariance == Spec => []DInv
<1>1. Init => DInv
  BY GoodCreate, AccountedCreate DEF Init, DInv, IInv
<1>2. DInv /\ [Next]_gm => DInv'
  <2> SUFFICES ASSUME DInv, [Next]_gm PROVE DInv'
    OBVIOUS
  <2>1. ASSUME NEW s \in Sockets, Join(s) PROVE DInv'
    BY <2>1, GoodJoin, AccountedJoin DEF DInv
  <2>2. ASSUME NEW s \in Sockets, Leave(s) PROVE DInv'
    BY <2>2, GoodLeave, AccountedLeave DEF DInv
  <2>3. CASE UNCHANGED gm
    BY <2>3 DEF DInv, IInv
  <2> QED
    BY <2>1, <2>2, <2>3 DEF Next
<1> QED
  BY <1>1, <1>2, PTL DEF Spec

\* The counts game_manager_start_game and game_manager_remove_player keep per
\* role are the numbers of its living holders and of its cards in the deck.
THEOREM RolesCounted == Spec => []RoleAccounting
<1>1. DInv => RoleAccounting
  BY DEF DInv, Accounted, Holders, RoleAccounting, InLobby
<1> QED
  BY <1>1, DealInvariance, PTL

-----------------------------------------------------------------------------
(* The game manager implements the abstract Lobby: read as the set of      *)
(* seated sockets and the role of each, every step of the list, its        *)
(* counters and its shuffled array is a step of the lobby.                 *)

(***************************************************************************)
(* The lobby's copies of the table's operators are the roster's.           *)
(***************************************************************************)
LEMMA SameCardinality == \A S : L!Cardinality(S) = Cardinality(S)
BY DEF L!Cardinality, Cardinality

\* The lobby reads the same row of the table.
LEMMA SameRow == L!config = config
<1>1. L!get_game_config(MaxPlayers) = get_game_config(MaxPlayers)
  BY DEF L!get_game_config, get_game_config, L!SelectInSeq, SelectInSeq, L!Min, Min
<1> QED
  BY <1>1 DEF L!config, config

\* The lobby deals the same deck.
LEMMA SameDeck ==
  L!DealtRoles = DealtRoles /\ \A r \in DealtRoles : L!DeckCount(r) = DeckCount(r)
<1>1. L!DealtRoles = DealtRoles
  BY DEF L!DealtRoles, DealtRoles, L!Roles, Roles
<1>2. L!SpecialsDealt = SpecialsDealt
  BY SameRow DEF L!SpecialsDealt, SpecialsDealt
<1>3. ASSUME NEW r \in DealtRoles PROVE L!DeckCount(r) = DeckCount(r)
  BY <1>2, SameRow, SameCardinality DEF L!DeckCount, DeckCount
<1> QED
  BY <1>1, <1>3

-----------------------------------------------------------------------------
(***************************************************************************)
(* The list of a game manager g, read as the lobby reads it.               *)
(***************************************************************************)
Seats(g) == {g.players[i].socket_id : i \in DOMAIN g.players}
Hands(g) == [s \in Seats(g) |-> game_manager_get_player_role(g, s)]

\* The mapping of the variable, before and after a step, as operators on the record.
LEMMA SeatedIsSeats ==
  /\ Seated = Seats(gm) /\ Seated' = Seats(gm')
  /\ [s \in Seated |-> HandOf(s)] = Hands(gm)
  /\ [s \in Seated |-> HandOf(s)]' = Hands(gm')
BY DEF Seated, Seats, Hands, HandOf, ToSet, game_manager_get_players_sockets

\* The hand of a seat is the role of its player.
LEMMA HandHeld ==
  ASSUME NEW g \in ManagerType(Sockets), Distinct(g), NEW i \in 1 .. Len(g.players)
  PROVE  /\ g.players[i].socket_id \in Seats(g)
         /\ Hands(g)[g.players[i].socket_id] = g.players[i].role
<1>1. g.players[i].socket_id \in Seats(g)
  BY ManagerFields DEF Seats
<1>2. game_manager_get_player_role(g, g.players[i].socket_id) = g.players[i].role
  BY RoleHeld
<1> QED
  BY <1>1, <1>2 DEF Hands

\* As many seats are taken as the list has players.
LEMMA SeatsCounted ==
  ASSUME NEW g \in ManagerType(Sockets), Distinct(g)
  PROVE  IsFiniteSet(Seats(g)) /\ Cardinality(Seats(g)) = Len(g.players)
<1> DEFINE n == Len(g.players)
           f == [i \in 1 .. n |-> g.players[i].socket_id]
<1>1. n \in Nat /\ DOMAIN g.players = 1 .. n
  BY ManagerFields
<1>2. IsFiniteSet(1 .. n) /\ Cardinality(1 .. n) = n
  BY <1>1, FS_Interval
<1>3. f \in [1 .. n -> Seats(g)]
  BY <1>1 DEF Seats
<1>4. \A x, y \in 1 .. n : f[x] = f[y] => x = y
  BY <1>1 DEF Distinct
<1>5. \A b \in Seats(g) : \E a \in 1 .. n : f[a] = b
  BY <1>1 DEF Seats
<1> HIDE DEF f, n
<1>6. IsFiniteSet(Seats(g)) /\ Cardinality(Seats(g)) = Cardinality(1 .. n)
  BY <1>2, <1>3, <1>4, <1>5, SameSize
<1> QED
  BY <1>2, <1>6 DEF n

(***************************************************************************)
(* While the lobby waits, the hand of everybody is the placeholder.        *)
(***************************************************************************)
LEMMA AllWaiting ==
  ASSUME NEW g \in ManagerType(Sockets), Distinct(g), Waiting(g)
  PROVE  Hands(g) = [s \in Seats(g) |-> "UNASSIGNED"]
<1> SUFFICES ASSUME NEW s \in Seats(g) PROVE game_manager_get_player_role(g, s) = "UNASSIGNED"
  BY DEF Hands
<1>1. PICK i \in DOMAIN g.players : g.players[i].socket_id = s
  BY DEF Seats
<1>2. i \in 1 .. Len(g.players)
  BY ManagerFields
<1>3. Hands(g)[s] = g.players[i].role
  BY <1>1, <1>2, HandHeld
<1> QED
  BY <1>3 DEF Hands, Waiting

(***************************************************************************)
(* A table where everybody holds a card and each role has as many holders  *)
(* as the deck has cards of it is one of the lobby's deals.                *)
(***************************************************************************)
LEMMA DealtIsADeal ==
  ASSUME NEW g \in ManagerType(Sockets), Distinct(g), Living(g), Dealt(g),
         \A r \in DealtRoles : Cardinality(Holders(g, r)) = DeckCount(r)
  PROVE  Hands(g) \in L!Deals(Seats(g))
<1>1. DOMAIN g.players = 1 .. Len(g.players)
  BY ManagerFields
<1>2. Hands(g) \in [Seats(g) -> DealtRoles]
  <2> SUFFICES ASSUME NEW s \in Seats(g) PROVE Hands(g)[s] \in DealtRoles
    BY DEF Hands
  <2>1. PICK i \in DOMAIN g.players : g.players[i].socket_id = s
    BY DEF Seats
  <2> QED
    BY <1>1, <2>1, HandHeld DEF Dealt
<1>3. ASSUME NEW r \in DealtRoles
      PROVE  Cardinality({s \in Seats(g) : Hands(g)[s] = r}) = DeckCount(r)
  <2> DEFINE H == Holders(g, r)
             T == {s \in Seats(g) : Hands(g)[s] = r}
             f == [i \in H |-> g.players[i].socket_id]
  <2>1. H = {i \in 1 .. Len(g.players) : g.players[i].role = r}
    BY <1>1 DEF Holders, Living
  <2>2. IsFiniteSet(H)
    BY HoldersFinite
  <2> HIDE DEF H
  <2>3. f \in [H -> T]
    <3> SUFFICES ASSUME NEW i \in H PROVE g.players[i].socket_id \in T
      OBVIOUS
    <3> QED
      BY <2>1, HandHeld
  <2>4. \A x, y \in H : f[x] = f[y] => x = y
    BY <1>1, <2>1 DEF Distinct
  <2>5. \A t \in T : \E i \in H : f[i] = t
    <3> SUFFICES ASSUME NEW t \in T PROVE \E i \in H : f[i] = t
      OBVIOUS
    <3>1. PICK i \in DOMAIN g.players : g.players[i].socket_id = t
      BY DEF Seats
    <3>2. g.players[i].role = r
      BY <1>1, <3>1, HandHeld
    <3> QED
      BY <1>1, <2>1, <3>1, <3>2
  <2> HIDE DEF T, f
  <2>6. Cardinality(T) = Cardinality(H)
    BY <2>2, <2>3, <2>4, <2>5, SameSize
  <2> QED
    BY <2>6 DEF H, T
<1> QED
  BY <1>2, <1>3, SameDeck, SameCardinality DEF L!Deals

-----------------------------------------------------------------------------
\* The initial state maps to an empty lobby.
LEMMA LobbyStart == Init => L!LobbyInit
<1> SUFFICES ASSUME Init PROVE L!LobbyInit
  OBVIOUS
<1>1. gm.players = <<>> /\ gm.state.is_game_started = FALSE
  BY DEF Init, game_manager_create
<1>2. Seats(gm) = {}
  BY <1>1 DEF Seats
<1>3. Hands(gm) = <<>>
  BY <1>2 DEF Hands
<1> QED
  BY <1>1, <1>2, <1>3, SeatedIsSeats DEF L!LobbyInit

(***************************************************************************)
(* A connection that gets a seat takes a seat of the lobby, and the one    *)
(* that fills the table takes the last, with a deal of the deck.           *)
(***************************************************************************)
LEMMA JoinTakesASeat ==
  ASSUME DInv, DInv', NEW s \in Sockets, Join(s)
  PROVE  L!TakeSeat(s) \/ L!TakeLastSeat(s)
<1> DEFINE h == game_manager_add_player(gm, s)
           n == Len(gm.players)
<1>1. /\ gm \in ManagerType(Sockets) /\ Distinct(gm) /\ Waiting(gm)
      /\ gm.player_count = n /\ n \in Nat /\ n < MaxPlayers
      /\ DOMAIN gm.players = 1 .. n
      /\ gm.state.current_phase = "LOBBY"
      /\ gm.state.is_game_started = FALSE
  BY ManagerFields DEF DInv, IInv, Good, Counted, Phased, Dealt, Waiting, Join, InLobby,
                       ManagerType
<1>2. /\ h \in ManagerType(Sockets)
      /\ Len(h.players) = n + 1
      /\ h.players[1].socket_id = s
      /\ \A i \in 2 .. Len(h.players) : h.players[i] = gm.players[i - 1]
      /\ h.player_count = n + 1
      /\ h.state = gm.state
  <2> HIDE DEF n
  <2>1. /\ h \in ManagerType(Sockets)
        /\ Len(h.players) = Len(gm.players) + 1
        /\ h.players[1].socket_id = s
        /\ \A i \in 2 .. Len(h.players) : h.players[i] = gm.players[i - 1]
        /\ h.player_count = gm.player_count + 1
        /\ h.state = gm.state
    BY <1>1, AddEffect, SMTT(60)
  <2> HIDE DEF h
  <2> QED
    BY <1>1, <2>1 DEF n
<1>3. Distinct(h) /\ Waiting(h)
  BY SeatTaken DEF DInv, IInv, Join, InLobby
<1>4. DOMAIN h.players = 1 .. n + 1
  BY <1>2, ManagerFields
<1>5. s \notin Seats(gm)
  <2>1. \A i \in 1 .. n : gm.players[i].socket_id # s
    BY <1>1, FindPlayer DEF Join, add_player_accepts
  <2> QED
    BY <1>1, <2>1 DEF Seats
<1> HIDE DEF h, n
<1>6. Seats(h) = Seats(gm) \union {s}
  <2>1. ASSUME NEW t \in Seats(h) PROVE t \in Seats(gm) \union {s}
    <3>1. PICK i \in 1 .. n + 1 : h.players[i].socket_id = t
      BY <1>4 DEF Seats
    <3>2. CASE i = 1
      BY <1>2, <3>1, <3>2
    <3>3. CASE i # 1
      <4>1. i \in 2 .. Len(h.players) /\ i - 1 \in 1 .. n
        BY <1>1, <1>2, <3>3
      <4> QED
        BY <1>1, <1>2, <3>1, <4>1 DEF Seats
    <3> QED
      BY <3>2, <3>3
  <2>2. ASSUME NEW t \in Seats(gm) PROVE t \in Seats(h)
    <3>1. PICK i \in 1 .. n : gm.players[i].socket_id = t
      BY <1>1 DEF Seats
    <3>2. i + 1 \in 2 .. Len(h.players) /\ i + 1 - 1 = i /\ i + 1 \in 1 .. n + 1
      BY <1>1, <1>2
    <3>3. h.players[i + 1] = gm.players[i]
      BY <1>2, <3>2
    <3> QED
      BY <1>4, <3>1, <3>2, <3>3 DEF Seats
  <2>3. s \in Seats(h)
    <3>1. 1 \in 1 .. n + 1
      BY <1>1
    <3> QED
      BY <1>2, <1>4, <3>1 DEF Seats
  <2> QED
    BY <2>1, <2>2, <2>3
<1>7. Cardinality(Seats(gm)) = n
  BY <1>1, SeatsCounted DEF n
<1>8. CASE h.player_count = MaxPlayers
  <2>1. PICK seat \in Seatings : gm' = game_manager_start_game(h, seat)
    BY <1>8 DEF Join, h
  <2> DEFINE g == game_manager_start_game(h, seat)
  <2>2. /\ g \in ManagerType(Sockets)
        /\ Len(g.players) = MaxPlayers
        /\ \A i \in 1 .. MaxPlayers :
             /\ g.players[i].socket_id = h.players[i].socket_id
             /\ g.players[i].role = role_at(seat[i])
        /\ g.state.is_game_started
        /\ g.state.current_phase = "NIGHT"
    BY <1>2, <1>8, StartEffect
  <2> HIDE DEF g
  <2>3. DOMAIN g.players = 1 .. MaxPlayers /\ n + 1 = MaxPlayers
    BY <1>2, <1>8, <2>2, ManagerFields
  <2>4. Seats(g) = Seats(h)
    BY <1>4, <2>2, <2>3 DEF Seats
  <2>5. Good(Sockets, g)
    BY <2>1 DEF DInv, IInv, g
  <2>6. Distinct(g) /\ Living(g) /\ Dealt(g)
    BY <2>2, <2>5 DEF Good, Waiting
  <2>7. \A r \in DealtRoles : Cardinality(Holders(g, r)) = DeckCount(r)
    BY <2>2, <2>6, HoldersAfterStart, DeckCounted
  <2>8. Hands(g) \in L!Deals(Seats(g))
    BY <2>2, <2>6, <2>7, DealtIsADeal
  <2>9. g.state.is_game_started = TRUE
    BY <2>2 DEF ManagerType
  <2>10. gm' = g
    BY <2>1 DEF g
  <2>11. L!TakeLastSeat(s)
    BY <1>1, <1>5, <1>6, <1>7, <2>3, <2>4, <2>8, <2>9, <2>10, SeatedIsSeats, SameCardinality
       DEF L!TakeLastSeat
  <2> QED
    BY <2>11
<1>9. CASE h.player_count # MaxPlayers
  <2>1. gm' = h
    BY <1>9 DEF Join, h
  <2>2. n + 1 < MaxPlayers
    BY <1>1, <1>2, <1>9, PlayersAssumption
  <2>3. Hands(h) = [t \in Seats(h) |-> "UNASSIGNED"]
    BY <1>2, <1>3, AllWaiting
  <2>4. L!TakeSeat(s)
    BY <1>1, <1>2, <1>5, <1>6, <1>7, <2>1, <2>2, <2>3, SeatedIsSeats, SameCardinality
       DEF L!TakeSeat
  <2> QED
    BY <2>4
<1> QED
  BY <1>8, <1>9

(***************************************************************************)
(* A player that leaves gives up its seat, and the others keep their hand. *)
(***************************************************************************)
LEMMA LeaveLeavesASeat ==
  ASSUME DInv, DInv', NEW s \in Sockets, Leave(s)
  PROVE  L!LeaveSeat(s)
<1> DEFINE h == game_manager_remove_player(gm, s)
           k == find_player_by_socket(gm, s)
           n == Len(gm.players)
<1>1. gm \in ManagerType(Sockets) /\ n \in Nat /\ DOMAIN gm.players = 1 .. n /\ Distinct(gm)
      /\ gm.player_count = n /\ gm.alive_count = n
  BY ManagerFields DEF DInv, IInv, Good, Counted
<1>2. /\ k \in 1 .. n
      /\ gm.players[k].socket_id = s
      /\ h \in ManagerType(Sockets)
      /\ Len(h.players) = n - 1
      /\ \A i \in 1 .. Len(h.players) :
           h.players[i] = gm.players[IF i < k THEN i ELSE i + 1]
      /\ h.state = gm.state
  BY <1>1, RemoveEffect DEF DInv, IInv, Good, Leave
<1>3. DOMAIN h.players = 1 .. n - 1 /\ gm' = h
  BY <1>2, ManagerFields DEF Leave
<1>4. Distinct(h)
  BY <1>3 DEF DInv, IInv, Good
<1> HIDE DEF h, k, n
<1> DEFINE up(i) == IF i < k THEN i ELSE i + 1
<1>5. \A i \in 1 .. n - 1 :
        up(i) \in 1 .. n /\ up(i) # k /\ h.players[i] = gm.players[up(i)]
  BY <1>1, <1>2
<1>6. \A j \in 1 .. n : j # k => \E i \in 1 .. n - 1 : up(i) = j
  <2> SUFFICES ASSUME NEW j \in 1 .. n, j # k PROVE \E i \in 1 .. n - 1 : up(i) = j
    OBVIOUS
  <2> DEFINE i == IF j < k THEN j ELSE j - 1
  <2>1. i \in 1 .. n - 1 /\ up(i) = j
    BY <1>1, <1>2
  <2> QED
    BY <2>1
<1> HIDE DEF up
<1>7. Seats(h) = Seats(gm) \ {s}
  <2>1. ASSUME NEW t \in Seats(h) PROVE t \in Seats(gm) \ {s}
    <3>1. PICK i \in 1 .. n - 1 : h.players[i].socket_id = t
      BY <1>3 DEF Seats
    <3>2. up(i) \in 1 .. n /\ up(i) # k /\ gm.players[up(i)].socket_id = t
      BY <1>5, <3>1
    <3> QED
      BY <1>1, <1>2, <3>2 DEF Seats, Distinct
  <2>2. ASSUME NEW t \in Seats(gm) \ {s} PROVE t \in Seats(h)
    <3>1. PICK j \in 1 .. n : gm.players[j].socket_id = t
      BY <1>1 DEF Seats
    <3>2. j # k
      BY <1>2, <3>1
    <3>3. PICK i \in 1 .. n - 1 : up(i) = j
      BY <1>6, <3>2
    <3>4. h.players[i].socket_id = t
      BY <1>5, <3>1, <3>3
    <3> QED
      BY <1>3, <3>4 DEF Seats
  <2> QED
    BY <2>1, <2>2
<1>8. s \in Seats(gm)
  BY <1>1, <1>2 DEF Seats
<1>9. ASSUME NEW t \in Seats(h) PROVE Hands(h)[t] = Hands(gm)[t]
  <2>1. PICK i \in 1 .. n - 1 : h.players[i].socket_id = t
    BY <1>3 DEF Seats
  <2>2. up(i) \in 1 .. n /\ h.players[i] = gm.players[up(i)]
    BY <1>5
  <2>3. Hands(h)[t] = h.players[i].role
    BY <1>2, <1>4, <2>1, HandHeld
  <2>4. Hands(gm)[t] = gm.players[up(i)].role
    <3>1. up(i) \in 1 .. Len(gm.players)
      BY <2>2 DEF n
    <3> QED
      BY <1>1, <2>1, <2>2, <3>1, HandHeld
  <2> QED
    BY <2>2, <2>3, <2>4
<1>10. Hands(h) = [t \in Seats(h) |-> Hands(gm)[t]]
  <2>1. Hands(h) = [t \in Seats(h) |-> Hands(h)[t]]
    BY DEF Hands
  <2> QED
    BY <1>9, <2>1
<1> QED
  BY <1>2, <1>3, <1>7, <1>8, <1>10, SeatedIsSeats DEF L!LeaveSeat

\* The game manager implements the abstract lobby: its list, counters, per-role
\* counts and shuffled array never show anything but seats taken and given up,
\* one deal of the whole deck with the last seat, and hands that do not change.
THEOREM LobbyImplemented == Spec => ImplementsLobby
<1>1. Init => L!LobbyInit
  BY LobbyStart
<1>2. DInv /\ DInv' /\ [Next]_gm => [L!LobbyNext]_L!lobbyVars
  <2> SUFFICES ASSUME DInv, DInv', [Next]_gm PROVE [L!LobbyNext]_L!lobbyVars
    OBVIOUS
  <2>1. ASSUME NEW s \in Sockets, Join(s) PROVE L!LobbyNext
    BY <2>1, JoinTakesASeat DEF L!LobbyNext
  <2>2. ASSUME NEW s \in Sockets, Leave(s) PROVE L!LobbyNext
    BY <2>2, LeaveLeavesASeat DEF L!LobbyNext
  <2>3. CASE UNCHANGED gm
    <3>1. Seats(gm') = Seats(gm) /\ Hands(gm') = Hands(gm)
          /\ gm'.state.is_game_started = gm.state.is_game_started
      BY <2>3
    <3> QED
      BY <3>1, SeatedIsSeats DEF L!lobbyVars
  <2> QED
    BY <2>1, <2>2, <2>3 DEF Next
<1> QED
  BY <1>1, <1>2, DealInvariance, PTL DEF Spec, ImplementsLobby, L!LobbySpec
=============================================================================
