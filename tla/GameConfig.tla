----------------------------- MODULE GameConfig -----------------------------
(***************************************************************************)
(* The table of role distributions (include/game_config.h) and the deck of *)
(* roles that a start of the game deals from it.  The table is a constant  *)
(* of the machines so that TLC can run a scaled one beside the real one,   *)
(* which is GAME_CONFIGS below.                                            *)
(***************************************************************************)
EXTENDS Integers, SequencesExt

CONSTANTS
  MaxPlayers,   \* the server's max_players argument
  GameConfigs   \* the table get_game_config searches

Roles == {"UNASSIGNED", "VILLAGER", "WEREWOLF", "SEER", "DOCTOR", "BODYGUARD"}

\* The roles a game deals: every role but the lobby's placeholder.
DealtRoles == Roles \ {"UNASSIGNED"}

GameConfig(lo, hi, werewolves, villagers, specials) ==
  [min_players |-> lo, max_players |-> hi, num_werewolves |-> werewolves,
   num_villagers |-> villagers, special_roles |-> specials]

\* The table of the program.
GAME_CONFIGS == <<
  GameConfig(6, 6, 1, 5, <<>>),
  GameConfig(7, 8, 1, 5, <<"SEER">>),
  GameConfig(9, 11, 2, 5, <<"SEER", "DOCTOR">>),
  GameConfig(12, 16, 3, 6, <<"SEER", "DOCTOR", "BODYGUARD">>) >>

\* The index of the first row whose range holds n, 0 when no row does (NULL).
get_game_config(n) ==
  SelectInSeq(GameConfigs, LAMBDA c : c.min_players <= n /\ n <= c.max_players)

config == GameConfigs[get_game_config(MaxPlayers)]

(***************************************************************************)
(* The role dealt to the player in position k of the shuffled array:       *)
(* werewolves first, then villagers, then the special roles, and villagers *)
(* for whoever is left.                                                    *)
(***************************************************************************)
\* Mutant: no loop fills the places after the configured villagers.
role_at_unfilled(k) ==
  IF k <= config.num_werewolves THEN "WEREWOLF"
  ELSE IF k <= config.num_werewolves + config.num_villagers THEN "VILLAGER"
  ELSE "UNASSIGNED"

role_at(k) ==
  LET special == k - config.num_werewolves - config.num_villagers
  IN  IF k <= config.num_werewolves THEN "WEREWOLF"
      ELSE IF special \in DOMAIN config.special_roles
           THEN config.special_roles[special]
      ELSE "VILLAGER"

(***************************************************************************)
(* What the row says, read without the loops: how many players of a full   *)
(* game hold role r.  Special roles that find no player left are not dealt.*)
(***************************************************************************)
SpecialsDealt ==
  LET room == MaxPlayers - config.num_werewolves - config.num_villagers
  IN  {i \in DOMAIN config.special_roles : i <= room}

DeckCount(r) ==
  Cardinality({i \in SpecialsDealt : config.special_roles[i] = r})
  + CASE r = "WEREWOLF" -> config.num_werewolves
      [] r = "VILLAGER" -> MaxPlayers - config.num_werewolves
                                      - Cardinality(SpecialsDealt)
      [] OTHER          -> 0

(***************************************************************************)
(* What the unguarded loops of game_manager_start_game rely on: the row    *)
(* exists, and its werewolves and villagers fit in the player array.       *)
(***************************************************************************)
ASSUME PlayersAssumption == MaxPlayers \in Nat \ {0}

ASSUME ConfigAssumption ==
  /\ get_game_config(MaxPlayers) \in DOMAIN GameConfigs
  /\ config.num_werewolves \in Nat
  /\ config.num_villagers \in Nat
  /\ config.num_werewolves + config.num_villagers <= MaxPlayers
  /\ config.special_roles \in Seq(DealtRoles)
=============================================================================
