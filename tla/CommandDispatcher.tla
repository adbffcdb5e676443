------------------------- MODULE CommandDispatcher -------------------------
(***************************************************************************)
(* client/command_dispatcher.c: the table of the client's commands and the *)
(* search for what the user typed after the slash.                         *)
(***************************************************************************)
EXTENDS Integers, SequencesExt

CONSTANT COMMAND_ALIAS_MAX   \* the length of the array of aliases in a row

ASSUME AliasesAssumption == COMMAND_ALIAS_MAX \in Nat /\ COMMAND_ALIAS_MAX >= 4

NULL == "NULL"   \* the null pointer, where a string is expected

commands ==
  <<[aliases |-> <<"help">>,                       function |-> "help"],
    [aliases |-> <<"whisper", "w", "pm", "msg">>,  function |-> "whisper"],
    [aliases |-> <<"ww", "werewolf">>,             function |-> "ww"]>>

\* The entries of a row: the array is static, what it does not name is NULL.
Entries(row) ==
  [j \in 1 .. COMMAND_ALIAS_MAX |->
     [alias    |-> IF j \in DOMAIN row.aliases THEN row.aliases[j] ELSE NULL,
      function |-> row.function]]

\* The table in the order of the search.
AliasTable == FlattenSeq([i \in DOMAIN commands |-> Entries(commands[i])])

(***************************************************************************)
(* What a command leads to: the function of its row, "usage" when nothing  *)
(* follows the slash, or "unknown".  Each entry is handed to strcmp until  *)
(* one is equal, and strcmp does not return from a null pointer: "segv".   *)
(***************************************************************************)
dispatch_command(command) ==
  LET i == SelectInSeq(AliasTable, LAMBDA e : e.alias \in {command, NULL})
  IN  IF command = NULL THEN "usage"
      ELSE IF i = 0 THEN "unknown"
      ELSE IF AliasTable[i].alias = NULL THEN "segv"
      ELSE AliasTable[i].function
=============================================================================
