CONSTANTS
  COMMAND_ALIAS_MAX = 16
  MaxAddresses = 1
  Typed <- ListedOnly
  MaxLines = 1
  RxBound = 1
  TxBound = 1
SPECIFICATION Spec
CHECK_DEADLOCK FALSE
INVARIANT CommandsReturn
