CONSTANTS
  COMMAND_ALIAS_MAX = 16
  MaxAddresses = 2
  Typed <- AllLines
  MaxLines = 2
  RxBound = 2
  TxBound = 2
SPECIFICATION FairSpec
CHECK_DEADLOCK FALSE
INVARIANTS TypeOK OneSocket ServingIsConnected WaitsMidLine
PROPERTIES LoopLeft InputEndsClient MessagesRead
