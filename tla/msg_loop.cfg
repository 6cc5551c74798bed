CONSTANTS
  BYTE = 2
  Caller = {1, 2}
  SpId = 3
  Appended <- MCAppended
  Body <- MCBody
  MaxFaults = 1
SPECIFICATION Spec
INVARIANTS
  TypeOK AnswerMatchesRequest NothingLostWithoutFaults UcsiMailboxConsistent
PROPERTY ImplementsServer
CHECK_DEADLOCK FALSE
