CONSTANTS
  Messages <- MCMessages
  Chats = {"chat"}
  Cap = 2
  Window = 2
  MaxEvents = 4
SPECIFICATION FairSpec
INVARIANTS
  EachCommandOnce
  UnsendTakesLast
PROPERTIES
  BotEnds
CHECK_DEADLOCK FALSE
