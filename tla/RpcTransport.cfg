CONSTANTS
  Caller = {c1, c2}
  Message <- Messages
SPECIFICATION Spec
INVARIANTS
  AnsweredOnce
PROPERTIES
  OnlyLongMessagesHarm
  CallsEnd
CHECK_DEADLOCK FALSE
