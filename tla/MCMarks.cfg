SPECIFICATION Spec
CONSTANTS
  u1 = u1
  u2 = u2
  Users <- MCUsers
  Window = 1
  MinUsers = 2
  MaxHour = 1
  MaxCalls <- MCMax
  MaxMarks <- MCMax
INVARIANTS
  StandsInOnce
  VoicesCounted
  RulesAreEarned
PROPERTIES
  NeverEarlier
  FewMustAgree
