SPECIFICATION Spec
CONSTANTS
  s1 = s1
  s2 = s2
  login = login
  other = other
  Slot = {s1, s2}
  Card = {login, other}
  LoginCard = login
  NoCard = NoCard
  MaxSeries = 3
  MaxActivations = 2
CONSTRAINT FewInsertions
CHECK_DEADLOCK FALSE
PROPERTY AlwaysPaired
