SPECIFICATION TeamSpec
CONSTANTS
  Person = {p1, p2, p3}
  Founder = p1
  Slow = {}
PROPERTIES NobodyLosesTheirTeam
CHECK_DEADLOCK FALSE
