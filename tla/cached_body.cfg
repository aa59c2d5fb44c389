CONSTANTS
  m1 = m1
  m2 = m2
  c1 = c1
  c2 = c2
  p1 = p1
  Messages = {m1, m2}
  Mail <- FewMail
  Calls = {c1, c2}
  Plans <- BodyCalls
  Paths = {p1}
  MaxListed = 2
  MaxFaults = 1
SPECIFICATION Spec
CHECK_DEADLOCK FALSE
INVARIANT RepresentationsAsSent
