CONSTANTS
  m1 = m1
  m2 = m2
  h1 = h1
  h2 = h2
  Members = {m1}
  Labels = {"ann", "bob"}
  Handlers = {h1, h2}
  Free = Free
  Stranger = Stranger
  None = None
  MaxJoins <- TwoJoins
  MaxFaults = 1
SPECIFICATION Spec
INVARIANTS
  OneHandlePerMembership
CHECK_DEADLOCK FALSE
