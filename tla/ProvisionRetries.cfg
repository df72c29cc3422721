SPECIFICATION EachSpec
CONSTANTS
  Explored = {"provision"}
  a1 = a1
  a2 = a2
  w1 = w1
  w2 = w2
  w3 = w3
  w4 = w4
  Agents = {a1, a2}
  Workers = {w1, w2, w3, w4}
  AgentOf <- OneContended
  OperationIds = {o1, o2, o3}
  Generations = {g0, g1, g2, g3}
  First = g0
  MaxJournal = 4
  Sessions = {s1}
  Bound = {s1}
  Joins = {}
  Invites = {}
  Bridges = {b1, b2}
  Operations = {op1, op2}
  Tickets = {t1}
  MaxEpoch = 2
INVARIANT ProvisionRetriesConverge
CHECK_DEADLOCK FALSE
