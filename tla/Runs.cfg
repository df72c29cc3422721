SPECIFICATION EachSpec
CONSTANTS
  Explored = {"central", "bridge", "chain", "profiles", "inputs", "targets", "adoption", "sessions", "remote_inputs"}
  r1 = r1
  r2 = r2
  Runs = {r1, r2}
  NoRun = NoRun
  MaxEvents = 2
  Seqs = {1, 2}
  NoValue = NoValue
INVARIANTS
  IntentMatchesRun
  EventsInOrder
  RetryIsJustified
  AtMostOnceStart
  NothingLeftUnfinished
  EvidenceProven
PROPERTIES
  HistoryIsKept
  EvidenceIsFinal
SYMMETRY RunSymmetry
CHECK_DEADLOCK FALSE
