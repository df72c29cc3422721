SPECIFICATION Spec
CONSTANTS
  Runs = {r1}
  NoRun = NoRun
  Seqs = {1, 2, 3, 4}
  MaxEvents = 2
  MaxEpoch = 2
  MaxDown = 1
  MaxUp = 0
  Revocable = TRUE
INVARIANTS
  Agreement
PROPERTIES
  ImplementsManagedRun
CHECK_DEADLOCK FALSE
