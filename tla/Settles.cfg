SPECIFICATION FairSpec
CONSTANTS
  Runs = {r1}
  NoRun = NoRun
  Seqs = {1, 2, 3, 4}
  MaxEvents = 2
  MaxEpoch = 2
  MaxDown = 1
  MaxUp = 0
  Revocable = FALSE
PROPERTIES
  EveryRunSettles
CHECK_DEADLOCK FALSE
