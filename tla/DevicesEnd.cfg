SPECIFICATION DevicesSpec
CONSTANTS
  Explored = {"gate", "leases", "uploads", "pairing", "provision", "hosted", "probes", "wait"}
  NoValue = NoValue
PROPERTY DevicesProgress
CHECK_DEADLOCK FALSE
