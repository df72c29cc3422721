SPECIFICATION EachSpec
CONSTANTS
  Explored = {"runs", "crashes", "configuration", "stream", "tail", "redaction", "events"}
  a1 = a1
  a2 = a2
  NoValue = NoValue
  N = 2
  Agents = {a1, a2}
  AgentOf <- OnePerAgent
  MaxActive = 1
  MaxCrashes = 2
INVARIANTS
  AtMostOneRequest
  CanceledWasNeverSent
  WithinLimits
  ConfigurationProven
  StreamedAsSent
CHECK_DEADLOCK FALSE
