SPECIFICATION EachSpec
CONSTANTS
  Explored = {"memory", "artifacts", "results", "fences", "follow_ups", "budget", "recovery", "quorum", "progress", "focus"}
  NoValue = NoValue
INVARIANTS
  TaskMemoryExact
  TaskEndsJustified
  DiscussionWithinBounds
  ProgressIsOfReports
PROPERTY DecidedStaysDecided
CHECK_DEADLOCK FALSE
