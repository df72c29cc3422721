SPECIFICATION EachSpec
CONSTANTS
  Explored = {"servers", "capacity", "modes", "commands", "messages", "rotation", "governance", "carry", "delegation"}
  NoValue = NoValue
INVARIANTS
  AdmissionsBounded
  PlansGovernAsReviewed
 
CHECK_DEADLOCK FALSE
