SPECIFICATION MCSpec
CONSTANTS
  e = e
  Endpoints = {e, f}
  NoEndpoint = NoEndpoint
  NoKey = NoKey
  MaxDialogs = 2
  MaxIncidents = 2
INVARIANTS EndpointFits
PROPERTIES AnswerStands Answered
CHECK_DEADLOCK FALSE
