SPECIFICATION OverlaySpec
CONSTANTS
  Cap = 3
  TextCap = 2
  MaxPieces = 2
  MaxIncidents = 3
INVARIANTS
  OverlayTypeOK
  ViewAgrees
  TranscriptFaithful
  AnswersSound
CHECK_DEADLOCK FALSE
