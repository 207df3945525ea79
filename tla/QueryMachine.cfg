SPECIFICATION Spec
CONSTANTS
  Queries <- MCQueries
  Modes <- MCModes
  Answers <- MCAnswers
  Contents <- MCContents
  Refusals <- MCRefusals
  MaxSequence = 5
  None = None
INVARIANTS TypeOK WaitsForItsRequest SupersededIsAborted AnswerFitsQuestion SearchIsJustified
PROPERTIES UserChoiceWins AwaitingNeverSearches WaitingEnds ImplementsSession
CHECK_DEADLOCK FALSE
