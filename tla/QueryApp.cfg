SPECIFICATION AppSpec
CONSTANTS
  Queries <- MCQueries
  Modes <- MCModes
  Answers <- MCAnswers
  Contents <- MCContents
  Refusals <- MCRefusals
  DemoExamples <- MCDemoExamples
  MaxSequence = 5
  None = None
INVARIANTS EnabledButtonsAct NoDeadEnd
CHECK_DEADLOCK FALSE
