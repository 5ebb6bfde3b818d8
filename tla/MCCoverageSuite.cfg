SPECIFICATION Spec
CONSTANTS
  dentist = dentist
  bus = bus
  ferry = ferry
  Questions <- MCQuestions
  Contract <- MCContract
  Answers <- MCAnswers
  Concurrency = 2
  MaxFaults = 2
INVARIANTS
  TypeOK
  OneAnswerEach
  HolesOnlyByTearing
  AskedAgainForCause
  BlameIsFair
CHECK_DEADLOCK FALSE
