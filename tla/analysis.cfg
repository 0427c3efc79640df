SPECIFICATION FairSpec
CONSTANTS
  Calls = {1, 2, 3}
  AnswersNeeded = 2
  NoCall = NoCall
INVARIANTS
  RowsConsistent
  OrderFollowsCalls
  ReportKnowsEarlierAnswers
  LastAnswerCloses
PROPERTIES
  ReportIsFinal
  EveryCallEnds
