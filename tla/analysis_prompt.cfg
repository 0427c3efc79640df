SPECIFICATION Spec
CONSTANTS
  Calls = {1, 2}
  AnswersNeeded = 2
  NoCall = NoCall
INVARIANT
  QuestionKnowsService
