SPECIFICATION HumanSpec
CONSTANTS
  Questions = 3
  MaxAnswers = 3
  NoAnswer = NoAnswer
CHECK_DEADLOCK FALSE
INVARIANTS
  NoStaleAnswer
  EveryLineAccounted
