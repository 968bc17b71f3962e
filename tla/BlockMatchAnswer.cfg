SPECIFICATION Spec
CONSTANTS
  BlockSet <- MCBlocks
  BlockLimit = 2
  Labels <- MCLabels
  Events <- MCEvents
  Outcomes = {"win", "lose"}
  Weight <- MCWeight
  Penalty = 3
  Whole = 4
  NoBlock = NoBlock
  NoEvent = NoEvent
  NoType = NoType
  NoPayload = NoPayload
  NoText = NoText
INVARIANTS NamedAnswers BestPredictionAnswers
CHECK_DEADLOCK FALSE
