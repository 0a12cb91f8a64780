SPECIFICATION FairSpec
CONSTANTS
  Keys <- OneKey
  MyThing = "mine"
  MaxAcks = 2
  MaxTopics = 3
  MaxTokens = 1
  MaxCount = 2
  Faults = {"subscribe", "unsubscribe", "publish"}
  AppActions <- BothActions
  CallbackActions = {}
  MaxActions = 3
  MaxVersion = 3
  MaxDepth = 3
INVARIANTS TypeOK NotForgotten CallbackOnce
PROPERTIES StaysListening DeltasIncrease Answered
