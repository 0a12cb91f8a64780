SPECIFICATION Spec
CONSTANTS
  a = a
  b = b
  NoTopic = NoTopic
  Topics = {a, b}
  NumHandlers = 3
  MaxPacketId = 4
  CleanSession = TRUE
  LateAnswers = FALSE
  MaxDepth = 3
  MaxChannel = 2
  AppCalls = {"subscribe", "resubscribe"}
  CallbackCalls = {"unsubscribe", "publish"}
SYMMETRY TopicSymmetry
INVARIANTS TypeOK AcksAnswer ResubscribeRestoresPacked ResubscribeNotNull
