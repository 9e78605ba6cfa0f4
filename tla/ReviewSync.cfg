\* Two events handled at a time; one failure, crash or redelivery.
SPECIFICATION Spec
CONSTANTS
  Root <- MCRoot
  Handlers = {1, 2}
  Settings <- MCSettings
  MaxUpsets = 1
INVARIANTS TypeOK ShownOnce NoneLost OneThread AnswersRight
PROPERTY CommentsArrive
CHECK_DEADLOCK FALSE
