\* One delivery at a time and in order; one failure.
SPECIFICATION Spec
CONSTANTS
  p1 = p1
  p2 = p2
  p3 = p3
  c1 = c1
  c2 = c2
  None = None
  PRs = {p1, p2, p3}
  Channels = {c1, c2}
  Handlers = {h1}
  ChannelName <- MCChannelName
  StackParents <- MCStackParents
  LabelGate = FALSE
  InOrder = TRUE
  MaxDeliveries = 3
  MaxRedeliveries = 0
  MaxFailures = 1
INVARIANT ParentStands
CHECK_DEADLOCK FALSE
