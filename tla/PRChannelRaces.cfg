\* Two deliveries in progress at a time, one redelivery and one failure.
SPECIFICATION Spec
CONSTANTS
  p1 = p1
  p2 = p2
  p3 = p3
  c1 = c1
  c2 = c2
  None = None
  PRs = {p1, p2, p3}
  Channels = {c1, c2}
  Handlers = {h1, h2}
  ChannelName <- MCChannelName
  StackParents <- MCStackParents
  LabelGate = FALSE
  InOrder = FALSE
  MaxDeliveries = 3
  MaxRedeliveries = 1
  MaxFailures = 1
INVARIANTS TypeOK OwnerConsistent StackedThreadsLive NoOrphanedParent
PROPERTY OpenedIsTracked
CHECK_DEADLOCK FALSE
