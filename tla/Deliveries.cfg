\* GitHub: deliveries handled one at a time and in order, behind a channel label.
\* Slack: two events, two deliveries in progress at a time.
SPECIFICATION MCSpec
CONSTANTS
  p1 = p1
  p2 = p2
  p3 = p3
  c1 = c1
  c2 = c2
  None = None
  PRs = {p1, p2, p3}
  Channels = {c1, c2}
  Handlers = {h1}
  ChannelName <- MCChannelName
  StackParents <- MCStackParents
  LabelGate = TRUE
  InOrder = TRUE
  MaxDeliveries = 6
  MaxRedeliveries = 0
  MaxFailures = 0
  EventIds = {e1, e2}
  Requests = {r1, r2}
  NoEvent = None
  MaxAttempts = 3
  MaxErrors = 2
  MaxCrashes = 1
INVARIANTS Settled
INVARIANTS EndpointTypeOK OneDispatch PostedOnce ClaimsBacked
PROPERTIES KeepsPromise NothingLost
CHECK_DEADLOCK FALSE
