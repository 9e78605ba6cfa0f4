\* One event and two deliveries; the first raises after the second is answered.
SPECIFICATION EndpointSpec
CONSTANTS
  EventIds = {e1}
  Requests = {h1, h2}
  NoEvent = NoEvent
  MaxAttempts = 3
  MaxErrors = 1
  MaxCrashes = 0
INVARIANT FailedIsRescued
CHECK_DEADLOCK FALSE
