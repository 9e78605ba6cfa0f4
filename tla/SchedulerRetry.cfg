\* No loop; one firing of the external cron is sent twice.
SPECIFICATION Spec
CONSTANTS
  o1 = o1
  o2 = o2
  None = None
  Orgs = {o1, o2}
  RecapOrgs = {o1, o2}
  RecapDue <- MCRecapDue
  StaleDue = {}
  Loops = {}
  Requests = {r1}
  MaxMinute = 2
  MaxRequests = 2
  MaxFailures = 1
INVARIANT RetryHarmless
CHECK_DEADLOCK FALSE
