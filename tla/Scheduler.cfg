\* One loop and one request at a time, two requests, two minutes.
SPECIFICATION Spec
CONSTANTS
  o1 = o1
  o2 = o2
  None = None
  Orgs = {o1, o2}
  RecapOrgs = {o1, o2}
  RecapDue <- MCRecapDue
  StaleDue = {1}
  Loops = {l1}
  Requests = {r1}
  MaxMinute = 2
  MaxRequests = 2
  MaxFailures = 1
INVARIANTS TypeOK AtMostOnce
PROPERTY Served
CHECK_DEADLOCK FALSE
