\* README.md:150: a link request merges the two rows.
SPECIFICATION Spec
CONSTANTS
  Workers = {w1, w2}
  Places = {c1, c2}
  People = {p1}
  NoPlace = none
  MaxEvents = 3
  MaxMishaps = 1
  MaxInputs = 5
  Refreshers = {w1, w2}
  None = none
  Mixes <- MCMixes
  MaxPushes = 1
  MaxChanges = 2
  MaxFaults = 1
  Callers = {k1, k2, k3}
  MaxGrants = 4
  MaxDeaths = 1
  Requests = {w1, w2}
  GitHubOrgs <- MCGitHubOrgs
  Teams <- MCTeams
  Null = none
  MaxInstalls = 1
  MaxRequests = 4
INVARIANT LinkMerges
CHECK_DEADLOCK FALSE
