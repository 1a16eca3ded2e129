SPECIFICATION FairJobsSpec
CONSTANTS
  j1 = j1
  j2 = j2
  j3 = j3
  acme = acme
  anonymous = anonymous
  JobIds <- MCJobIds
  Tenants <- MCTenants
  MaxJobs = 2
  MaxInflight = 2
  Ttl = 1
  MaxClock = 2
INVARIANTS
  ActiveJobIsStored
  CapacityIsExact
  StoreIsBoundedAndSettled
PROPERTIES
  PollsMoveForward
  AcceptedJobSettles
