CONSTANTS
  g1 = g1
  g2 = g2
  flux = flux
  sdxl = sdxl
  p1 = p1
  p2 = p2
  p3 = p3
  q1 = q1
  q2 = q2
  Job = {1, 2}
  Gpu = {g1}
  Profile = {flux, sdxl}
  Process = {p1, p2, p3}
  NoProcess = NoProcess
  NoModel = NoModel
  GpuOf <- MCGpuOf
  Serves <- MCServes
  ProfileOf <- MCSameProfile
  OwnerOf <- MCOwnerOf
  MaxQueued = 2
  MaxOwnerActive = 2
  MaxWaits = 1
  Faults = {"kill", "orphan", "retained"}
  MaxFaults = 2
SPECIFICATION FairSpec
CHECK_DEADLOCK FALSE
INVARIANTS
  OneModelPerGpu
  NothingLeftBehind
PROPERTIES
  JobsSettle
