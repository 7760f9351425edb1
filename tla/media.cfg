CONSTANTS
  g1 = g1
  g2 = g2
  flux = flux
  sdxl = sdxl
  p1 = p1
  p2 = p2
  p3 = p3
  q1 = q1
  q2 = q2
  Job = {1, 2}
  Gpu = {g1, g2}
  Profile = {flux, sdxl}
  Process = {p1, p2, q1}
  NoProcess = NoProcess
  NoModel = NoModel
  GpuOf <- MCGpuOf
  Serves <- MCServes
  ProfileOf <- MCProfileOf
  OwnerOf <- MCOwnerOf
  MaxQueued = 2
  MaxOwnerActive = 2
  MaxWaits = 1
  Faults = {"kill", "orphan", "volume", "store", "retained"}
  MaxFaults = 2
SYMMETRY LifeSymmetry
SPECIFICATION Spec
CHECK_DEADLOCK FALSE
INVARIANTS
  TypeOK
  WorkIsOwned
  CancelWins
  GalleryAgrees
PROPERTIES
  KeepsPromise
