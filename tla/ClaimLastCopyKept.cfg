SPECIFICATION Spec
CONSTANTS
  j1 = j1  j2 = j2  h1 = h1  h2 = h2  NoHash = NoHash  xa = xa  ya = ya  yc = yc
  Path <- Files
  Job = {j1}  Hash = {h1, h2}  Name <- MCName  Walks <- MCWalks  Contents <- MCContents
  MaxClicks = 3  MaxMishaps = 0
CHECK_DEADLOCK FALSE
PROPERTIES LastCopyKept
