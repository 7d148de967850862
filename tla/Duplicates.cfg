SPECIFICATION FairSpec
CONSTANTS
  j1 = j1  j2 = j2  h1 = h1  h2 = h2  NoHash = NoHash  xa = xa  ya = ya  yc = yc
  Path <- Files
  Job = {j1, j2}  Hash = {h1, h2}  Name <- MCName  Walks <- MCWalks  Contents <- MCContents
  MaxClicks = 4  MaxMishaps = 1
CHECK_DEADLOCK FALSE
INVARIANTS TypeOK GroupsAreEqual DeletedStaysGone NoStrayListener
PROPERTIES CarefulKeepsLastCopy BusyEnds
