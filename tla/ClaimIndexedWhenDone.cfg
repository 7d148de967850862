SPECIFICATION Spec
CONSTANTS
  r1 = r1  r2 = r2  dirA = dirA  dirB = dirB  home = home  docs = docs
  NoRun = NoRun  NoContent = NoContent
  Run = {r1, r2}  Dir = {dirA}  Path <- OnePath  Version = {1}  MaxCopies = 1
  Separator <- MCSeparator  LongWord = {}  Lower <- MCLower
  Root = {home}  Under <- OneRoot  Excluded = {}  Oversized = {}  TextLike <- OnePath
  Config <- ConfigHome  Parse = {TRUE, FALSE}  Cores = 4
  MaxDay = 1  MaxEdits = 0  MaxCrashes = 0  MaxFaults = 0  MaxClicks = 0
SYMMETRY RunSymmetry
INVARIANTS IndexedWhenDone
