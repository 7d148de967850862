SPECIFICATION Spec
CONSTANTS
  r1 = r1  r2 = r2  dirA = dirA  dirB = dirB  home = home  docs = docs
  NoRun = NoRun  NoContent = NoContent
  Run = {r1}  Dir = {dirA}  Path <- TwoPaths  Version = {1}  MaxCopies = 1
  Separator <- MCSeparator  LongWord = {}  Lower <- MCLower
  Root = {home, docs}  Under <- NestedRoots  Excluded = {}  Oversized = {}  TextLike <- OnePath
  Config <- ConfigNested  Parse = {TRUE, FALSE}  Cores = 4
  MaxDay = 1  MaxEdits = 0  MaxCrashes = 1  MaxFaults = 1  MaxClicks = 0
INVARIANTS TypeOK NoVisitLost ProgressAccounted
PROPERTIES SearchableStays PipelineKeepsPromise
