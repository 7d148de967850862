SPECIFICATION FairSpec
CONSTANTS
  none = none  q1 = q1  q2 = q2  main = main  other = other  r1 = r1  r2 = r2
  Input = {none, q1, q2}  Blank = {none}
  IndexDir = {main, other}  Default = main  NoResult = NoResult
  Req = {r1, r2}  Retries = 1  MaxKeys = 4  MaxSaves = 1
CHECK_DEADLOCK FALSE
INVARIANTS TypeOK FreshUnlessRaced BusyOnlyWhileWorking
PROPERTIES SearchSettles InputSearched
