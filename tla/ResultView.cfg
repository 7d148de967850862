SPECIFICATION MCSpec
CONSTANTS
  Ext <- MCExt  NoExt = NoExt  Lower <- MCLower  Hit <- MCHit   Kilo = 8  MegParts = 100  Missing = Missing
  Megs <- MCMegs  Limit = 2  MaxHits = 3  MaxExts = 1
  Clock <- MCClock  MaxLen <- MCMaxLen  Texts <- MCTexts
  Letter <- MCLetter  ToLower <- MCFold  Canonical <- MCFold
ACTION_CONSTRAINT MCShown
CHECK_DEADLOCK FALSE
INVARIANTS TypeOK ResultsExact SelectionShown RowsInOrder LabelsFollowRows CellsTrue PathsFit MarksRight
