CONSTANTS
  MID = {1, 2, 3, 4}
  None = 0
  MaxTasks = 1
  Post <- TwoParts
  PARTS <- PartCount
  REFS <- Replies
  IGNORED = {2}
  VIEWS <- CompleteOnes
SPECIFICATION Spec
INVARIANTS ForestSound ShownMatches ClosestShown PartsTogether
PROPERTIES ReloadKeepsThreads
