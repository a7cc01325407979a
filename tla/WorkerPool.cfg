CONSTANTS
  CODER = {decoder, encoder}
  OPENER = {open1, open2}
  MaxThreads = 2
SPECIFICATION FairSpec
INVARIANTS OneJobEach WorkersOutliveJobs CancelIsTheJobs
PROPERTIES EveryJobReports
CHECK_DEADLOCK FALSE
