CONSTANTS
  MaxDrivers = 2
  MaxEdits = 1
  MaxRequests = 1
  MaxTasks = 1
  MaxFaults = 1
SPECIFICATION FairSpec
INVARIANTS TypeOK SchedulerKnows TaskWorksAlone
PROPERTIES QueuedSyncNowRuns EditsAreSynced TasksGoOn SharedNotesSync
CHECK_DEADLOCK FALSE
