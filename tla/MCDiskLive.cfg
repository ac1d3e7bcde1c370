\* Two users, a crash, two restarts, a file that cannot be opened for writing
\* and one that a start cannot open: termination and progress.
SPECIFICATION FairDiskSpec
CONSTANTS
  NULL = NULL
  Torn = Torn
  ValidNames = {u1, u2}
  Names = {u1, u2}
  DirectoryName = user_directory
  MaxReadFaults = 1
  MaxDiskBacklog = 1
  MaxCrashes = 1
  MaxRestarts = 2
  MaxFaults = 1
PROPERTIES
  ShutdownCompletes
  UsersReachDisk
CHECK_DEADLOCK FALSE
