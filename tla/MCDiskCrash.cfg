\* Three users, one of them called user_directory, a crash, a restart and a file
\* that cannot be opened.
SPECIFICATION DiskSpec
CONSTANTS
  NULL = NULL
  Torn = Torn
  ValidNames = {u1, u2, user_directory}
  Names = {u1, u2, user_directory}
  DirectoryName = user_directory
  MaxReadFaults = 0
  MaxDiskBacklog = 0
  MaxCrashes = 1
  MaxRestarts = 1
  MaxFaults = 1
SYMMETRY Symmetry
INVARIANTS
  DiskTypeOK
  
  
  
  
CHECK_DEADLOCK FALSE
