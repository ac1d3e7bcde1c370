\* One of two users is called user_directory: follower ids after a clean exit.
SPECIFICATION DiskSpec
CONSTANTS
  NULL = NULL
  Torn = Torn
  ValidNames = {user_directory, u1}
  Names = {user_directory, u1}
  DirectoryName = user_directory
  MaxReadFaults = 0
  MaxDiskBacklog = 1
  MaxCrashes = 0
  MaxRestarts = 1
  MaxFaults = 0
INVARIANT
  FollowersRegistered
CHECK_DEADLOCK FALSE
