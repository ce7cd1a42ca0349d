SPECIFICATION FairSpec
CONSTANTS
  MaxConnect = 2
  MaxDiscover = 2
  MaxSync = 2
  MaxReconnect = 2
INVARIANT
  SyncRetryResumes
