SPECIFICATION FairSpec
CONSTANTS
  Threads = {t1, t2, t3}
  None = None
INVARIANTS OwnerReleases ExclusiveUnlessOverlapped
PROPERTIES FreedForWaiters
