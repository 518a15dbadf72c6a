SPECIFICATION FairSpec
CONSTANTS
  Readers = {r1, r2}
  Writers = {w1}
  Nobody = Nobody
  BUCKET_SIZE = 2
  MAX_WRITE_LEN = 3
  DEFAULTCIPHER <- EvenKey
  Keys <- AlsoEmptyKey
  Counts = {1, 3}
  Closers = {r1}
  Askers = {r1}
  Failures = {"copy_to_user", "copy_from_user"}
  MaxBuckets = 3
  MaxResets = 1
INVARIANTS
  NothingOutlivesReset
  Deciphered
PROPERTIES
  QremCountsUnread
  EveryCallReturns
CHECK_DEADLOCK FALSE
