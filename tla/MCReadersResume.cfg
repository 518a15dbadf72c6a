SPECIFICATION Spec
CONSTANTS
  Readers = {r1}
  Writers = {w1}
  Nobody = Nobody
  BUCKET_SIZE = 2
  MAX_WRITE_LEN = 3
  DEFAULTCIPHER <- EvenKey
  Keys <- NoKeys
  Counts = {1, 3}
  Closers = {}
  Askers = {}
  Failures = {}
  MaxBuckets = 3
  MaxResets = 1
PROPERTIES
  ReadersResume
CHECK_DEADLOCK FALSE
