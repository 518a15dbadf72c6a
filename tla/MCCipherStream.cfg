SPECIFICATION Spec
CONSTANTS
  Readers = {r1, r2}
  Writers = {w1, w2}
  Nobody = Nobody
  BUCKET_SIZE = 2
  MAX_WRITE_LEN = 3
  DEFAULTCIPHER <- EvenKey
  Keys <- NoKeys
  Counts = {1, 3}
  Closers = {w1}
  Askers = {}
  Failures = {"kmalloc"}
  MaxBuckets = 3
  MaxResets = 0
INVARIANTS
  TypeOK
  HeldUntilSomeoneCloses
  InOrder
PROPERTIES
  ImplementsStream
SYMMETRY AlikeReaders
CHECK_DEADLOCK FALSE
