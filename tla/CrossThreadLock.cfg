CONSTANTS
  Sections = {s1, s2, s3, s4}
SPECIFICATION FairSpec
INVARIANTS
  TypeOK
  MutualExclusion
PROPERTIES
  ImplementsReaderWriterLock
  LockProgress
