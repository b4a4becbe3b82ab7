SPECIFICATION Spec
CONSTANTS
  Names = {p, q}
  RawKeys = {"batch", "batch-size", "model"}
  Canon <- MCCanon
  Values = {"1", "0x1"}
  Sources = {"repo", "a.gguf"}
  Refs = {"a.gguf"}
  PathOf <- MCPathOf
  Scalar <- MCScalar
  No = No
  NoSection = NoSection
  NoProfile = NoProfile
  NoFile = NoFile
  BadFile = BadFile
  MaxEdits = 2
  Faults = {"write", "crash", "bad"}
PROPERTIES EditsAreMerged UntouchedStays
SYMMETRY Symm
CHECK_DEADLOCK FALSE
