SPECIFICATION Spec
CONSTANTS
  KeyTimeout = 2
  EscapeTimeout = 1
  DropLimit = 1
  ByteCapacity = 12
  SequenceLimit = 12
  Applications <- OnePaste
INVARIANTS
  TerminatorNeverLeaks
