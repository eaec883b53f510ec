SPECIFICATION FairSpec
CONSTANTS
  KeyTimeout = 1
  EscapeTimeout = 1
  DropLimit = 1
  ByteCapacity = 12
  SequenceLimit = 12
  Applications <- MCApplications
CONSTRAINT InTime
INVARIANTS
  ReadsMayBeCut
  ParserNeverStalls
PROPERTIES
  KeysAreHonest
  WaitsEnd
