SPECIFICATION Spec
CONSTANTS
  Names <- MCNames
  Root = "/"
  Parent <- MCParent
  Types <- MCTypes
  NameType <- MCNameType
  Extension <- MCExtension
  Refused <- MCRefused
  MetaPath <- MCMetaPath
  Calls <- MCCalls
  Kind <- MCKind
  Target <- MCTarget
  Type <- MCType
  HasMetadata <- MCHasMetadata
  Lock <- MCLock
  Initial <- MCInitial
  MaxCalls = 3
  MaxCrashes = 1
INVARIANTS
  TypeOK
  AcknowledgedIsKept
  OnlyWritesLeaveOrphans
PROPERTIES
  ReadsAreOfOneWrite
  ListingsAreTrue
CHECK_DEADLOCK FALSE
