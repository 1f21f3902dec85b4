CONSTANTS
  None = None
  StringSize = 2
  Schema <- MCSchema
  Documents <- MCDocuments
  Lengths <- MCLengths
SPECIFICATION Spec
INVARIANTS
  OfferedWhereStringsAre
  FittingPayloadIsCarried
  PathIsFilled
  CrashOnlyOnFaults
