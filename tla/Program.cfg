CONSTANTS
  Endpoints <- MCEndpoints
  Answers <- MCAnswers
  NumTests = 2
SPECIFICATION MCFairSpec
INVARIANTS
  ScanOnlyIfBlocked
  IdentifiedPageIsBlocked
  GraphQLAsReported
  NoSendOnClosed
  ReportOfCompleteScan
  SuccessMeansExported
  EmailOfExportedReport
PROPERTIES
  ListenerEnds
  InterruptEndsProgram
