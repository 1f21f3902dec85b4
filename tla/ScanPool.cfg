CONSTANTS
  Workers = {w1, w2, w3}
  NumTests = 5
  RandomDelay = 1
SPECIFICATION FairSpec
INVARIANTS
  NoTestLostOrDuplicated
  NilMeansComplete
  CounterTracksHandled
PROPERTIES
  CancelStopsRun
  AnsweredRunReturns
  ImplementsScanRun
