CONSTANTS
  attackApp = attackApp
  attackApi = attackApi
  attackGrpc = attackGrpc
  benignApp = benignApp
  benignApi = benignApi
  Cases = {attackApp, attackApi, attackGrpc, benignApp, benignApi}
  FalseCases = {benignApp, benignApi}
  ApiCases = {attackApi, attackGrpc, benignApi}
  Paths = {}
  MaxRecorded = 3
  TestSet <- MCTestSet
  Type <- MCType
  LongScan = 100
  LongScanCases = {attackApp}
SPECIFICATION HtmlSpec
INVARIANTS
  RowsAgreeWithLists
  OutputsAccountForSent
  ScoreExtremes
  GradesFollowScores
  SetsShareOutTotals
  ChartAgreesWithScore
PROPERTY ScoreFollowsVerdicts
CHECK_DEADLOCK FALSE
