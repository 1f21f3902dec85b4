CONSTANTS
  Dialers = {"d1", "d2"}
  Hosts = {"waf", "proxy"}
  MaxVersion = 2
SPECIFICATION FairSpec
PROPERTIES
  EntriesStay
  SettlesOnRecords
  StopEndsRefresher
CHECK_DEADLOCK FALSE
