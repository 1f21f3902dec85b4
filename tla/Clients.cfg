CONSTANTS
  Workers = {"w1", "w2"}
  MaxRequests = 3
  MaxRedirects = 1
SPECIFICATION MCFairSpec
INVARIANTS
  SessionsAreShared
  ResponseIsSettled
PROPERTIES
  EachPayloadHasItsSession
  CancelEndsRequest
CHECK_DEADLOCK FALSE
