CONSTANTS
  Workers = {w1, w2}
  NumTests = 3
  RandomDelay = 1
  Cases = {"attack", "benign"}
  FalseCases = {"benign"}
  Paths = {"p1", "p2"}
  CaseOf <- MCCaseOf
  GRPCTests = {2}
  GraphQLTests = {3}
  Templates <- MCTemplates
SYMMETRY MCSymmetry
SPECIFICATION MCSpec
INVARIANT GraphQLTestsRecorded
