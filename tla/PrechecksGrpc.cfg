CONSTANTS
  Endpoints <- MCEndpoints
  Answers <- MCAnswers
SPECIFICATION Spec
INVARIANT GrpcAsReported
