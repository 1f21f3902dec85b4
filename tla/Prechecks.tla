----------------------------- MODULE Prechecks -----------------------------
(***************************************************************************)
(* What main does with the target before the scan, in this order: which    *)
(* WAF is it (WafDetector), is JavaScript needed, does the WAF block the   *)
(* pre-check vector, does the host speak gRPC, which path speaks GraphQL.  *)
(* The first three can end the program; the others decide which tests the  *)
(* scan can send and what the report says is available.  Each request is a *)
(* step; the server answers anything.                                      *)
(***************************************************************************)
EXTENDS WafDetector

CONSTANTS
  Endpoints,      \* the paths GraphQL is tried at, in order
  Answers         \* the HTTP answers of the target, as in WafDetector

VARIABLES
  cfg,                 \* the flags, fixed
  stage,               \* the request main waits for, "run" or "exit"
  plainAnswer,         \* of DetectWAF: the answers to its two requests, kept as
  attackAnswer,        \* history after it has returned
  waf,                 \* the detector it found: cfg.CheckBlockFunc, WAFName, and
                       \* FollowCookies and RenewSession unless it is Unknown
  attack, benign,      \* history: outcomes of the two WAF pre-check requests
  isAvailable,         \* of the gRPC client
  isGraphQLAvailable,  \* of the GraphQL client
  graphqlUrl,          \* its URL: the given one or one of Endpoints
  tried,               \* endpoints tried
  IsGrpcAvailable, IsGraphQLAvailable     \* of the test database

identifyVars == <<plainAnswer, attackAnswer, waf>>
blockVars == <<attack, benign>>
wafVars == <<identifyVars, blockVars>>
graphqlVars == <<isGraphQLAvailable, graphqlUrl, tried>>
dbFlags == <<IsGrpcAvailable, IsGraphQLAvailable>>
vars == <<cfg, stage, wafVars, isAvailable, graphqlVars, dbFlags>>

\* checkBlockedOrPassed: the detector's word, or that of the block rules.
Blocked(answer, blockMatch) == CheckBlockFunc(waf, answer) \/ blockMatch

\* preCheck's answer, or its error: EOF and ECONNRESET are told from others.  The
\* script of the Chrome client answers a lost connection with status code 0.
PreCheckOutcomes ==
  {IF Blocked(answer, blockMatch) THEN "blocked" ELSE "notBlocked" :
     answer \in Answers, blockMatch \in BOOLEAN}
    \cup (IF cfg.chrome THEN {"error"} ELSE {"reset", "error"})

Given == "given"

\* checkAvailabilityEndpoints, or the single path of --graphqlURL.
endpointsToCheck == IF cfg.graphqlURL THEN <<Given>> ELSE Endpoints

Init ==
  /\ cfg \in [skipWAFIdentification : BOOLEAN, chrome : BOOLEAN,
              skipWAFBlockCheck : BOOLEAN, blockConnReset : BOOLEAN,
              grpcPort : BOOLEAN, graphqlURL : BOOLEAN]
  /\ stage = IF cfg.skipWAFIdentification THEN "javascript" ELSE "identify"
  /\ plainAnswer = {} /\ attackAnswer = {}
  /\ waf = Unknown
  /\ attack = "none" /\ benign = "none"
  /\ isAvailable = cfg.grpcPort
  /\ isGraphQLAvailable = TRUE
  /\ graphqlUrl = Given
  /\ tried = 0
  /\ IsGrpcAvailable = FALSE /\ IsGraphQLAvailable = FALSE

\* doRequest.  An error, a lost connection among them, is the end.
DoRequest ==
  /\ stage = "identify"
  /\ \/ plainAnswer' \in Answers /\ stage' = "identifyAttack"
     \/ UNCHANGED plainAnswer /\ stage' = "exit"
  /\ UNCHANGED <<cfg, attackAnswer, waf, blockVars, isAvailable, graphqlVars, dbFlags>>

\* doMaliciousRequest, likewise, and what main does with the WAF that is found.
DoMaliciousRequest ==
  /\ stage = "identifyAttack"
  /\ \/ /\ attackAnswer' \in Answers
        /\ waf' = DetectWAF(plainAnswer, attackAnswer')
        /\ stage' = "javascript"
     \/ UNCHANGED <<attackAnswer, waf>> /\ stage' = "exit"
  /\ UNCHANGED <<cfg, plainAnswer, blockVars, isAvailable, graphqlVars, dbFlags>>

AfterJavaScript == IF cfg.skipWAFBlockCheck THEN "grpc" ELSE "wafBlock"

\* CheckIfJavaScriptRequired: not for chrome.  An error or a JavaScript
\* challenge is the end.
CheckIfJavaScriptRequired ==
  /\ stage = "javascript"
  /\ \/ stage' = AfterJavaScript
     \/ ~cfg.chrome /\ stage' = "exit"
  /\ UNCHANGED <<cfg, wafVars, isAvailable, graphqlVars, dbFlags>>

\* WAFBlockCheck up to the end of the first preCheck.
WAFBlockCheck ==
  /\ stage = "wafBlock"
  /\ \E outcome \in PreCheckOutcomes :
       /\ attack' = outcome
       /\ stage' = CASE outcome = "blocked" -> "grpc"
                     [] outcome = "reset" /\ cfg.blockConnReset -> "benign"
                     [] OTHER -> "exit"
  /\ UNCHANGED <<cfg, identifyVars, benign, isAvailable, graphqlVars, dbFlags>>

\* Mutant of BenignPreCheck: the error of the benign request is not returned.
BenignPreCheck_IgnoresError ==
  /\ stage = "benign"
  /\ \E outcome \in PreCheckOutcomes :
       /\ benign' = outcome
       /\ stage' = IF outcome # "blocked" THEN "grpc" ELSE "exit"
  /\ UNCHANGED <<cfg, identifyVars, attack, isAvailable, graphqlVars, dbFlags>>

\* The attack was reset: ok only if a benign request is answered and not blocked.
BenignPreCheck ==
  /\ stage = "benign"
  /\ \E outcome \in PreCheckOutcomes :
       /\ benign' = outcome
       /\ stage' = IF outcome = "notBlocked" THEN "grpc" ELSE "exit"
  /\ UNCHANGED <<cfg, identifyVars, attack, isAvailable, graphqlVars, dbFlags>>

-----------------------------------------------------------------------------
(* CheckGRPCAvailability.                                                  *)

\* The answer of the client's CheckAvailability goes to the database.
GrpcChecked(ok) ==
  /\ isAvailable' = ok
  /\ IsGrpcAvailable' = ok
  /\ stage' = "graphql"
  /\ UNCHANGED <<cfg, wafVars, graphqlVars, IsGraphQLAvailable>>

\* Without a port there is nothing to test.
GrpcNotConfigured ==
  /\ stage = "grpc"
  /\ ~isAvailable
  /\ GrpcChecked(FALSE)

\* httpTest: the answer has a gRPC content type, or not, or there is none.
GrpcHTTPTest ==
  /\ stage = "grpc"
  /\ isAvailable
  /\ \/ /\ stage' = "grpcHealth"
        /\ UNCHANGED <<cfg, wafVars, isAvailable, graphqlVars, dbFlags>>
     \/ GrpcChecked(FALSE)

\* healthCheckTest: true when the health service answers with an error status.
GrpcHealthCheckTest ==
  /\ stage = "grpcHealth"
  /\ \E ok \in BOOLEAN : GrpcChecked(ok)

-----------------------------------------------------------------------------
(* CheckGraphQLAvailability.                                               *)

\* The answer of the client's CheckAvailability goes to the database: line 214
\* writes the gRPC flag, line 225 the GraphQL one.
GraphQLChecked(ok) ==
  /\ IsGrpcAvailable' = ok
  /\ IsGraphQLAvailable' = ok
  /\ stage' = "run"
  /\ UNCHANGED <<cfg, wafVars, isAvailable>>

\* The loop goes on with the next path.
TriesNext ==
  /\ tried + 1 < Len(endpointsToCheck)
  /\ UNCHANGED <<cfg, stage, wafVars, isAvailable, dbFlags>>

\* Mutant of TryEndpoint: an error leaves the client available.
TryEndpoint_NoReset ==
  /\ stage = "graphql"
  /\ tried' = tried + 1
  /\ \/ /\ isGraphQLAvailable' = TRUE
        /\ graphqlUrl' = endpointsToCheck[tried + 1]
        /\ GraphQLChecked(TRUE)
     \/ UNCHANGED <<isGraphQLAvailable, graphqlUrl>> /\ GraphQLChecked(FALSE)
     \/ isGraphQLAvailable' = FALSE /\ UNCHANGED graphqlUrl /\ TriesNext

\* One turn of the loop: the path answers with a __typename; with an error or a
\* 200 that is not JSON, which ends the check without looking at the paths that
\* are left, as something else from the last path does; or with something else.
TryEndpoint ==
  /\ stage = "graphql"
  /\ tried' = tried + 1
  /\ \/ /\ isGraphQLAvailable' = TRUE
        /\ graphqlUrl' = endpointsToCheck[tried + 1]
        /\ GraphQLChecked(TRUE)
     \/ /\ isGraphQLAvailable' = FALSE
        /\ UNCHANGED graphqlUrl
        /\ GraphQLChecked(FALSE) \/ TriesNext

\* The scan begins, or the program has ended.
Done == stage \in {"run", "exit"} /\ UNCHANGED vars

Next ==
  \/ DoRequest
  \/ DoMaliciousRequest
  \/ CheckIfJavaScriptRequired
  \/ WAFBlockCheck
  \/ BenignPreCheck
  \/ GrpcNotConfigured
  \/ GrpcHTTPTest
  \/ GrpcHealthCheckTest
  \/ TryEndpoint
  \/ Done

Spec == Init /\ [][Next]_vars

-----------------------------------------------------------------------------

\* The page a WAF was identified by is blocked when the scan meets it again, though
\* DetectWAF looks at two answers and the scan at one: unless the plain answer was
\* part of the evidence, which no answer of the scan can be.
IdentifiedPageIsBlocked ==
  waf # Unknown /\ DetectWAF({}, attackAnswer) = waf => Blocked(attackAnswer, FALSE)

\* A scan only starts against a target that was seen to block: the vector was
\* blocked, or it was reset, resets count as blocks and the service is there.
ScanOnlyIfBlocked ==
  stage = "run" =>
    \/ cfg.skipWAFBlockCheck
    \/ attack = "blocked"
    \/ attack = "reset" /\ cfg.blockConnReset /\ benign = "notBlocked"

\* The report says GraphQL was available exactly when the scan sent its tests,
\* whichever path ended the check; they go to the path that answered last.
GraphQLAsReported ==
  stage = "run" =>
    /\ IsGraphQLAvailable = isGraphQLAvailable
    /\ isGraphQLAvailable => graphqlUrl = endpointsToCheck[tried]

\* scanner.go:177: "CheckGRPCAvailability checks if the gRPC server is
\* available", and the report shows the flag it sets.  The GraphQL check sets
\* it again.
GrpcAsReported == stage = "run" => IsGrpcAvailable = isAvailable
=============================================================================
