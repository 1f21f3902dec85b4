------------------------------ MODULE Scanner ------------------------------
(***************************************************************************)
(* A scan as a whole: the pool of workers (ScanPool) and the test database *)
(* (TestDB), joined by sendPayload and updateDB.  One sendPayload of the   *)
(* pool is here the requests it really sends: one for a gRPC, GraphQL or   *)
(* plain HTTP test; with an OpenAPI document, one per request template     *)
(* that has the test's placeholder and then the plain one.                 *)
(*                                                                         *)
(* A request and the update of the database after it are one step: the     *)
(* update is one critical section and what precedes it is private to the   *)
(* worker.  The server answers anything.                                   *)
(***************************************************************************)
EXTENDS Integers, Sequences, FiniteSets

CONSTANTS
  Workers, NumTests, RandomDelay,     \* as in ScanPool
  Cases, FalseCases, Paths,           \* as in TestDB
  CaseOf,             \* the test case of each test
  GRPCTests,          \* tests whose placeholder is gRPC
  GraphQLTests,       \* tests whose placeholder is GraphQL
  Templates           \* per test, the paths of the templates for its placeholder

VARIABLES
  next, payloadChan, chanClosed, pc, item, requestsCounter, canceled, runPc,
  result, handled,
  ignoreUnresolved, nonBlockedAsPassed, counters, passedTests, blockedTests,
  naTests, failedTests, scannedPaths,
  cfg,                \* fixed: openAPI, requestTemplates # nil, blockConnReset, and
                      \* chrome, --httpClient=chrome
  available,          \* fixed: the clients whose IsAvailable holds after the pre-checks
  sent,               \* templates a worker has sent of its current test
  sub,                \* where a worker is in the loop over the templates
  ts,                 \* verdicts the loop's testStatus already holds
  requested,          \* history: the paths whose template was given to the client
  panicked,           \* a worker has dereferenced a nil response
  entries             \* history: how often each test was recorded, per verdict

Pool == INSTANCE ScanPool
DB == INSTANCE TestDB WITH MaxRecorded <- 0

poolVars == <<next, payloadChan, chanClosed, pc, item, requestsCounter, canceled,
              runPc, result, handled>>
dbVars == <<ignoreUnresolved, nonBlockedAsPassed, counters, passedTests,
            blockedTests, naTests, failedTests, scannedPaths>>
settings == <<cfg, available>>
loopVars == <<sent, sub, ts, requested>>
vars == <<poolVars, dbVars, loopVars, settings, panicked, entries>>

Tests == 1 .. NumTests
HTTPTests == Tests \ (GRPCTests \cup GraphQLTests)

ASSUME PoolAssumption ==
  IsFiniteSet(Workers) /\ Workers # {} /\ NumTests \in Nat /\ RandomDelay \in Int
ASSUME CaseOfAssumption == CaseOf \in [Tests -> Cases]
ASSUME KindsAssumption ==
  GRPCTests \subseteq Tests /\ GraphQLTests \subseteq Tests \ GRPCTests
ASSUME TemplatesAssumption == Templates \in [Tests -> Seq(Paths)]

\* The categories of updateDB, by the name of the list that takes them.
Verdicts == {"passed", "blocked", "unresolved", "failed"}

-----------------------------------------------------------------------------
(* What a request can end with, and the verdict of updateDB.               *)

\* An error that is io.EOF or ECONNRESET, another error, or an answer: what
\* the WAF detector, the block and pass rules, and the response schema of the
\* OpenAPI document find in it, and whether the request's route is found.
Errors == [err : {"reset", "other"}]
Answers == [err : {"none"}, detected : BOOLEAN, blockMatch : BOOLEAN,
            passMatch : BOOLEAN, described : BOOLEAN]
Outcomes == Errors \cup Answers

\* Of a plain HTTP request: in the browser fetch throws for a lost connection,
\* which the script answers with the status code 0.
HTTPOutcomes == IF cfg.chrome THEN {o \in Outcomes : o.err # "reset"} ELSE Outcomes

\* checkBlockedOrPassed: the detector's word is final, else both kinds of rules
\* are tried on the headers, the body and the status code.
Blocked(o) == o.detected \/ o.blockMatch
Passed(o) == ~o.detected /\ o.passMatch

\* Verdicts that need no look at the answer.
ErrorVerdict(o) == IF o.err = "other" THEN "failed" ELSE "unresolved"

NeedsAnswer(o) == o.err = "none" \/ (o.err = "reset" /\ cfg.blockConnReset)

\* Without an OpenAPI document, and for gRPC.
RuleVerdict(o) ==
  IF o.err = "reset" THEN "blocked"
  ELSE IF Blocked(o) = Passed(o) THEN "unresolved"
  ELSE IF Blocked(o) THEN "blocked" ELSE "passed"

PlainVerdict(o) == IF NeedsAnswer(o) THEN RuleVerdict(o) ELSE ErrorVerdict(o)

\* Against the response the document describes; the pass rules do not count.
SchemaVerdict(o) == IF o.described /\ ~Blocked(o) THEN "passed" ELSE "blocked"

\* UpdateNaTests and the others, for the case of test t.
UpdateDB(t, verdict) ==
  /\ \/ verdict = "passed" /\ DB!UpdatePassedTests(CaseOf[t])
     \/ verdict = "blocked" /\ DB!UpdateBlockedTests(CaseOf[t])
     \/ verdict = "unresolved" /\ DB!UpdateNaTests(CaseOf[t])
     \/ verdict = "failed" /\ DB!UpdateFailedTests(CaseOf[t])
  /\ entries' = [entries EXCEPT ![t][verdict] = @ + 1]

NoUpdate == UNCHANGED <<dbVars, entries>>

-----------------------------------------------------------------------------

Init ==
  /\ Pool!Init
  /\ DB!Init
  /\ cfg \in [openAPI : BOOLEAN, blockConnReset : BOOLEAN, chrome : BOOLEAN]
  /\ cfg.openAPI => ~cfg.chrome      \* parseFlags forces the net/http client
  /\ available \in SUBSET {"grpc", "graphql"}
  /\ sent = [w \in Workers |-> 0]
  /\ sub = [w \in Workers |-> "request"]
  /\ ts = [w \in Workers |-> {}]
  /\ requested = {}
  /\ panicked = FALSE
  /\ entries = [t \in Tests |-> [v \in Verdicts |-> 0]]

LeaveLoop(w) ==
  /\ sent' = [sent EXCEPT ![w] = 0]
  /\ sub' = [sub EXCEPT ![w] = "request"]
  /\ ts' = [ts EXCEPT ![w] = {}]
  /\ UNCHANGED requested

\* Mutant of EndPayload: an error makes the worker skip the counter.
EndPayload_SkipsCount(w) ==
  /\ pc[w] = "send"
  /\ \/ pc' = [pc EXCEPT ![w] = "count"] /\ UNCHANGED item
     \/ pc' = [pc EXCEPT ![w] = "select"] /\ item' = [item EXCEPT ![w] = Pool!NoTest]
  /\ handled' = handled \cup {item[w]}
  /\ UNCHANGED <<next, chanClosed, payloadChan, requestsCounter, canceled, runPc, result>>
  /\ LeaveLoop(w)

\* sendPayload returns: the worker goes on to count the test.
EndPayload(w) == Pool!SendPayload(w) /\ LeaveLoop(w)

Sending(w) == pc[w] = "send" /\ sub[w] = "request"

\* sendGrpcRequest.  A lost connection is an answer with a status code here.
SendGrpcRequest(w) ==
  /\ Sending(w) /\ item[w] \in GRPCTests
  /\ IF "grpc" \in available
     THEN \E o \in {e \in Outcomes : e.err # "reset"} :
            UpdateDB(item[w], PlainVerdict(o))
     ELSE NoUpdate
  /\ EndPayload(w)
  /\ UNCHANGED <<settings, panicked>>

\* updateDB for a GraphQL or plain request.  With an OpenAPI document it wants
\* the request that was sent, is given nil, and returns an error instead.
UpdateWithoutRequest(t, o) ==
  IF cfg.openAPI /\ NeedsAnswer(o) THEN NoUpdate ELSE UpdateDB(t, PlainVerdict(o))

\* Mutant of SendGraphQLRequest: updateDB only when there was no error.
SendGraphQLRequest_DropsErrors(w) ==
  /\ Sending(w) /\ item[w] \in GraphQLTests
  /\ IF "graphql" \in available
     THEN \E o \in Outcomes :
            IF o.err = "none" THEN UpdateWithoutRequest(item[w], o) ELSE NoUpdate
     ELSE NoUpdate
  /\ EndPayload(w)
  /\ UNCHANGED <<settings, panicked>>

\* sendGraphQLRequest
SendGraphQLRequest(w) ==
  /\ Sending(w) /\ item[w] \in GraphQLTests
  /\ IF "graphql" \in available
     THEN \E o \in Outcomes : UpdateWithoutRequest(item[w], o)
     ELSE NoUpdate
  /\ EndPayload(w)
  /\ UNCHANGED <<settings, panicked>>

TemplatesOf(t) == IF cfg.openAPI THEN Templates[t] ELSE <<>>

\* sendRequest, after the templates if there are any.
SendRequest(w) ==
  /\ Sending(w) /\ item[w] \in HTTPTests
  /\ sent[w] = Len(TemplatesOf(item[w]))
  /\ \E o \in HTTPOutcomes : UpdateWithoutRequest(item[w], o)
  /\ EndPayload(w)
  /\ UNCHANGED <<settings, panicked>>

\* sendOpenAPIRequests returns early: the payload cannot be encoded, or no
\* request can be made from the template.  The plain request is not sent.
OpenAPIRequestFails(w) ==
  /\ Sending(w) /\ item[w] \in HTTPTests
  /\ cfg.openAPI
  /\ sent[w] = 0 \/ sent[w] < Len(TemplatesOf(item[w]))
  /\ NoUpdate
  /\ EndPayload(w)
  /\ UNCHANGED <<settings, panicked>>

\* Mutant of RecordOnce: each template starts from an empty testStatus.
RecordOnce_FreshStatus(w, verdict) ==
  /\ ts' = [ts EXCEPT ![w] = {verdict}]
  /\ UpdateDB(item[w], verdict)

\* The templates of one test share a testStatus: the second verdict of a kind
\* only adds to the AdditionalInfo of the first.
RecordOnce(w, verdict) ==
  /\ ts' = [ts EXCEPT ![w] = @ \cup {verdict}]
  /\ IF verdict \in ts[w] THEN NoUpdate ELSE UpdateDB(item[w], verdict)

\* One turn of the loop, up to the end of updateDB: an error is recorded and
\* the loop goes on; an answer is recorded if the router finds the request,
\* and ends the loop if not.
SendTemplate(w, o, routed) ==
  /\ Sending(w) /\ item[w] \in HTTPTests
  /\ sent[w] < Len(TemplatesOf(item[w]))
  /\ \/ /\ ~NeedsAnswer(o)
        /\ RecordOnce(w, ErrorVerdict(o))
        /\ sub' = [sub EXCEPT ![w] = "path"]
        /\ UNCHANGED panicked
     \/ /\ NeedsAnswer(o) /\ ~routed
        /\ sub' = [sub EXCEPT ![w] = "pathThenStop"]
        /\ NoUpdate /\ UNCHANGED <<ts, panicked>>
     \/ /\ o.err = "none" /\ routed
        /\ RecordOnce(w, SchemaVerdict(o))
        /\ sub' = [sub EXCEPT ![w] = "path"]
        /\ UNCHANGED panicked
     \/ /\ NeedsAnswer(o) /\ o.err = "reset" /\ routed
        /\ panicked' = TRUE           \* resp.GetStatusCode() of a nil resp
        /\ NoUpdate /\ UNCHANGED <<sub, ts>>
  /\ requested' = requested \cup {TemplatesOf(item[w])[sent[w] + 1]}
  /\ UNCHANGED <<poolVars, sent, settings>>

\* Mutant of AddPath: an error of updateDB is returned before the path is added.
AddPath_AfterError(w) ==
  /\ sub[w] \in {"path", "pathThenStop"}
  /\ \/ /\ sub[w] = "path"
        /\ DB!AddToScannedPaths(TemplatesOf(item[w])[sent[w] + 1])
        /\ sent' = [sent EXCEPT ![w] = @ + 1]
        /\ sub' = [sub EXCEPT ![w] = "request"]
        /\ UNCHANGED <<poolVars, ts, requested>>
     \/ /\ sub[w] = "pathThenStop"
        /\ EndPayload(w)
        /\ UNCHANGED dbVars
  /\ UNCHANGED <<settings, panicked, entries>>

\* AddToScannedPaths, a critical section of its own, before err is looked at.
AddPath(w) ==
  /\ sub[w] \in {"path", "pathThenStop"}
  /\ DB!AddToScannedPaths(TemplatesOf(item[w])[sent[w] + 1])
  /\ \/ /\ sub[w] = "path"
        /\ sent' = [sent EXCEPT ![w] = @ + 1]
        /\ sub' = [sub EXCEPT ![w] = "request"]
        /\ UNCHANGED <<poolVars, ts, requested>>
     \/ /\ sub[w] = "pathThenStop"
        /\ EndPayload(w)
  /\ UNCHANGED <<settings, panicked, entries>>

SendStep(w) ==
  \/ SendGrpcRequest(w)
  \/ SendGraphQLRequest(w)
  \/ SendRequest(w)
  \/ OpenAPIRequestFails(w)
  \/ \E o \in Outcomes, routed \in BOOLEAN : SendTemplate(w, o, routed)
  \/ AddPath(w)

\* The steps of the pool that are not sendPayload.
PoolStep ==
  /\ \/ Pool!Produce
     \/ Pool!ProducerReturn
     \/ \E w \in Workers : \/ Pool!Receive(w)
                           \/ Pool!WorkerReturn(w)
                           \/ Pool!Delay(w)
                           \/ Pool!Count(w)
     \/ Pool!WgWait
     \/ Pool!Return
     \/ Pool!Cancel
  /\ UNCHANGED <<dbVars, loopVars, settings, panicked, entries>>

\* The goroutines of the scan have returned, or a panic has ended the process.
Terminated ==
  /\ Pool!Terminated \/ panicked
  /\ UNCHANGED vars

Next ==
  \/ /\ Pool!NoPanic /\ ~panicked
     /\ PoolStep \/ \E w \in Workers : SendStep(w)
  \/ Terminated

Spec == Init /\ [][Next]_vars

-----------------------------------------------------------------------------
(* Properties.                                                             *)

\* The composed state keeps its types; sub says which of the two critical
\* sections of a template is next.
TypeOK ==
  /\ Pool!TypeOK
  /\ DB!TypeOK
  /\ cfg \in [openAPI : BOOLEAN, blockConnReset : BOOLEAN, chrome : BOOLEAN]
  /\ available \subseteq {"grpc", "graphql"}
  /\ sent \in [Workers -> Nat]
  /\ \A w \in Workers : pc[w] = "send" => sent[w] <= Len(TemplatesOf(item[w]))
  /\ sub \in [Workers -> {"request", "path", "pathThenStop"}]
  /\ ts \in [Workers -> SUBSET Verdicts]
  /\ requested \subseteq Paths
  /\ panicked \in BOOLEAN
  /\ entries \in [Tests -> [Verdicts -> Nat]]

\* The tests some client can send at all.
Reachable(t) ==
  /\ t \in GRPCTests => "grpc" \in available
  /\ t \in GraphQLTests => "graphql" \in available

EntriesOf(c) == passedTests[c] + blockedTests[c] + naTests[c] + failedTests[c]

\* Without an OpenAPI document the lists of a test case always hold one entry
\* for each of its tests that was handled, whatever workers handled them in
\* whatever order, errors and cancellation included: what the report counts as
\* sent is what was sent.
ReportAccountsForEveryTest ==
  ~cfg.openAPI =>
    \A c \in Cases :
      EntriesOf(c) = Cardinality({t \in handled : CaseOf[t] = c /\ Reachable(t)})

\* With one, a test is passed or blocked at most once over all its templates;
\* the plain request that follows may add a second failure or unresolved entry.
OneEntryPerVerdict ==
  \A t \in Tests :
    /\ entries[t]["passed"] <= 1
    /\ entries[t]["blocked"] <= 1
    /\ entries[t]["unresolved"] + entries[t]["failed"] <= 3
    /\ entries[t]["unresolved"] <= 2 /\ entries[t]["failed"] <= 2

\* The report's scanned paths are those a request was made for, one way out of
\* the loop over the templates as well as the other: an unanswered request, one
\* the router does not find, or a cancellation never loses a path, and only a
\* worker still in the turn of a template has yet to add one.
SentPathsAreScanned ==
  LET inTurn == {w \in Workers : sub[w] \in {"path", "pathThenStop"}}
  IN ~panicked =>
       requested = scannedPaths
                     \cup {TemplatesOf(item[w])[sent[w] + 1] : w \in inTurn}

\* From the end of wg.Wait on nothing writes to the test database: GetStatistics
\* reads entries whose AdditionalInfo the workers change without its lock.
DBQuietAfterWait == [][runPc # "wait" => UNCHANGED dbVars]_vars

\* Seen from the pool, all of this is its SendPayload.
ImplementsScanPool == Pool!Spec

-----------------------------------------------------------------------------
(* What the documentation says and the code does not do.                   *)

\* README.md:371, on --blockConnReset: "connection resets will be considered as
\* block".  With an OpenAPI document they are a nil response that is read.
NilResponseNotRead == ~panicked

\* scanner.go:655: "updateDB updates the success of a query in the database".
\* With an OpenAPI document it does not for an answered GraphQL test.
GraphQLTestsRecorded ==
  \A t \in handled \cap GraphQLTests :
    "graphql" \in available => \E v \in Verdicts : entries[t][v] > 0
=============================================================================
