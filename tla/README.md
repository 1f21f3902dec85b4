# Verification of GoTestWAF

TLA+ specifications of [GoTestWAF](https://github.com/wallarm/gotestwaf), a tool
that sends attack and benign requests through a web application firewall and
reports which were blocked. The specifications are translated from the Go source
in `src/`; TLC checks them on small instances and TLAPS proves the most
important theorems for every value of the constants.

## 1. The system

`cmd/gotestwaf/main.go` reads the configuration, loads the test cases, makes the
clients and then does one thing after another: pre-checks of the target, the
scan, the report. Only the scan is concurrent.

| Component | Source | State | Operations | What is hard |
|---|---|---|---|---|
| Scan pool | `internal/scanner/scanner.go` 290-365, 456-505 | channel of tests, workers, request counter, context | `Run`, `produceTests` | selects with several ready cases, cancellation at any moment, who closes what, what `nil` means |
| Sending a test | `scanner.go` 507-900 | the worker's loop over templates and its `testStatus` | `sendPayload`, `send*Request(s)`, `updateDB`, `checkBlockedOrPassed` | four kinds of request with different ends; errors that are answers; entries shared after they are stored |
| Test database | `internal/db/database.go` | counters and four lists under one lock, scanned paths | `Update*Tests`, `AddToScannedPaths` | each request is counted twice |
| Statistics | `internal/db/statistics.go` | none; reads the database | `GetStatistics`, scores | counters and lists have to be reconciled under two flags; parts that do not exist |
| gRPC client | `internal/scanner/clients/grpc/client.go` | availability, shared connection | `CheckAvailability`, `SendPayload`, `Close` | an unlocked check-then-dial shared by all the workers |
| GraphQL client | `internal/scanner/clients/graphql/client.go` | availability, URL | `CheckAvailability`, `SendPayload` | a list of paths, left at the first error |
| Pre-checks | `scanner.go` 95-290 | flags in the database | `CheckIfJavaScriptRequired`, `WAFBlockCheck`, `Check{GRPC,GraphQL}Availability` | order; errors that mean "blocked" |
| Status handler | `scanner_signal_handler_unix.go` | a channel of one signal | listener goroutine, closer | a signal around `close` |
| DNS cache | `pkg/dnscache/dnscache.go` | map under a lock, ticker, refresher goroutine | `Fetch`, `LookupIP`, `Refresh`, `Stop` | no lock is held over a lookup |
| main | `cmd/gotestwaf/main.go` | context | the stages; one signal goroutine | an interrupt between or in any of the stages |
| DNS dialer | `pkg/dnscache/net.go` | none | `DialFunc` | dials what it looked up, whatever the cache holds by then |
| net/http client | `internal/scanner/clients/gohttp` | cookie jar | `SendPayload`, `SendRequest` | session renewal with three attempts; a jar all workers write, twice per answer |
| Chrome client | `internal/scanner/clients/chrome` | per payload: a goroutine, an error channel, the response | `SendPayload` | the response is written by the goroutine of the browser, errors come through a channel it closes |
| OpenAPI templates | `internal/openapi` | the templates; of the operation being parsed, its parameters and bodies | `NewTemplates` with `parseParameters` and `schemaToMap`, `CreateRequest` | strings at any depth of combined and recursive schemas; limits no value keeps; a payload that fits nowhere; what an operation has in common with others of its path |
| Report | `internal/report` | files | `ExportFullReport`, e-mail; grades, summaries of test sets, charts | one of several exports failing; everything is computed once more from the statistics, with parts that do not exist |
| WAF identification | `internal/scanner/waf_detector` | none | `DetectWAF`, `CheckBlockFunc` | identified by two answers, used on one; an error ends the program |
| Test cases, payloads, flags | `internal/db/load.go`, `internal/payload`, `cmd/gotestwaf/flags.go` | none | loading, encoding, parsing | I/O and text |

How they interact:

- `main` calls the pre-checks, then `Scanner.Run`, then `db.GetStatistics` and
  the report. The pre-checks write the availability fields that `sendPayload`
  and the report read later.
- `Run` starts one producer, `cfg.Workers` workers and the status handler. The
  producer and the workers share a buffered channel and the context. The workers
  share the database (locked), the gRPC client's connection (not locked), the
  HTTP client, and through it the DNS cache.
- With `--openapiFile`, `main` makes the templates before the scan; each test of a
  placeholder is sent once per template that has a string in that place.
- The WAF that `DetectWAF` finds gives the scan its check for blocked answers, and
  the net/http client its session flags.
- A signal cancels the context; every `select`, every request and the end of
  `Run` look at it, each in its own time.

What makes them correct, in one line each: no test is lost, sent twice or left
out of a complete scan; the report counts each handled test exactly once, in
tables and in lists alike; after the wait nobody touches what is reported; calls
use connections that are open; a scan only starts from pre-checks that allow it
and only a complete scan is reported; the strings of each operation of an OpenAPI document
are attacked, with requests that carry the payload; each session and each response belongs to
the request it is used for; the report's numbers, grades and charts agree; an
interrupt always ends the program.

## 2. Modules

| Module | Models | Composition |
|---|---|---|
| `ScanRun` | what `Run` promises, abstractly | |
| `ScanPool` | producer, channel, workers, counter, wait, cancellation | implements `ScanRun` |
| `ScanPoolProofs` | proofs about `ScanPool` | |
| `TestDB` | the database | |
| `Statistics` | `GetStatistics` and the scores | extends `TestDB` |
| `StatisticsProofs` | proofs about both and about `HtmlReport`, with the theory of sums they need | |
| `Scanner` | `sendPayload` and all it calls | composes `ScanPool` and `TestDB`; implements `ScanPool` |
| `MCScanner` | `Scanner`'s function-valued constants | |
| `ScannerProofs` | proofs about `Scanner` | uses `ScanPoolProofs` |
| `GrpcClient`, `GrpcClientProofs` | the shared connection and proofs | |
| `DnsCache`, `DnsCacheProofs` | cache, refresher, dialers and proofs | |
| `HttpClient` | the sessions of the net/http client | |
| `ChromeClient` | a payload in the browser | |
| `Clients`, `MCClients` | the one HTTP client of a scan | composes `HttpClient` and `ChromeClient` |
| `ClientsProofs` | proofs about all three | |
| `OpenApiSchema` | `schemaToMap` | |
| `OpenApi`, `MCOpenApi` | `NewTemplates` and `CreateRequest` | extends `OpenApiSchema` |
| `OpenApiProofs` | proofs about `OpenApi`, with what `schemaToMap` does on any graph of schemas | |
| `HtmlReport`, `MCHtmlReport` | grades, summaries of test sets, charts | extends `Statistics` |
| `WafDetector` | the nine detectors | |
| `Prechecks`, `MCPrechecks` | the checks before the scan | extends `WafDetector` |
| `StatusHandler` | the SIGUSR1 listener | |
| `Report` | `main.run` after the scan: exports, prompts, e-mail | |
| `Program`, `MCProgram` | `main.run` from the pre-checks to the exit code | composes `Prechecks`, `StatusHandler` and `Report` |
| `ProgramProofs` | proofs about `Program` | |

### ScanRun, ScanPool

Tests are numbered in the order in which the nested loops of `produceTests` yield
them; `next` is the loops' position. `payloadChan` is the channel's buffer, with
as many slots as workers. A worker's `pc` follows its loop: `select`, `delay`
(the sleep), `send` (`sendPayload`), `count` (the atomic add), `returned`. A
`select` with several ready cases is a choice between actions (`Produce` and
`ProducerReturn`, `Receive` and `WorkerReturn`). `WgWait` and `Return` are the
end of `Run`: the context is read once, after the wait. `Cancel` is the goroutine
of `main` that waits for one signal. `handled` is a history variable.
`ScanRun` hides the goroutines: a test is pending, in flight or finished.

Left out: the progress bar and the debug header, which no decision depends on.

### Scanner

One test is sent by `SendGrpcRequest`, `SendGraphQLRequest`, or, for the other
placeholders, by a loop over OpenAPI templates followed by `SendRequest`.
`SendTemplate` is a turn of that loop up to the end of `updateDB`, `AddPath` the
critical section that follows it (`sub` tells the two apart, since other workers
run in between), and `OpenAPIRequestFails` the early returns. The data of an
answer is reduced to what `updateDB` tells apart (`Answers`): the WAF detector's
word, whether the block and the pass rules match, whether the OpenAPI document
describes the response; whether the router finds the request is a parameter of
`SendTemplate`. An error is `reset` (`io.EOF`, `ECONNRESET`) or `other`.
`ts` is the loop's `testStatus`; `cfg` the OpenAPI document's presence,
`--blockConnReset` and `--httpClient=chrome`; `available` what the pre-checks found.
The script of the Chrome client turns a lost connection into an answer with status
0, so that a reset is no outcome of its requests (`HTTPOutcomes`). `requested`,
`entries` are history variables. A nil pointer dereference sets `panicked`,
after which nothing runs.

### TestDB, Statistics

A list is the number of its entries per test case, since the statistics only
count; a counters row is the record of the code. The two flags are chosen in
`Init` and never change. `UnresolvedCountsAs` is the database's idea of what an
unresolved request is, `ListedAs` that of `GetStatistics`. Percentages are
integers in hundredths; the code rounds floats to the same precision, and the
last digit of a tie is left open, so that no property depends on it.

### GrpcClient

`Check`, `DialSucceeds`/`DialFails`, `MakeStub` and `CallReturns` are the accesses
of `SendPayload` to the unlocked field, one step each; the dial assigns its
results even if it failed. Accesses are sequentially consistent: a Go data race
promises less, so that what fails here fails in the program, and what holds is
said of builds whose word-sized accesses are atomic. `Close` is deferred by `Run`
and comes after the wait, which `QuietAfterWait` of `ScanPool` justifies.

### DnsCache

An answer of a lookup is the version of the host's records at the time it was
given; it is stored in a later step, when the records and the cache may have
moved on. The refresher takes the cached hosts at the beginning of a refresh.

A dialer tries the addresses it got, from the cache or from the servers, in one
step: which of them connects changes nothing here.

### HttpClient

A worker's request is a sequence of exchanges: those of `getCookies`, each attempt
with its redirects, then those of the payload. `Exchange` sends the request and
lets the host handle it, `Redirected`, `GotCookies` and `GotResponse` are the answer
reaching the client, `ReadBody` the end of `SendPayload` (or `SendRequest`), which
stores cookies a second time, and `Fail` any error on the way. The session client's
jar and the cookies it returns are `renewed`. Headers, and connections kept alive,
are left out.

### ChromeClient, Clients

A payload has a browser, a goroutine (`Navigate`, `RunTasks`, `CloseChan`) and a
worker that collects errors until the channel is closed (`Collect`) and then waits
for the goroutine (`Return`). A run of the browser fails at any of its tasks, always
if the context is done; the script's own `catch` makes an answer of a failed fetch.
`Clients` is `scanner.New`'s choice: either client, shared by the workers; its
properties are those of the client there is.

### OpenApiSchema, OpenApi

Schemas are the nodes of a graph, as the OpenAPI library resolves references.
`SchemaToMap` is the visit: it returns which keys of the body hold which strings,
their limits, and the ways it may end without a result (`fails`: an error or a
panic). It is a recursive function of the visit (`Visits`: the nodes on the way, the
name the value goes under, and whether the body is XML), so that a schema that
meets itself is a panic, as the stack overflow is. Random values are abstract; what
is kept of them are the bounds that leave no value. `ReachableFrom`, `Leaves`, `Keys`
and `Unfillable` say of the graph what the visit should find: the properties are
stated with them, never with the visit.

`NewTemplates` is one action per step of its loops (`NextPath`, `ParseParameters`,
`ParseBody`, `AddTemplate`, `PathDone`, `SortTemplates`) and one per way to die
(`NilOperation`, `NilSchema`, and the failing halves of the parsing steps).
`methods` is the set of methods still to come; `NextMethod` takes the first of them
in the order of `pathTemplates`.
`CreateRequest` puts a payload of some length into a template for a placeholder: in
the fields where it fits, a value of their own in the others, and the path
parameters in any case.

An operation has parameters of its own and those its path declares for all of its
methods (`common`). Both have their names in braces in the path (`NamesInPath`), which
`LoadOpenAPISpec` makes sure of, but `ParseParameters` is handed the operation's own
only, as the code is: the other names are still there in a request's URL (`Replaced`),
and the strings of those parameters are not attacked.

`FittingPayloadIsCarried` excepts bodies in which two values are written to one key
(`Overwrites`), since one of them is lost with its strings. The members of an `allOf`
are compared through the combinations inside them, and in XML the properties of an
object by the names their schemas give them.

### HtmlReport

The score grades, the summary row of each test set and the two radar charts, as
operators over the statistics. A grade's mark is its rank. The two protocol flags
are one: both pre-checks are over when the report is made, and the second writes its
answer to both. Payload tables and layout are left out.

### WafDetector

An answer is the set of patterns it matches. A detector is a disjunction of
conjunctions of checks, each of one pattern on the plain answer or on the answer to
the attack. `DetectWAF` has both, `CheckBlockFunc`, which the scan calls, only the
second.

### Prechecks, StatusHandler, Report, Program

`Prechecks` has one action per request of the checks, in main's order, with any
outcome; the first two requests are those of the identification, an error in which
ends the program. `StatusHandler` models the buffered signal channel: the runtime drops a
signal when the slot is taken and would panic if the channel were closed.
`Report` has one action per call `main` makes after the scan, each with its ways to
fail: a file is absent, partial or full afterwards. `ExportToTemp` is the common
half of HTML and PDF; it looks at the errors the code looks at, and the error of the
write is not one of them (`fellShort` remembers it). `FileMove` has the three
outcomes of the helper. The browser and the e-mail fail if the context is
cancelled; the other calls do not look at it. A `Close` that fails after a
successful write is not modelled.

`Program` puts them in sequence and adds the interrupt: a request made with a
cancelled context is an error (`RequestFails`), except that gRPC's health check takes
the status of its cancelled call for an answer, and `main` goes on to the report
only if `Run` returned nil. The scan is reduced to its counter there. The
Windows build of the status handler is empty and is not modelled, nor is a
SIGUSR1 outside the scan, which has its default effect.

## 3. Runs

Passing runs:

| Run | Bounds | What it shows |
|---|---|---|
| `scan_pool` | 3 workers, 5 tests, cancellation at any moment | no test lost or duplicated; `nil` means all handled and counted; the counter is behind by the workers about to count; a cancelled run ends even if no server answers, any run ends if requests do; the pool implements `ScanRun` |
| `html_report` | five cases (three attack, two benign, over both sectors; one set has two cases), up to 3 entries, all flags; and scans that start with 100 requests of one attack case | rows agree with the lists; console, JSON and CSV account for the same requests; the score is a percentage, is missing exactly if nothing was resolved, is full for a faultless WAF, and moves the way verdicts say; of two scores the higher has the better grade; sets share out the totals; a chart agrees with its score |
| `scanner` | 2 workers, 3 tests (one plain with 2 templates, one gRPC, one GraphQL), with and without document | each handled test is reported once; one entry per verdict; every requested path is scanned; the database is quiet after the wait; the whole implements `ScanPool` |
| `grpc_client` | 3 workers, 4 dials | until a dial fails at most one connection per worker; calls use open connections |
| `dns_cache` | 2 dialers, 2 hosts, each changing once | entries stay; the cache and what is dialed settle on the records; `Stop` ends the goroutine |
| `clients` | either client, 2 workers, 3 payloads, 1 redirect, all flags (`MCInit`) | the shared jar opens a session per worker at most, with the exceptions counted; a renewed session is the payload's own; a response of the browser is complete and no longer written to; a cancelled request ends |
| `openapi` | 129 documents, most with one feature of the format or two, over 33 schemas; payloads of length 0 to 5 | a template is offered exactly where its operation has strings, however deep; a payload that fits is in the request; the names its operation declares, and no others, are replaced in its path; the parser dies of named faults of the document only |
| `program` | 6 kinds of WAF answer, 4 GraphQL paths, 2 tests, all flags of the pre-checks, of the identification or of the report (`MCInit`) | a scan starts only if a check allows it; the page a WAF was identified by is blocked in the scan; the report says of GraphQL what the scan did; no signal on a closed channel; only a complete scan is reported; exit code 0 means reports on disk and sent; only what is on disk is mailed; the listener ends; an interrupt ends the program |

Why the bounds are enough. `scan_pool`: with five tests and three slots the
channel fills, drains and refills, and the producer both blocks on a full channel
and outlives the workers. `html_report`: a verdict depends on the side (attack or
benign), the sector and the list, and an average joins at most two parts of at
most two counts; the attacks of the API sector are two cases of one set with
different types, so that a set and a chart have a case, or an item, with requests
and one without. Three entries never make a score near 1% or near a threshold,
which is what the scans of 100 requests are for (`LongScan`: a score of each whole
percentage, in their initial states).
`scanner`: workers are interchangeable (symmetry; only safety properties are
checked there), two suffice for any pair of interleaved critical sections, and
two templates for the second use of a `testStatus`; `MCInit` sets both flags for
unresolved requests or none, since `updateDB` only asks for either, and
`html_report` has all four; with Chrome, `--blockConnReset` is left out, since only
GraphQL requests have resets there. `grpc_client`: one worker may be past its check, one
dialing and one calling; the fourth dial is one more than the workers. `MaxDials`
stops dials, never a call. `dns_cache`: an old answer can be overtaken once per
change; more changes repeat it.
`clients`: three payloads let a worker send a second one, after its own answer and
the other's; one allowed redirect makes both a followed and a refused one. `MCInit`
sets `--renewSession` only where it is read, and allows redirects only if there are
sessions; renewing along redirects there is one payload less.
`openapi`: a property, an item or a member of a combination is one level, and every
pair of levels the code treats differently occurs, XML included; `StringSize` is 2
in place of 16, so that lengths around it, around a limit and beyond are among 0 to
5. The `Whole` document has several paths, methods and content types; `hidden` and
`twins` write a key twice below the level of the combination or property.
`program`: `MCInit` takes all flags of the pre-checks with no identification and no
report, the identification with one path of GraphQL and no report, and all flags of
the report with the shortest pre-checks. No step reads flags of two of these groups,
and they only meet in `canceled`, `mainPc` and the WAF that was found. The answers
have evidence of a WAF in any answer, in the plain one only, in the attack's only,
of two WAFs, and of none. Three formats in any order are all there are.

Runs that TLC refutes, each for a disagreement between the code and its own words
(see `findings` in `PROJECT.json`):

| Run | Property | What happens |
|---|---|---|
| `scanner_reset` | `NilResponseNotRead` | with an OpenAPI document and `--blockConnReset`, a reset makes `updateDB` read a nil response (`scanner.go:739`) |
| `scanner_graphql` | `GraphQLTestsRecorded` | with an OpenAPI document, an answered GraphQL test is recorded nowhere (`scanner.go:710`); the plain request after the templates shares the path |
| `grpc_nil` | `ConnectionIsSetUp` | a failed dial stores nil over the connection another worker has just made (`grpc/client.go:203`) |
| `prechecks_grpc` | `GrpcAsReported` | the GraphQL check writes the gRPC flag of the report (`scanner.go:214`) |

The passing properties say what holds all the same: `ReportAccountsForEveryTest`
is about scans without a document, `DialsAreBounded` about dials until one fails,
`SentPathsAreScanned` about scans that have not panicked, `SuccessMeansExported`
about reports in full unless a write fell short, `OfferedWhereStringsAre` about each
operation but a HEAD's and its own parameters, `FittingPayloadIsCarried` about payloads
that fit, `PathIsFilled` about the names an operation declares itself.

Other properties also except a case of a hazard, and no run is about that case: a score
of at most 1% or none (`GradesFollowScores`), a chart of an unavailable protocol with
requests recorded (`ChartAgreesWithScore`), evidence of a WAF in the plain answer
(`IdentifiedPageIsBlocked`), a prompt (`InterruptEndsProgram`). That a reset ends the
program in the identification is in `Prechecks`, and no property is about it.

Other disagreements, seen while translating, that no run is spent on:

- `--randomDelay=0` makes the first worker panic in `rand.Intn` (`scanner.go:337`),
  though the validator of the report's arguments accepts the value. `ScanPool` has
  the panic (`Delay`); no other value reaches it.
- An OpenAPI answer that matches both the document and the block rules is blocked
  (`scanner.go:747`), where the repository's README says unresolved (line 426).
- The text of `--nonBlockedAsPassed` (README line 389) speaks of the pass rules;
  the flag only decides what unresolved requests are.
- `--addDebugHeader` is for "each request" (`flags.go:117`), but the requests of
  the templates do not get it (`scanner.go:638`).
- Two workers that dial at once leak one gRPC connection (`grpc/client.go:196`):
  `Close` knows only the last.
- A benign request let through may lower the overall score: a sector in which
  benign requests were resolved and no attack was blocked has the average 0, and
  that sector now counts. `statistics_test.go` expects the 0, which is why
  `ScoreFollowsVerdicts` says nothing of such a request.
- With `--ignoreUnresolved` an unresolved benign request is listed as blocked
  (`database.go:75`), where the repository's README line 382 says bypassed.
- The JSON report writes the encoder as the placeholder of each payload
  (`json.go` 187-283), and leaves out a score of 0 (`omitempty`).
- With no score the overall grade is "F" with -100% (`html.go:209`), where the
  console says "n/a" and the validator wants 0 to 100 (`pkg/report/html.go:107`).
  `getGrade` takes a value of at most 1 for a fraction, so that a score of 1% is an
  "A+" (`html.go:76`). `GradesFollowScores` names both exceptions.
- A chart shows an unavailable protocol as 0% even if requests were recorded for it
  (`chart.go:134`), which the second pre-check's writing of both flags makes possible.
- The net/http client stores the cookies of the last answer for the target's URL
  even if a redirect led to another host (`gohttp/client.go:171`).
- The error of the CSV export is wrapped and dropped (`main.go:249`), and the PDF's
  temporary file is never removed.
- The signal goroutine reads one signal (`main.go:38`): at a prompt an interrupt, and
  any further one, does nothing until the prompt is answered.
- The error of the write to the temporary file of HTML and PDF is dropped
  (`html.go:463`): a truncated report is moved or rendered, and the program exits with
  code 0, where `report.go:57` says "saves full report on disk".
- Parameters that an OpenAPI document declares for all methods of a path are not parsed
  (`template.go:139`): their names stay in braces in the URL of each request, and their
  strings are not attacked, where the repository's README says that GoTestWAF "creates
  valid requests based on the application's API description" (line 418).
- "operationTemplates parses every operation in paths" (`template.go:131`), but for HEAD
  it is given the operation of GET (`template.go:85`), and without one the program
  panics.
- "Next, the vector is substituted into template" (README line 424): a template whose
  strings are all too short or too long for the payload is sent without it, and its
  answer counts as a verdict on the payload (`template.go:243`).
- Schemas of an OpenAPI document that end the program with a panic: a `maxLength`
  below 16 in a body, bounds of a number that leave no value (a `minimum` above the
  default maximum among them), a schema that contains itself, a media type without a
  schema, a path parameter with `content`, an array parameter with untyped items.
  A cookie parameter or a body without a type is an error. `CrashOnlyOnFaults` says
  there is nothing else.
- Schemas read otherwise than the repository's README says (440-442): arrays are
  repeated `minLength` times, not `minItems` (`schema.go:156`); `anyOf` is `allOf`.
  Members of a combination that write to one key lose all but the last, in XML below
  another schema every time. The strings of objects in a query or header are never
  attacked.
- With Chrome a failed fetch is an answer with status 0, and nothing looks at its
  error (`js_action.go:39`), so that `--blockConnReset` (README line 371) has no
  effect on HTTP requests. The script's `StatusText` is read as `StatusReason`
  (`js_action.go` 50 and 75), and the lower-case names of its headers are never found
  by `CheckHeader`. When the home page fails the payload is sent all the same, and
  the test counts as failed.
- A WAF that resets the connections of attacks ends the program in its identification
  (`detector.go:189`, `main.go:124`), before `--blockConnReset` is looked at. Once a
  WAF is identified, evidence that was in the plain answer does not count in the scan
  (`scanner.go:386`), and Kona's detector takes any answer with `Server: AkamaiGHost`,
  a passed one too, for a block.
- The gRPC health check takes an OK answer for "not available", and the GraphQL
  check does not try the remaining paths after an error.

## 4. Fairness

- The Go scheduler runs every goroutine that can run: weak fairness on the
  producer, on each worker, on `Run`, on the listener and on the refresher.
- A request ends when it is answered or when the context is done. The HTTP
  clients set no timeout of their own, so no answer is promised:
  `ScanPool` has weak fairness for `canceled /\ SendPayload(w)` only, and
  `AnsweredRunReturns` states the assumption that requests end in its own
  formula. `Program` is the same: `canceled /\ PreCheck`, and
  `canceled /\ Reporting` for the browser and the e-mail; nobody has to answer a
  prompt (`~AtPrompt`).
- In `Clients` a step of the net/http client is only due once the context is
  cancelled (`canceled /\ ClientStep(w)`), and so are the browser's runs
  (`BrowserStep`), each of which takes the context; the worker that collects the
  browser's errors is a goroutine that can run (`WorkerStep`).
- Nobody has to interrupt, signal or stop: `Cancel`, `Signal`, `Interrupt`,
  `Stop` and `RecordsChange` have no fairness.
- In `Program`, that a cancelled scan lets `Run` return is the property
  `CancelStopsRun` of `ScanPool`; here it is weak fairness of `RunReturns`.
- In `DnsCache` each lookup and dial ends (they have timeouts), and a host that is looked up
  infinitely often is answered infinitely often (strong fairness). Without it a
  host that never resolves again would keep its old entry, which is what
  `LookupIP` is meant to do. `SettlesOnRecords` needs it, the others do not.

Deadlock is checked, except where the system may stop: `html_report`,
`grpc_client` and `grpc_nil` end at their bounds, `clients` after its payloads,
`dns_cache` after `Stop`. `ScanPool`, `Scanner`, `OpenApi`, `Prechecks` and `Program`
have an explicit `Terminated` (`Done`) step, so that any other stop is an error.

## 5. Proofs

All theorems hold for every value of the constants that satisfies the named
assumptions: `Workers` finite and, for the pool, not empty (with `--workers=0` `Run`
returns nil at once and sends nothing), `NumTests`, `MaxDials` and the like natural
numbers, `RandomDelay` any integer, `Cases` finite, `CaseOf` and `Templates`
functions over the tests, `Endpoints` a sequence of strings that is not empty,
`Answers` any set. `SchemaAssumption` wants finitely many schemas, with a schema that
another refers to twice as two nodes, and `DocumentsAssumption` says what a document
is once the library has validated it (`openapi/loader.go:22`): two parameters of an
operation in the same place have different names, and so have two of a path, whose
methods have the latter in common. Schemas and
documents are otherwise any, recursive ones included. The bounds (`MaxRecorded`,
`LongScan`, `MaxDials`, `MaxRequests`, `MaxRedirects`, `MaxVersion`, `Lengths`) are
constants too: what is proved is proved for each of them.

**ScanPool.** `NoTestLostOrDuplicated` is not inductive: it says nothing of the
order in the channel, so that a received test might be in it a second time. The
inductive invariant `IInv` adds that the channel is the window of tests just below
`next` (`ChanIsWindow`), that each test below the window is held by a worker or
handled and each worker's item is in its place (`ReceivedIsHeldOrHandled`), that
the counter is behind by the workers about to count (`CounterTracksHandled`),
that a producer or worker has left for a reason (`StopsAreJustified`), and what
the end of `Run` knows (`QuietAfterWait`, `ResultIsLast`, `NilMeansComplete`).
`InductiveInvariant` is proved one action at a time; `Delivery`, `Counting`,
`Completeness`, `Quiescence` and `TypeCorrect` follow. `Completeness` rests on the
window: if the context was not cancelled, workers leave only when the channel is
closed and empty, which with no cancellation means that `next` is past the last
test, so that all tests are below the window, and with no worker left to hold one
they are handled. `Refinement` shows each step of the pool to be a step of
`ScanRun` or a stutter under the mapping of `Abstract`.

**Statistics, HtmlReport.** `Bookkeeping` and `HtmlBookkeeping`: `TypeOK /\
CountersMatchLists` is inductive, from an empty database and from that of a long
scan. All else follows from it, state by state, except `ScoreFollows`, which
compares two states. The figures are sums over finite sets, and `SumOver` is a
recursive function: that there is one, and its equation, is proved by induction on
the subsets of a finite set, ordered by inclusion (`SmallestSubset`, `SumsExist`,
`SumEquation`). Then come the laws of sums (`SumSplit`, `SumMonotone`, `SumUnion`,
`SumChange`, `SumGroups`) and of percentages and averages (`PercentageMonotone`,
`MeanBetween`, `Mediant`).

- `TablesAgree`, `OutputsAccount`: under the invariant the subtraction in the summary
  table gives the number the lists give, with either flag (`RowsFromBookkeeping`), and
  the columns of the tables add up to the requests sent.
- `ScoreRange`: the score comes from the lists and its absence is decided by the
  counters, which agree (`ScoreExtremesFromLists`).
- `ScoreFollows`: one more request changes one summand of one sector (`UpdateSums`,
  `SectorFollows`), the percentage of a sector moves with it, and the average with
  that, where the sector had a score before (`AverageFollows`).
- `GradesFollow`: the mark is monotone in the score where `getGrade` reads it as what
  it is (`MarkMonotone`).
- `SetsShareOut`: the cases of a set are on one side, so the totals are the sums by
  sets (`SumGroups`).
- `ChartAgrees`: the score of a sector is the mediant of its chart's items, and so
  between the least and the greatest of them.

**Scanner.** `PoolRefinement`: every step of the composition is a step of the pool
or leaves its variables alone. The pool's invariant then holds here
(`PoolInvariant`), and the other proofs build on it.

- `DBQuiet`: a worker in `AddPath` is still in `sendPayload` (`PathInSend`), so a
  worker that updates the database has not returned.
- `PathsAreScanned`: a path that was requested and is not yet recorded is that of
  a worker whose next step records it (`PathInv`).
- `OneEntry`: a test that is neither handled nor in hand has no entries
  (`FreshTests`), and one in hand has those its `testStatus` remembers
  (`StatusIsEntries`). That no two workers hold one test is the pool's
  `ReceivedIsHeldOrHandled` (`HeldTests`).
- `ReportAccounts`: without a document nobody is in the loop over the templates
  (`NoLoop`), so that the entry of a test is made in the step that handles it, and
  both sides of the equation grow by one.
- `TypeCorrect`: no worker reads past the last template (`LoopInv`), which needs
  that its `sent` is 0 outside `sendPayload`.

**GrpcClient.** `OpenConnections`: no connection is closed before `Close`, and
`Close` finds every worker gone (`OpenUntilClose`). `BoundedDials`: until a dial
fails, the connections opened and the workers dialing are together at most the
workers, since nobody begins to dial once there is a connection (`DialInv`).

**DnsCache.** `CacheKeepsEntries`: whatever is about to be stored is an answer, since
a lookup that failed stores nothing (`StoresAnswers`).

**Clients.** `SettledResponse`: an error that was sent is in the channel or
collected, and a worker past the closed channel has found it empty (`Collected`).
`SharedSessions`: a session opened while the jar has none is that of a worker that
holds its answer (`Holding`), and there are at most as many as workers; cookies of
other hosts and lost answers are the counted exceptions (`SharedInv`).
`RenewedSessions`: the cookies of a `getCookies` under way are fresh and no other
worker's (`Renewal`), and a step of a worker touches its own only (`OwnStep`).

**OpenApi.** `TypeCorrect`: an operation being parsed is there (`OperationThere`), since
HEAD without a GET has died before; the parsed parameters are those of the operation
itself (`ParsedInv`). `FilledPath`: a template has the path parameters its operation
declares, and no others (`TemplatesHaveParameters`), and `CreateRequest` gives each of
them a value in either of the two places that fill the path (`RequestCreated`).

The other three theorems need what `schemaToMap` does on any graph of schemas.
Induction is over visits: each call puts a node on the way, so that fewer nodes are
left that are not on it, until one is there twice and the visit panics
(`FewerLeft`, `VisitInduction`). The same order shows that the recursive function
exists (`MapExists`, `MapEquation`). On the other side, `Reachable` is a finite
iteration, and is proved to be the least set with the start that is closed under
references (`ReachClosed`, `ReachLeast`). Then:

- `FaultsOnly`: whatever panics in a visit is an unfillable schema or one that leads to
  itself, reached from the first node of the visit (`MapPanics`, with `OnTheWay` as the
  invariant of the way); `PanicIsFault` carries this through the steps of the parser.
- `Offered`: a visit that ends with a result has a placeholder exactly when its schema
  leads to a string (`MapFinds`). The invariant `OfferInv` says what is known of the
  contents read so far (`ParsedSoFar`), that each template serves its operation
  (`TemplatesServe`), and that each operation is still to come, at hand, or has its
  template (`AllCovered`).
- `Carried`: the keys of a result are among those `Keys` predicts, and its limits are
  those of strings the schema leads to (`MapAllowed`). Where `Overwrites` finds nothing,
  the results a visit puts together have no common key (`ClearIsApart`), so that no
  string that was found is lost (`MapKeeps`). `CarryInv` says that a template has the
  type and limits of each parameter (`HasParameters`) and, for each body with a string,
  a field with the limits of a string (`HasFields`), even though the loop over the
  content types may replace one plain text by another.

`Overwrites` is the result of this proof: an earlier form compared only the properties
of the members of a combination, and the induction failed where a member is a
combination itself, and where two properties have one name in XML. TLC then found both
in small documents, which are part of `MCOpenApi` now.

**Program.** The theorems are about the program with any answers of the target.
`NoPanicOfHandler`: the closer stops the delivery of signals before it closes the
channel (`CloserInv`). `ReportedScanIsComplete`: an error of nil is that of a run
that has counted everything (`RunInv`). `ScannedTargetBlocks`: each later pre-check is
reached from a target seen to block (`BlockInv`). `GraphQLIsReported`: the flag and
the URL are set in the step that ends the check. `IdentifiedPage`: a detector that
is positive without evidence in the plain answer is positive without a plain answer
(`PlainAnswerWithoutMark`). `SuccessIsExported`, `MailedIsExported`: behind
`nextFormat` everything is exported, nothing else is, and a temporary file is there
when it is used (`ExportInv`); `main` gets to the CSV and the e-mail only after the
loop (`MailInv`).

Only model-checked: the liveness properties (fairness and ENABLED are out of the
prover's reach). Every safety invariant and action property of a passing run is stated
by a theorem.

## 6. Not modelled

- Flag parsing, test case loading, encoders, placeholders, HTML layout and the PDF's
  rendering: text and pure I/O. The scanner sees a failing encoder, which is modelled
  there.
- The contents of requests and answers and the rules' regular expressions: an answer
  is what they find in it.
- The validator of a mailed report: regular expressions on single fields.
- The values a template's strings and numbers are filled with, and the text of its
  body; the OpenAPI library's loader and router.
- The Chrome client's `SendRequest`, whose event listener shares the latest response
  with the caller: the program does not call it. Only templates use `SendRequest`,
  and with an OpenAPI file `parseFlags` forces the net/http client.
- Generated gRPC code, and the integration tests.

## 7. Plan

Done, in this order: `ScanRun` and `ScanPool`, the database and the statistics,
`Scanner`, the gRPC client, the DNS cache, the pre-checks, the status handler,
`Report`, `Program` and `HttpClient`; then the grades, summaries and charts, the
OpenAPI templates, the WAF identification in `Prechecks` and in the scan, the Chrome
client and `Clients`; then the proofs of `Scanner`, `Program`, `Clients`, `DnsCache`,
`GrpcClient` and `OpenApi`; then the proofs about sums, scores, grades and charts, and
about `schemaToMap` on any graph of schemas.

Last came the parameters of a path item in `OpenApi`, and `FilledPath` over them.

Left, most important first:

1. Type correctness of `HttpClient`'s, `DnsCache`'s and `Prechecks`' variables as
   theorems of their own; the proofs have the parts they need.
2. The grouping of payloads for display in the HTML report.

## 8. Running it

In this directory: `tlc -workers 2 -config ScanPool.cfg ScanPool` (module and
configuration of each run are in `PROJECT.json`; the longest takes about a minute
and a half), `tlapm ScanPoolProofs.tla` and the same for the other `*Proofs`
modules. `PROJECT.json` also maps every definition to the lines it translates, and
names for each property a mutated definition that breaks it.
