--------------------------- MODULE ScannerProofs ---------------------------
(***************************************************************************)
(* The scan implements the pool of workers, and so everything proved of    *)
(* the pool holds of it; after wg.Wait nothing writes to the database; the *)
(* database holds what the scan did, for any number of workers, tests and  *)
(* templates.                                                              *)
(***************************************************************************)
EXTENDS Scanner, FiniteSetTheorems, TLAPS

PoolThm == INSTANCE ScanPoolProofs

\* Every request of a test but the last one is invisible to the pool, and the
\* last one is its SendPayload.
LEMMA SendStepRefines ==
  ASSUME NEW w \in Workers, SendStep(w)
  PROVE  Pool!SendPayload(w) \/ UNCHANGED poolVars
BY DEF SendStep, SendGrpcRequest, SendGraphQLRequest, SendRequest,
       OpenAPIRequestFails, SendTemplate, AddPath, EndPayload, LeaveLoop

\* The scan's steps are steps of the pool.
LEMMA NextRefines ==
  ASSUME [Next]_vars
  PROVE  [Pool!Next]_poolVars
<1>1. CASE UNCHANGED vars
  BY <1>1 DEF vars, poolVars
<1>2. CASE Pool!NoPanic /\ PoolStep
  BY <1>2 DEF PoolStep, Pool!Next, Pool!WorkerStep
<1>3. ASSUME Pool!NoPanic, NEW w \in Workers, SendStep(w)
      PROVE  [Pool!Next]_poolVars
  BY <1>3, SendStepRefines DEF Pool!Next, Pool!WorkerStep
<1>4. CASE Terminated
  BY <1>4 DEF Terminated, vars, poolVars
<1> QED BY <1>1, <1>2, <1>3, <1>4 DEF Next

\* A scan with all its requests, verdicts and database updates behaves, seen
\* from the pool, like the pool of goroutines.
THEOREM PoolRefinement == Spec => ImplementsScanPool
<1>1. Init => Pool!Init
  BY DEF Init
<1>2. [Next]_vars => [Pool!Next]_(Pool!vars)
  BY NextRefines DEF poolVars, Pool!vars
<1> QED BY <1>1, <1>2, PTL DEF Spec, ImplementsScanPool, Pool!Spec

-----------------------------------------------------------------------------
(* PoolThm is the same pool with its theorems.                             *)

LEMMA SamePool ==
  /\ Pool!Init <=> PoolThm!Init
  /\ Pool!vars = PoolThm!vars
  /\ Pool!QuietAfterWait <=> PoolThm!QuietAfterWait
BY DEF Pool!Init, PoolThm!Init, Pool!vars, PoolThm!vars, Pool!QuietAfterWait,
       PoolThm!QuietAfterWait, Pool!NoTest, PoolThm!NoTest

LEMMA SameCardinality == Pool!Capacity = PoolThm!Capacity
BY Zenon DEF Pool!Capacity, PoolThm!Capacity, Pool!Cardinality, PoolThm!Cardinality

LEMMA SameNext == Pool!Next <=> PoolThm!Next
<1> USE DEF Pool!prodVars, PoolThm!prodVars, Pool!runVars, PoolThm!runVars,
            Pool!Tests, PoolThm!Tests, Pool!NoTest, PoolThm!NoTest,
            Pool!vars, PoolThm!vars
<1>1. (Pool!Produce <=> PoolThm!Produce) /\ (Pool!ProducerReturn <=> PoolThm!ProducerReturn)
  BY SameCardinality
     DEF Pool!Produce, PoolThm!Produce, Pool!ProducerReturn, PoolThm!ProducerReturn
<1>2. \A w \in Workers : Pool!WorkerStep(w) <=> PoolThm!WorkerStep(w)
  BY DEF Pool!WorkerStep, PoolThm!WorkerStep, Pool!Receive, PoolThm!Receive,
         Pool!WorkerReturn, PoolThm!WorkerReturn, Pool!Delay, PoolThm!Delay,
         Pool!SendPayload, PoolThm!SendPayload, Pool!Count, PoolThm!Count
<1>3. /\ Pool!WgWait <=> PoolThm!WgWait
      /\ Pool!Return <=> PoolThm!Return
      /\ Pool!Cancel <=> PoolThm!Cancel
      /\ Pool!Terminated <=> PoolThm!Terminated
      /\ Pool!NoPanic <=> PoolThm!NoPanic
  BY DEF Pool!WgWait, PoolThm!WgWait, Pool!Return, PoolThm!Return, Pool!Cancel,
         PoolThm!Cancel, Pool!Terminated, PoolThm!Terminated, Pool!NoPanic,
         PoolThm!NoPanic
<1> QED BY <1>1, <1>2, <1>3 DEF Pool!Next, PoolThm!Next

LEMMA PoolAssumptions ==
  /\ PoolThm!WorkersAssumption
  /\ PoolThm!NumTestsAssumption
  /\ PoolThm!RandomDelayAssumption
<1>1. IsFiniteSet(Workers) => PoolThm!IsFiniteSet(Workers)
  BY Zenon DEF IsFiniteSet, PoolThm!IsFiniteSet
<1> QED BY <1>1, PoolAssumption DEF PoolThm!WorkersAssumption,
           PoolThm!NumTestsAssumption, PoolThm!RandomDelayAssumption

\* What is proved of the pool's inductive invariant holds of the scan.
LEMMA PoolInvariant == Spec => []PoolThm!IInv
<1>1. Init => PoolThm!Init
  BY SamePool DEF Init
<1>2. [Next]_vars => [PoolThm!Next]_(PoolThm!vars)
  <2>1. [Next]_vars => [Pool!Next]_(Pool!vars)
    BY NextRefines DEF poolVars, Pool!vars
  <2>2. UNCHANGED Pool!vars <=> UNCHANGED PoolThm!vars
    BY DEF Pool!vars, PoolThm!vars
  <2> QED BY <2>1, <2>2, SameNext
<1>3. PoolThm!Spec => []PoolThm!IInv
  BY PoolAssumptions, PoolThm!InductiveInvariant
<1> QED BY <1>1, <1>2, <1>3, PTL DEF Spec, PoolThm!Spec

-----------------------------------------------------------------------------
(* The database after wg.Wait.                                             *)

\* A worker is inside sendPayload between a template and its path.
PathInSend == \A w \in Workers : sub[w] # "request" => pc[w] = "send"

SubOK == sub \in [Workers -> {"request", "path", "pathThenStop"}]

LEMMA PathInSendStep ==
  ASSUME PoolThm!IInv, SubOK, PathInSend, [Next]_vars
  PROVE  SubOK' /\ PathInSend'
<1> USE DEF SubOK, PathInSend
<1>1. pc \in [Workers -> {"select", "delay", "send", "count", "returned", "panicked"}]
  BY DEF PoolThm!IInv, PoolThm!TypeOK
<1>2. CASE UNCHANGED vars
  BY <1>2 DEF vars, poolVars, loopVars
<1>3. CASE PoolStep
  BY <1>1, <1>3 DEF PoolStep, loopVars, Pool!Produce, Pool!ProducerReturn,
     Pool!Receive, Pool!WorkerReturn, Pool!Delay, Pool!Count, Pool!WgWait,
     Pool!Return, Pool!Cancel
<1>4. ASSUME NEW w \in Workers, EndPayload(w)
      PROVE  SubOK' /\ PathInSend'
  BY <1>1, <1>4 DEF EndPayload, LeaveLoop, Pool!SendPayload
<1>5. ASSUME NEW w \in Workers, NEW o \in Outcomes, NEW routed \in BOOLEAN,
             SendTemplate(w, o, routed)
      PROVE  SubOK' /\ PathInSend'
  BY <1>1, <1>5 DEF SendTemplate, Sending, poolVars
<1>6. ASSUME NEW w \in Workers, AddPath(w)
      PROVE  SubOK' /\ PathInSend'
  <2>1. CASE EndPayload(w)
    BY <1>4, <2>1
  <2>2. CASE ~EndPayload(w)
    BY <1>1, <1>6, <2>2 DEF AddPath, poolVars
  <2> QED BY <2>1, <2>2
<1>7. CASE Terminated
  BY <1>7 DEF Terminated, vars, poolVars, loopVars
<1> QED BY <1>2, <1>3, <1>4, <1>5, <1>6, <1>7 DEF Next, SendStep,
        SendGrpcRequest, SendGraphQLRequest, SendRequest, OpenAPIRequestFails

\* No request ends and no path is added once every worker has returned.
LEMMA NoUpdateAfterWait ==
  ASSUME PoolThm!IInv, PathInSend, [Next]_vars, runPc # "wait"
  PROVE  UNCHANGED dbVars
<1>1. \A w \in Workers : pc[w] = "returned"
  BY DEF PoolThm!IInv, PoolThm!QuietAfterWait
<1>2. \A w \in Workers : ~SendStep(w)
  BY <1>1 DEF PathInSend, SendStep, SendGrpcRequest, SendGraphQLRequest,
              SendRequest, OpenAPIRequestFails, SendTemplate, AddPath, Sending
<1> QED BY <1>2 DEF Next, PoolStep, Terminated, vars, dbVars

\* From the end of wg.Wait on the test database never changes.
THEOREM DBQuiet == Spec => DBQuietAfterWait
<1>1. Init => SubOK /\ PathInSend
  BY DEF Init, SubOK, PathInSend
<1>2. PoolThm!IInv /\ SubOK /\ PathInSend /\ [Next]_vars => SubOK' /\ PathInSend'
  BY PathInSendStep
<1>3. PoolThm!IInv /\ PathInSend /\ [Next]_vars => [runPc # "wait" => UNCHANGED dbVars]_vars
  BY NoUpdateAfterWait
<1> QED BY <1>1, <1>2, <1>3, PoolInvariant, PTL DEF Spec, DBQuietAfterWait

-----------------------------------------------------------------------------
(* What the pool's invariant says of a worker inside sendPayload.          *)

InHands(w) == pc[w] \in {"delay", "send"}

\* It has a test of its own that was not handled yet.
LEMMA HeldTests ==
  ASSUME PoolThm!IInv
  PROVE  /\ pc \in [Workers -> {"select", "delay", "send", "count", "returned", "panicked"}]
         /\ item \in [Workers -> Tests \cup {Pool!NoTest}]
         /\ \A w \in Workers : InHands(w) => item[w] \in Tests /\ item[w] \notin handled
         /\ \A v, w \in Workers :
              InHands(v) /\ InHands(w) /\ item[v] = item[w] => v = w
         /\ handled \subseteq Tests
<1>1. PoolThm!TypeOK /\ PoolThm!ReceivedIsHeldOrHandled
  BY DEF PoolThm!IInv
<1>2. item \in [Workers -> Tests \cup {Pool!NoTest}]
  BY <1>1 DEF PoolThm!TypeOK, PoolThm!Tests, Tests, PoolThm!NoTest, Pool!NoTest
<1>3. \A w \in Workers : InHands(w) => PoolThm!HasItem(w) /\ PoolThm!Holds(w)
  BY DEF InHands, PoolThm!HasItem, PoolThm!Holds
<1>4. \A w \in Workers : InHands(w) => item[w] \in Tests /\ item[w] \notin handled
  BY <1>1, <1>2, <1>3 DEF PoolThm!ReceivedIsHeldOrHandled, PoolThm!NoTest, Pool!NoTest
<1>5. \A v, w \in Workers : InHands(v) /\ InHands(w) /\ item[v] = item[w] => v = w
  BY <1>1, <1>3 DEF PoolThm!ReceivedIsHeldOrHandled
<1> QED BY <1>1, <1>2, <1>4, <1>5 DEF PoolThm!TypeOK, PoolThm!Tests, Tests

\* The pool's own steps: a worker that enters sendPayload has held its test
\* since before, and the test of one inside does not change.
LEMMA PoolStepHands ==
  ASSUME PoolThm!IInv, PoolStep
  PROVE  /\ handled' = handled
         /\ \A w \in Workers : pc'[w] = "send" =>
              InHands(w) /\ item'[w] = item[w]
         /\ \A w \in Workers : pc[w] = "send" =>
              pc'[w] = "send" /\ item'[w] = item[w]
<1>1. /\ pc \in [Workers -> {"select", "delay", "send", "count", "returned", "panicked"}]
      /\ item \in [Workers -> Tests \cup {Pool!NoTest}]
  BY HeldTests
<1> QED BY <1>1 DEF PoolStep, InHands, Pool!Produce, Pool!ProducerReturn,
     Pool!Receive, Pool!WorkerReturn, Pool!Delay, Pool!Count, Pool!WgWait,
     Pool!Return, Pool!Cancel, Pool!prodVars, Pool!runVars

\* updateDB always has a verdict of one of the four lists.
LEMMA VerdictsAreVerdicts ==
  ASSUME NEW o \in Outcomes
  PROVE  /\ PlainVerdict(o) \in Verdicts
         /\ SchemaVerdict(o) \in Verdicts
         /\ ErrorVerdict(o) \in Verdicts
BY DEF PlainVerdict, SchemaVerdict, ErrorVerdict, RuleVerdict, Verdicts

\* An update of the database adds no path.
LEMMA UpdateKeepsPaths ==
  ASSUME NEW t, NEW v \in Verdicts, UpdateDB(t, v)
  PROVE  scannedPaths' = scannedPaths
BY DEF UpdateDB, Verdicts, DB!UpdatePassedTests, DB!UpdateBlockedTests,
       DB!UpdateNaTests, DB!UpdateFailedTests

\* A request that is not made of a template: sendPayload ends with it, and at
\* most one verdict on its test was recorded.
LastRequest(w) ==
  /\ pc[w] = "send" /\ sub[w] = "request" /\ EndPayload(w)
  /\ UNCHANGED <<settings, panicked>>
  /\ NoUpdate \/ \E v \in Verdicts : UpdateDB(item[w], v)

LEMMA LastRequests ==
  ASSUME NEW w \in Workers,
         \/ SendGrpcRequest(w) \/ SendGraphQLRequest(w)
         \/ SendRequest(w) \/ OpenAPIRequestFails(w)
  PROVE  LastRequest(w)
<1> USE DEF LastRequest, Sending
<1>1. CASE SendGrpcRequest(w)
  BY <1>1, VerdictsAreVerdicts DEF SendGrpcRequest
<1>2. CASE SendGraphQLRequest(w)
  BY <1>2, VerdictsAreVerdicts DEF SendGraphQLRequest, UpdateWithoutRequest
<1>3. CASE SendRequest(w)
  BY <1>3, VerdictsAreVerdicts DEF SendRequest, UpdateWithoutRequest, HTTPOutcomes
<1>4. CASE OpenAPIRequestFails(w)
  BY <1>4 DEF OpenAPIRequestFails
<1> QED BY <1>1, <1>2, <1>3, <1>4

-----------------------------------------------------------------------------
(* The scanned paths.                                                      *)

InTurn == {w \in Workers : sub[w] \in {"path", "pathThenStop"}}

PathOf(w) == TemplatesOf(item[w])[sent[w] + 1]

SentOK == sent \in [Workers -> Nat]

PathInv == SubOK /\ PathInSend /\ SentOK /\ SentPathsAreScanned

\* A step that gives no path to the client and adds none, and leaves the workers
\* in the turn of a template alone.
LEMMA PathsStay ==
  ASSUME SentPathsAreScanned,
         requested' = requested, scannedPaths' = scannedPaths,
         cfg' = cfg, panicked' = panicked, InTurn' = InTurn,
         \A w \in InTurn : item'[w] = item[w] /\ sent'[w] = sent[w]
  PROVE  SentPathsAreScanned'
<1>1. \A w \in InTurn : PathOf(w)' = PathOf(w)
  BY DEF PathOf, TemplatesOf
<1>2. {PathOf(w)' : w \in InTurn'} = {PathOf(w) : w \in InTurn}
  BY <1>1
<1> QED BY <1>2 DEF SentPathsAreScanned, InTurn, PathOf

LEMMA SentStep ==
  ASSUME SentOK, [Next]_vars PROVE SentOK'
<1> USE DEF SentOK
<1>1. \A w \in Workers : LeaveLoop(w) => SentOK'
  BY DEF LeaveLoop
<1>2. \A w \in Workers : AddPath(w) => SentOK'
  BY <1>1 DEF AddPath, EndPayload
<1>3. \A w \in Workers : SendStep(w) => SentOK'
  BY <1>1, <1>2 DEF SendStep, SendGrpcRequest, SendGraphQLRequest, SendRequest,
     OpenAPIRequestFails, SendTemplate, EndPayload
<1> QED BY <1>3 DEF Next, PoolStep, Terminated, vars, loopVars

LEMMA PathStep ==
  ASSUME PoolThm!IInv, PathInv, [Next]_vars
  PROVE  SentPathsAreScanned'
<1> USE DEF PathInv
<1>1. CASE UNCHANGED vars
  BY <1>1, PathsStay DEF vars, poolVars, dbVars, loopVars, settings, InTurn
<1>2. CASE PoolStep
  <2>1. \A w \in InTurn : item'[w] = item[w]
    BY <1>2, PoolStepHands DEF InTurn, PathInSend
  <2> QED BY <1>2, <2>1, PathsStay DEF PoolStep, dbVars, loopVars, settings, InTurn
<1>3. ASSUME NEW w \in Workers, LastRequest(w)
      PROVE  SentPathsAreScanned'
  <2>1. scannedPaths' = scannedPaths
    BY <1>3, UpdateKeepsPaths DEF LastRequest, NoUpdate, dbVars
  <2>2. w \notin InTurn /\ item' = item /\ requested' = requested
    BY <1>3 DEF LastRequest, EndPayload, LeaveLoop, Pool!SendPayload, InTurn
  <2>3. InTurn' = InTurn
    BY <1>3 DEF LastRequest, EndPayload, LeaveLoop, InTurn, SubOK
  <2>4. \A v \in InTurn : sent'[v] = sent[v]
    BY <1>3, <2>2 DEF LastRequest, EndPayload, LeaveLoop, SentOK, InTurn
  <2> QED BY <1>3, <2>1, <2>2, <2>3, <2>4, PathsStay DEF LastRequest, settings
<1>4. ASSUME NEW w \in Workers, NEW o \in Outcomes, NEW routed \in BOOLEAN,
             SendTemplate(w, o, routed), ~panicked'
      PROVE  SentPathsAreScanned'
  <2>1. scannedPaths' = scannedPaths
    BY <1>4, UpdateKeepsPaths, VerdictsAreVerdicts
       DEF SendTemplate, RecordOnce, NoUpdate, dbVars
  <2>2. InTurn' = InTurn \cup {w}
    BY <1>4 DEF SendTemplate, InTurn, SubOK
  <2>3. item' = item /\ sent' = sent /\ cfg' = cfg
    BY <1>4 DEF SendTemplate, poolVars, settings
  <2>4. \A v \in Workers : PathOf(v)' = PathOf(v)
    BY <2>3 DEF PathOf, TemplatesOf
  <2>5. requested' = requested \cup {PathOf(w)}
    BY <1>4 DEF SendTemplate, PathOf
  <2>6. {PathOf(v)' : v \in InTurn'} = {PathOf(v) : v \in InTurn} \cup {PathOf(w)}
    BY <2>2, <2>4 DEF InTurn
  <2>7. ~panicked
    BY <1>4 DEF SendTemplate
  <2> QED BY <2>1, <2>5, <2>6, <2>7 DEF SentPathsAreScanned, InTurn, PathOf
<1>5. ASSUME NEW w \in Workers, AddPath(w)
      PROVE  SentPathsAreScanned'
  <2>1. w \in InTurn /\ scannedPaths' = scannedPaths \cup {PathOf(w)}
    BY <1>5 DEF AddPath, InTurn, PathOf, DB!AddToScannedPaths
  <2>2. item' = item /\ cfg' = cfg /\ requested' = requested /\ panicked' = panicked
    BY <1>5 DEF AddPath, EndPayload, LeaveLoop, Pool!SendPayload, poolVars, settings
  <2>3. InTurn' = InTurn \ {w}
    BY <1>5 DEF AddPath, EndPayload, LeaveLoop, InTurn, SubOK
  <2>4. \A v \in InTurn \ {w} : sent'[v] = sent[v]
    BY <1>5 DEF AddPath, EndPayload, LeaveLoop, InTurn, SentOK
  <2>5. \A v \in InTurn \ {w} : PathOf(v)' = PathOf(v)
    BY <2>2, <2>4 DEF PathOf, TemplatesOf
  <2>6. {PathOf(v) : v \in InTurn} = {PathOf(v)' : v \in InTurn'} \cup {PathOf(w)}
    BY <2>1, <2>3, <2>5
  <2> QED BY <2>1, <2>2, <2>6 DEF SentPathsAreScanned, InTurn, PathOf
<1>6. ASSUME panicked' PROVE SentPathsAreScanned'
  BY <1>6 DEF SentPathsAreScanned
<1> QED BY <1>1, <1>2, <1>3, <1>4, <1>5, <1>6, LastRequests
        DEF Next, SendStep, Terminated

\* Every path a request was made for is in the report, but for the workers still
\* in the turn of its template.
THEOREM PathsAreScanned == Spec => []SentPathsAreScanned
<1>1. Init => PathInv
  BY DEF Init, PathInv, SubOK, PathInSend, SentOK, SentPathsAreScanned, DB!Init, DB!NewDB
<1>2. PoolThm!IInv /\ PathInv /\ [Next]_vars => PathInv'
  BY PathInSendStep, SentStep, PathStep DEF PathInv
<1>3. PathInv => SentPathsAreScanned
  BY DEF PathInv
<1> QED BY <1>1, <1>2, <1>3, PoolInvariant, PTL DEF Spec

-----------------------------------------------------------------------------
(* The entries of a test.                                                  *)

EntriesOK == entries \in [Tests -> [Verdicts -> Nat]]

TsOK == ts \in [Workers -> SUBSET Verdicts]

\* No list has an entry of a test before sendPayload has it.
FreshTests ==
  \A t \in Tests \ handled :
    (\A w \in Workers : pc[w] = "send" => item[w] # t)
      => \A v \in Verdicts : entries[t][v] = 0

\* Over the templates a test has the entries its testStatus remembers, and only
\* a test with templates has any before its last request.
StatusIsEntries ==
  \A w \in Workers :
    /\ pc[w] = "send" =>
         \A v \in Verdicts : entries[item[w]][v] = IF v \in ts[w] THEN 1 ELSE 0
    /\ ts[w] # {} => pc[w] = "send" /\ cfg.openAPI /\ item[w] \in HTTPTests

EntryInv ==
  /\ EntriesOK /\ TsOK
  /\ FreshTests
  /\ StatusIsEntries
  /\ OneEntryPerVerdict

\* UpdateDB adds one to the entries of its test and verdict.
LEMMA UpdateEntries ==
  ASSUME EntriesOK, NEW t \in Tests, NEW v \in Verdicts, UpdateDB(t, v)
  PROVE  /\ EntriesOK'
         /\ entries'[t][v] = entries[t][v] + 1
         /\ \A x \in Verdicts \ {v} : entries'[t][x] = entries[t][x]
         /\ \A u \in Tests \ {t} : entries'[u] = entries[u]
BY DEF EntriesOK, UpdateDB

\* The last request of a test adds at most one entry, after templates only one of
\* an error.
LEMMA LastEntry ==
  ASSUME NEW w \in Workers, TsOK, EntriesOK, StatusIsEntries, item[w] \in Tests,
         \/ SendGrpcRequest(w) \/ SendGraphQLRequest(w)
         \/ SendRequest(w) \/ OpenAPIRequestFails(w)
  PROVE  \/ entries' = entries
         \/ \E v \in Verdicts :
              /\ UpdateDB(item[w], v)
              /\ ts[w] # {} => v \in {"unresolved", "failed"}
<1>1. CASE SendGrpcRequest(w)
  <2>1. ts[w] = {}
    BY <1>1 DEF SendGrpcRequest, StatusIsEntries, HTTPTests
  <2> QED BY <1>1, <2>1, VerdictsAreVerdicts DEF SendGrpcRequest, NoUpdate
<1>2. CASE SendGraphQLRequest(w)
  <2>1. ts[w] = {}
    BY <1>2 DEF SendGraphQLRequest, StatusIsEntries, HTTPTests
  <2> QED BY <1>2, <2>1, VerdictsAreVerdicts
          DEF SendGraphQLRequest, UpdateWithoutRequest, NoUpdate
<1>3. CASE SendRequest(w)
  <2>1. PICK o \in Outcomes : UpdateWithoutRequest(item[w], o)
    BY <1>3 DEF SendRequest, HTTPOutcomes
  <2>2. CASE cfg.openAPI /\ NeedsAnswer(o)
    BY <2>1, <2>2 DEF UpdateWithoutRequest, NoUpdate
  <2>3. CASE cfg.openAPI /\ ~NeedsAnswer(o)
    <3>1. UpdateDB(item[w], ErrorVerdict(o))
      BY <2>1, <2>3 DEF UpdateWithoutRequest, PlainVerdict
    <3>2. ErrorVerdict(o) \in {"unresolved", "failed"} \cap Verdicts
      BY DEF ErrorVerdict, Verdicts
    <3> QED BY <3>1, <3>2
  <2>4. CASE ~cfg.openAPI
    <3>1. ts[w] = {}
      BY <2>4 DEF StatusIsEntries
    <3> QED BY <2>1, <2>4, <3>1, VerdictsAreVerdicts DEF UpdateWithoutRequest
  <2> QED BY <2>2, <2>3, <2>4
<1>4. CASE OpenAPIRequestFails(w)
  BY <1>4 DEF OpenAPIRequestFails, NoUpdate
<1> QED BY <1>1, <1>2, <1>3, <1>4

\* The steps of the pool: the testStatus of a test that is about to be sent is
\* empty, and so are its entries.
LEMMA EntryPoolStep ==
  ASSUME PoolThm!IInv, EntryInv, PoolStep
  PROVE  EntryInv'
<1> USE DEF EntryInv
<1>1. /\ entries' = entries /\ ts' = ts /\ cfg' = cfg /\ handled' = handled
      /\ EntriesOK' /\ TsOK' /\ OneEntryPerVerdict'
  BY PoolStepHands DEF PoolStep, loopVars, settings, EntriesOK, TsOK, OneEntryPerVerdict
<1>2. ASSUME NEW t \in Tests \ handled,
             \A w \in Workers : pc'[w] = "send" => item'[w] # t
      PROVE  \A v \in Verdicts : entries[t][v] = 0
  <2>1. \A w \in Workers : pc[w] = "send" => item[w] # t
    BY <1>2, PoolStepHands
  <2> QED BY <2>1 DEF FreshTests
<1>3. ASSUME NEW w \in Workers, pc'[w] = "send", NEW v \in Verdicts
      PROVE  entries[item'[w]][v] = IF v \in ts[w] THEN 1 ELSE 0
  <2>1. InHands(w) /\ item'[w] = item[w]
    BY <1>3, PoolStepHands
  <2>2. CASE pc[w] = "send"
    BY <2>1, <2>2 DEF StatusIsEntries
  <2>3. CASE pc[w] # "send"
    <3>1. ts[w] = {}
      BY <2>3 DEF StatusIsEntries
    <3>2. item[w] \in Tests \ handled
      BY <2>1, HeldTests
    <3>3. \A u \in Workers : pc[u] = "send" => item[u] # item[w]
      BY <2>1, <2>3, HeldTests DEF InHands
    <3>4. entries[item[w]][v] = 0
      BY <3>2, <3>3 DEF FreshTests
    <3> QED BY <2>1, <3>1, <3>4
  <2> QED BY <2>2, <2>3
<1>4. ASSUME NEW w \in Workers, ts[w] # {}
      PROVE  pc'[w] = "send" /\ cfg.openAPI /\ item'[w] \in HTTPTests
  BY <1>4, PoolStepHands DEF StatusIsEntries
<1>5. FreshTests'
  BY <1>1, <1>2 DEF FreshTests
<1>6. StatusIsEntries'
  BY <1>1, <1>3, <1>4, Zenon DEF StatusIsEntries
<1> QED BY <1>1, <1>5, <1>6

\* The end of sendPayload with at most one more entry.
LEMMA EntryLastStep ==
  ASSUME PoolThm!IInv, EntryInv, NEW w \in Workers, pc[w] = "send", EndPayload(w),
         cfg' = cfg,
         \/ entries' = entries
         \/ \E v \in Verdicts :
              /\ UpdateDB(item[w], v)
              /\ ts[w] # {} => v \in {"unresolved", "failed"}
  PROVE  EntryInv'
<1> USE DEF EntryInv
<1> DEFINE t == item[w]
<1>1. t \in Tests /\ t \notin handled
  BY HeldTests DEF InHands
<1>2. /\ pc' = [pc EXCEPT ![w] = "count"]
      /\ item' = item /\ handled' = handled \cup {t}
      /\ ts' = [ts EXCEPT ![w] = {}]
  BY DEF EndPayload, LeaveLoop, Pool!SendPayload
<1>3. /\ pc \in [Workers -> {"select", "delay", "send", "count", "returned", "panicked"}]
      /\ \A v \in Workers \ {w} : pc[v] = "send" => item[v] \in Tests \ {t}
  BY HeldTests DEF InHands
<1>4. \A v \in Verdicts : entries[t][v] = IF v \in ts[w] THEN 1 ELSE 0
  BY DEF StatusIsEntries
<1> HIDE DEF t
<1>5. EntriesOK' /\ (\A u \in Tests \ {t} : entries'[u] = entries[u])
  BY <1>1, UpdateEntries DEF EntriesOK, t
<1>6. TsOK'
  BY <1>2 DEF TsOK
<1>7. FreshTests'
  <2> SUFFICES ASSUME NEW u \in Tests \ handled', NEW v \in Verdicts,
                      \A x \in Workers : pc'[x] = "send" => item'[x] # u
               PROVE  entries'[u][v] = 0
    BY DEF FreshTests
  <2>1. u # t /\ u \notin handled
    BY <1>2
  <2>2. \A x \in Workers : pc[x] = "send" => item[x] # u
    BY <1>2, <1>3, <2>1 DEF t
  <2> QED BY <1>5, <2>1, <2>2 DEF FreshTests
<1>8. StatusIsEntries'
  <2>1. ASSUME NEW x \in Workers \ {w}
        PROVE  pc'[x] = pc[x] /\ ts'[x] = ts[x]
    BY <1>2, <1>3 DEF TsOK
  <2>2. pc'[w] = "count" /\ ts'[w] = {}
    BY <1>2, <1>3 DEF TsOK
  <2>3. ASSUME NEW x \in Workers, pc'[x] = "send", NEW v \in Verdicts
        PROVE  entries'[item'[x]][v] = IF v \in ts'[x] THEN 1 ELSE 0
    BY <1>2, <1>3, <1>5, <2>1, <2>2, <2>3 DEF StatusIsEntries
  <2>4. ASSUME NEW x \in Workers, ts'[x] # {}
        PROVE  pc'[x] = "send" /\ cfg'.openAPI /\ item'[x] \in HTTPTests
    BY <1>2, <2>1, <2>2, <2>4 DEF StatusIsEntries
  <2> QED BY <2>3, <2>4 DEF StatusIsEntries
<1>9. OneEntryPerVerdict'
  <2> SUFFICES ASSUME NEW u \in Tests
               PROVE  /\ entries'[u]["passed"] <= 1
                      /\ entries'[u]["blocked"] <= 1
                      /\ entries'[u]["unresolved"] + entries'[u]["failed"] <= 3
                      /\ entries'[u]["unresolved"] <= 2 /\ entries'[u]["failed"] <= 2
    BY DEF OneEntryPerVerdict
  <2>1. CASE u # t
    BY <1>5, <2>1 DEF OneEntryPerVerdict
  <2>2. CASE u = t /\ entries' = entries
    BY <2>2 DEF OneEntryPerVerdict
  <2>3. ASSUME u = t, NEW v \in Verdicts, UpdateDB(t, v),
               ts[w] # {} => v \in {"unresolved", "failed"}
        PROVE  /\ entries'[t]["passed"] <= 1
               /\ entries'[t]["blocked"] <= 1
               /\ entries'[t]["unresolved"] + entries'[t]["failed"] <= 3
               /\ entries'[t]["unresolved"] <= 2 /\ entries'[t]["failed"] <= 2
    <3>1. /\ entries'[t][v] = entries[t][v] + 1
          /\ \A x \in Verdicts \ {v} : entries'[t][x] = entries[t][x]
      BY <1>1, <2>3, UpdateEntries
    <3>2. \A x \in Verdicts : entries[t][x] \in {0, 1}
      BY <1>4
    <3>3. ts[w] = {} => \A x \in Verdicts : entries[t][x] = 0
      BY <1>4
    <3> QED BY <2>3, <3>1, <3>2, <3>3 DEF Verdicts
  <2> QED BY <2>1, <2>2, <2>3 DEF t
<1> QED BY <1>5, <1>6, <1>7, <1>8, <1>9

\* A turn of the loop: the testStatus and the entries get the verdict together.
LEMMA EntryTemplateStep ==
  ASSUME PoolThm!IInv, EntryInv, SentOK, NEW w \in Workers,
         NEW o \in Outcomes, NEW routed \in BOOLEAN, SendTemplate(w, o, routed)
  PROVE  EntryInv'
<1> USE DEF EntryInv
<1> DEFINE t == item[w]
<1>1. /\ pc[w] = "send" /\ t \in HTTPTests
      /\ pc' = pc /\ item' = item /\ handled' = handled /\ cfg' = cfg
  BY DEF SendTemplate, Sending, poolVars, settings
<1>2. cfg.openAPI
  <2>1. ~cfg.openAPI => Len(TemplatesOf(t)) = 0
    BY DEF TemplatesOf
  <2> QED BY <2>1 DEF SendTemplate, SentOK
<1>3. t \in Tests /\ \A v \in Workers \ {w} : pc[v] = "send" => item[v] \in Tests \ {t}
  BY <1>1, HeldTests DEF InHands
<1>4. CASE entries' = entries /\ ts' = ts
  BY <1>1, <1>4 DEF EntriesOK, TsOK, FreshTests, StatusIsEntries, OneEntryPerVerdict
<1>5. ASSUME NEW v \in Verdicts, RecordOnce(w, v)
      PROVE  EntryInv'
  <2>1. CASE v \in ts[w]
    <3>1. entries' = entries /\ ts' = ts
      BY <1>5, <2>1 DEF RecordOnce, NoUpdate, TsOK
    <3> QED BY <1>4, <3>1
  <2>2. CASE v \notin ts[w]
    <3>1. UpdateDB(t, v) /\ ts' = [ts EXCEPT ![w] = @ \cup {v}]
      BY <1>5, <2>2 DEF RecordOnce
    <3>2. /\ EntriesOK'
          /\ entries'[t][v] = entries[t][v] + 1
          /\ \A x \in Verdicts \ {v} : entries'[t][x] = entries[t][x]
          /\ \A u \in Tests \ {t} : entries'[u] = entries[u]
      BY <1>3, <3>1, UpdateEntries
    <3>3. \A x \in Verdicts : entries[t][x] = IF x \in ts[w] THEN 1 ELSE 0
      BY <1>1 DEF StatusIsEntries
    <3> HIDE DEF t
    <3>4. TsOK' /\ ts'[w] = ts[w] \cup {v} /\ \A x \in Workers \ {w} : ts'[x] = ts[x]
      BY <3>1 DEF TsOK
    <3>5. \A x \in Verdicts : entries'[t][x] = IF x \in ts'[w] THEN 1 ELSE 0
      BY <2>2, <3>2, <3>3, <3>4
    <3>6. FreshTests'
      <4> SUFFICES ASSUME NEW u \in Tests \ handled, NEW y \in Verdicts,
                          \A x \in Workers : pc[x] = "send" => item[x] # u
                   PROVE  entries'[u][y] = 0
        BY <1>1 DEF FreshTests
      <4>1. u # t
        BY <1>1 DEF t
      <4> QED BY <3>2, <4>1 DEF FreshTests
    <3>7. StatusIsEntries'
      <4>1. ASSUME NEW x \in Workers, pc[x] = "send", NEW y \in Verdicts
            PROVE  entries'[item[x]][y] = IF y \in ts'[x] THEN 1 ELSE 0
        <5>1. CASE x = w
          BY <3>5, <5>1 DEF t
        <5>2. CASE x # w
          <6>1. item[x] \in Tests \ {t} /\ ts'[x] = ts[x]
            BY <1>3, <3>4, <4>1, <5>2
          <6> QED BY <3>2, <4>1, <6>1 DEF StatusIsEntries
        <5> QED BY <5>1, <5>2
      <4>2. ASSUME NEW x \in Workers, ts'[x] # {}
            PROVE  pc[x] = "send" /\ cfg.openAPI /\ item[x] \in HTTPTests
        BY <1>1, <1>2, <3>4, <4>2 DEF StatusIsEntries, t
      <4> QED BY <1>1, <4>1, <4>2 DEF StatusIsEntries
    <3>8. OneEntryPerVerdict'
      <4>1. \A x \in Verdicts : entries'[t][x] \in {0, 1}
        BY <3>5
      <4> QED BY <3>2, <4>1 DEF OneEntryPerVerdict, Verdicts
    <3> QED BY <3>2, <3>4, <3>6, <3>7, <3>8
  <2> QED BY <2>1, <2>2
<1>6. \/ entries' = entries /\ ts' = ts
      \/ \E v \in Verdicts : RecordOnce(w, v)
  BY VerdictsAreVerdicts DEF SendTemplate, NoUpdate
<1> QED BY <1>4, <1>5, <1>6

LEMMA EntryStep ==
  ASSUME PoolThm!IInv, EntryInv, SubOK, PathInSend, SentOK, [Next]_vars
  PROVE  EntryInv'
<1>1. CASE UNCHANGED vars
  BY <1>1 DEF vars, poolVars, loopVars, settings, EntryInv, EntriesOK, TsOK,
     FreshTests, StatusIsEntries, OneEntryPerVerdict
<1>2. CASE PoolStep
  BY <1>2, EntryPoolStep
<1>3. ASSUME NEW w \in Workers,
             \/ SendGrpcRequest(w) \/ SendGraphQLRequest(w)
             \/ SendRequest(w) \/ OpenAPIRequestFails(w)
      PROVE  EntryInv'
  <2>1. LastRequest(w)
    BY <1>3, LastRequests
  <2>2. item[w] \in Tests
    BY <2>1, HeldTests DEF LastRequest, InHands
  <2> QED BY <1>3, <2>1, <2>2, LastEntry, EntryLastStep
          DEF LastRequest, EntryInv, settings
<1>4. ASSUME NEW w \in Workers, AddPath(w)
      PROVE  EntryInv'
  <2>1. pc[w] = "send" /\ entries' = entries /\ cfg' = cfg
    BY <1>4 DEF AddPath, settings, PathInSend
  <2>2. CASE EndPayload(w)
    BY <2>1, <2>2, EntryLastStep
  <2>3. CASE ~EndPayload(w)
    <3>1. UNCHANGED <<poolVars, ts>>
      BY <1>4, <2>3 DEF AddPath
    <3> QED BY <2>1, <3>1 DEF poolVars, EntryInv, EntriesOK, TsOK, FreshTests,
            StatusIsEntries, OneEntryPerVerdict
  <2> QED BY <2>2, <2>3
<1> QED BY <1>1, <1>2, <1>3, <1>4, EntryTemplateStep DEF Next, SendStep, Terminated

LEMMA EntryInit == Init => EntryInv
BY DEF Init, Pool!Init, EntryInv, EntriesOK, TsOK, FreshTests, StatusIsEntries,
   OneEntryPerVerdict, Verdicts

\* Over all its templates and the plain request a test is passed or blocked at
\* most once, whatever the workers do meanwhile.
THEOREM OneEntry == Spec => []OneEntryPerVerdict
<1> DEFINE Inv == SubOK /\ PathInSend /\ SentOK /\ EntryInv
<1>1. Init => Inv
  BY EntryInit DEF Init, SubOK, PathInSend, SentOK
<1>2. PoolThm!IInv /\ Inv /\ [Next]_vars => Inv'
  BY PathInSendStep, SentStep, EntryStep
<1>3. Inv => OneEntryPerVerdict
  BY DEF EntryInv
<1> HIDE DEF Inv
<1> QED BY <1>1, <1>2, <1>3, PoolInvariant, PTL DEF Spec

-----------------------------------------------------------------------------
(* What the report counts as sent.                                         *)

ListsOK ==
  /\ passedTests \in [Cases -> Nat] /\ blockedTests \in [Cases -> Nat]
  /\ naTests \in [Cases -> Nat] /\ failedTests \in [Cases -> Nat]

\* Without an OpenAPI document nobody is in the loop over the templates.
NoLoop == ~cfg.openAPI => \A w \in Workers : sub[w] = "request"

AccountInv == ListsOK /\ NoLoop /\ ReportAccountsForEveryTest

HandledOf(c) == {t \in handled : CaseOf[t] = c /\ Reachable(t)}

\* An update adds one entry to one list of the test's case.
LEMMA UpdateLists ==
  ASSUME ListsOK, NEW t \in Tests, NEW v \in Verdicts, UpdateDB(t, v)
  PROVE  /\ ListsOK'
         /\ EntriesOf(CaseOf[t])' = EntriesOf(CaseOf[t]) + 1
         /\ \A c \in Cases \ {CaseOf[t]} : EntriesOf(c)' = EntriesOf(c)
<1> USE DEF ListsOK, EntriesOf
<1>1. CaseOf[t] \in Cases
  BY CaseOfAssumption
<1>2. CASE DB!UpdatePassedTests(CaseOf[t])
  BY <1>1, <1>2 DEF DB!UpdatePassedTests
<1>3. CASE DB!UpdateBlockedTests(CaseOf[t])
  BY <1>1, <1>3 DEF DB!UpdateBlockedTests
<1>4. CASE DB!UpdateNaTests(CaseOf[t])
  BY <1>1, <1>4 DEF DB!UpdateNaTests
<1>5. CASE DB!UpdateFailedTests(CaseOf[t])
  BY <1>1, <1>5 DEF DB!UpdateFailedTests
<1> QED BY <1>2, <1>3, <1>4, <1>5 DEF UpdateDB

\* A test that no worker can be sending twice is one more of its case.
LEMMA HandledGrows ==
  ASSUME handled \subseteq Tests, NEW t \in Tests, t \notin handled,
         handled' = handled \cup {t}, available' = available, NEW c \in Cases
  PROVE  Cardinality(HandledOf(c)') =
           IF CaseOf[t] = c /\ Reachable(t) THEN Cardinality(HandledOf(c)) + 1
                                          ELSE Cardinality(HandledOf(c))
<1>1. IsFiniteSet(Tests)
  BY PoolAssumption, FS_Interval DEF Tests
<1>2. IsFiniteSet(HandledOf(c)) /\ t \notin HandledOf(c)
  BY <1>1, FS_Subset DEF HandledOf
<1>3. \A u : Reachable(u)' <=> Reachable(u)
  BY DEF Reachable
<1>4. CASE CaseOf[t] = c /\ Reachable(t)
  <2>1. HandledOf(c)' = HandledOf(c) \cup {t}
    BY <1>3, <1>4 DEF HandledOf
  <2> QED BY <1>2, <1>4, <2>1, FS_AddElement
<1>5. CASE ~(CaseOf[t] = c /\ Reachable(t))
  <2>1. HandledOf(c)' = HandledOf(c)
    BY <1>3, <1>5 DEF HandledOf
  <2> QED BY <1>5, <2>1
<1> QED BY <1>4, <1>5

\* A step that records nothing and ends no test.
LEMMA AccountStays ==
  ASSUME ReportAccountsForEveryTest, UNCHANGED <<handled, cfg, available>>,
         UNCHANGED <<passedTests, blockedTests, naTests, failedTests>>
  PROVE  ReportAccountsForEveryTest'
<1>1. \A c : EntriesOf(c)' = EntriesOf(c) /\ HandledOf(c)' = HandledOf(c)
  BY DEF EntriesOf, HandledOf, Reachable
<1> QED BY <1>1 DEF ReportAccountsForEveryTest, HandledOf

\* Without a document a request is recorded exactly if its client is there.
LEMMA LastIsRecorded ==
  ASSUME NEW w \in Workers, ~cfg.openAPI,
         \/ SendGrpcRequest(w) \/ SendGraphQLRequest(w)
         \/ SendRequest(w) \/ OpenAPIRequestFails(w)
  PROVE  IF Reachable(item[w]) THEN \E v \in Verdicts : UpdateDB(item[w], v)
                               ELSE NoUpdate
<1>1. CASE SendGrpcRequest(w)
  <2>1. item[w] \notin GraphQLTests /\ (Reachable(item[w]) <=> "grpc" \in available)
    BY <1>1, KindsAssumption DEF SendGrpcRequest, Reachable
  <2> QED BY <1>1, <2>1, VerdictsAreVerdicts DEF SendGrpcRequest
<1>2. CASE SendGraphQLRequest(w)
  <2>1. item[w] \notin GRPCTests /\ (Reachable(item[w]) <=> "graphql" \in available)
    BY <1>2, KindsAssumption DEF SendGraphQLRequest, Reachable
  <2> QED BY <1>2, <2>1, VerdictsAreVerdicts DEF SendGraphQLRequest, UpdateWithoutRequest
<1>3. CASE SendRequest(w)
  BY <1>3, VerdictsAreVerdicts
     DEF SendRequest, UpdateWithoutRequest, HTTPOutcomes, HTTPTests, Reachable
<1>4. CASE OpenAPIRequestFails(w)
  BY <1>4 DEF OpenAPIRequestFails
<1> QED BY <1>1, <1>2, <1>3, <1>4

\* The last request of a test: one more test handled, one more entry.
LEMMA AccountLastStep ==
  ASSUME PoolThm!IInv, AccountInv, NEW w \in Workers,
         \/ SendGrpcRequest(w) \/ SendGraphQLRequest(w)
         \/ SendRequest(w) \/ OpenAPIRequestFails(w)
  PROVE  AccountInv'
<1> USE DEF AccountInv
<1>1. LastRequest(w)
  BY LastRequests
<1>2. item[w] \in Tests /\ item[w] \notin handled /\ handled \subseteq Tests
  BY <1>1, HeldTests DEF LastRequest, InHands
<1>3. PICK t \in Tests : t = item[w]
  BY <1>2
<1>4. t \notin handled /\ handled \subseteq Tests
  BY <1>2, <1>3
<1>5. handled' = handled \cup {t} /\ cfg' = cfg /\ available' = available
  BY <1>1, <1>3 DEF LastRequest, EndPayload, Pool!SendPayload, settings
<1>6. ListsOK'
  <2>1. CASE NoUpdate
    BY <2>1 DEF NoUpdate, dbVars, ListsOK
  <2> QED BY <1>1, <1>3, <2>1, UpdateLists DEF LastRequest
<1>7. NoLoop'
  BY <1>1, <1>5 DEF LastRequest, EndPayload, LeaveLoop, NoLoop
<1>8. ASSUME ~cfg.openAPI, NEW c \in Cases
      PROVE  EntriesOf(c)' = Cardinality(HandledOf(c)')
  <2>1. EntriesOf(c) = Cardinality(HandledOf(c))
    BY <1>8 DEF ReportAccountsForEveryTest, HandledOf
  <2>2. CASE ~Reachable(t)
    <3>1. EntriesOf(c)' = EntriesOf(c)
      BY <1>8, <1>3, <2>2, LastIsRecorded DEF NoUpdate, dbVars, EntriesOf
    <3> QED BY <1>4, <1>5, <2>1, <2>2, <3>1, HandledGrows
  <2>3. CASE Reachable(t)
    <3>1. PICK v \in Verdicts : UpdateDB(t, v)
      BY <1>8, <1>3, <2>3, LastIsRecorded
    <3>2. /\ EntriesOf(CaseOf[t])' = EntriesOf(CaseOf[t]) + 1
          /\ \A d \in Cases \ {CaseOf[t]} : EntriesOf(d)' = EntriesOf(d)
      BY <1>4, <3>1, UpdateLists
    <3>3. CASE c = CaseOf[t]
      BY <1>4, <1>5, <2>1, <2>3, <3>2, <3>3, HandledGrows
    <3>4. CASE c # CaseOf[t]
      BY <1>4, <1>5, <2>1, <2>3, <3>2, <3>4, HandledGrows
    <3> QED BY <3>3, <3>4
  <2> QED BY <2>2, <2>3
<1> QED BY <1>5, <1>6, <1>7, <1>8 DEF ReportAccountsForEveryTest, HandledOf

\* A turn of the loop and its path, only with a document.
LEMMA AccountLoopStep ==
  ASSUME PoolThm!IInv, AccountInv, SentOK, NEW w \in Workers,
         \/ AddPath(w)
         \/ \E o \in Outcomes, routed \in BOOLEAN : SendTemplate(w, o, routed)
  PROVE  AccountInv'
<1> USE DEF AccountInv
<1>1. cfg' = cfg
  BY DEF AddPath, SendTemplate, settings
<1>2. cfg.openAPI
  <2>1. CASE AddPath(w)
    BY <2>1 DEF AddPath, NoLoop
  <2>2. ~cfg.openAPI => Len(TemplatesOf(item[w])) = 0
    BY DEF TemplatesOf
  <2> QED BY <2>1, <2>2 DEF SendTemplate, SentOK
<1>3. ListsOK'
  <2>1. CASE AddPath(w)
    BY <2>1 DEF AddPath, DB!AddToScannedPaths, DB!lists, ListsOK
  <2>2. ASSUME NEW o \in Outcomes, NEW routed \in BOOLEAN, SendTemplate(w, o, routed)
        PROVE  ListsOK'
    <3>1. item[w] \in Tests
      BY <2>2, HeldTests DEF SendTemplate, Sending, InHands
    <3>2. NoUpdate \/ \E v \in Verdicts : UpdateDB(item[w], v)
      BY <2>2, VerdictsAreVerdicts DEF SendTemplate, RecordOnce
    <3>3. CASE NoUpdate
      BY <3>3 DEF NoUpdate, dbVars, ListsOK
    <3> QED BY <3>1, <3>2, <3>3, UpdateLists
  <2> QED BY <2>1, <2>2
<1> QED BY <1>1, <1>2, <1>3 DEF NoLoop, ReportAccountsForEveryTest

LEMMA AccountStep ==
  ASSUME PoolThm!IInv, AccountInv, SentOK, [Next]_vars
  PROVE  AccountInv'
<1>1. CASE UNCHANGED vars
  BY <1>1, AccountStays DEF vars, poolVars, dbVars, loopVars, settings, AccountInv,
     ListsOK, NoLoop
<1>2. CASE PoolStep
  <2>1. handled' = handled
    BY <1>2, PoolStepHands
  <2> QED BY <1>2, <2>1, AccountStays DEF PoolStep, dbVars, loopVars, settings,
          AccountInv, ListsOK, NoLoop
<1> QED BY <1>1, <1>2, AccountLastStep, AccountLoopStep DEF Next, SendStep, Terminated

LEMMA AccountInit == Init => AccountInv
<1>1. ASSUME Init PROVE ListsOK /\ NoLoop
  BY <1>1 DEF Init, DB!Init, DB!NewDB, DB!Zero, ListsOK, NoLoop
<1>2. ASSUME Init, NEW c \in Cases
      PROVE  EntriesOf(c) = 0 /\ HandledOf(c) = {}
  BY <1>2 DEF Init, DB!Init, DB!NewDB, DB!Zero, Pool!Init, EntriesOf, HandledOf
<1> QED BY <1>1, <1>2, FS_EmptySet DEF AccountInv, ReportAccountsForEveryTest, HandledOf

\* Without an OpenAPI document the lists the report is made of account for every
\* test handled, one entry each, in any order of any number of workers.
THEOREM ReportAccounts == Spec => []ReportAccountsForEveryTest
<1> DEFINE Inv == SentOK /\ AccountInv
<1>1. Init => Inv
  BY AccountInit DEF Init, SentOK
<1>2. PoolThm!IInv /\ Inv /\ [Next]_vars => Inv'
  BY SentStep, AccountStep
<1>3. Inv => ReportAccountsForEveryTest
  BY DEF AccountInv
<1> HIDE DEF Inv
<1> QED BY <1>1, <1>2, <1>3, PoolInvariant, PTL DEF Spec

-----------------------------------------------------------------------------
(* Types of the composition.                                               *)

\* A worker is at one of the templates of its test; outside sendPayload it has
\* not begun.
LoopInv ==
  /\ cfg \in [openAPI : BOOLEAN, blockConnReset : BOOLEAN, chrome : BOOLEAN]
  /\ available \subseteq {"grpc", "graphql"} /\ panicked \in BOOLEAN
  /\ SubOK /\ PathInSend /\ SentOK
  /\ \A w \in Workers : pc[w] # "send" => sent[w] = 0
  /\ \A w \in Workers : pc[w] = "send" => sent[w] <= Len(TemplatesOf(item[w]))
  /\ \A w \in Workers : sub[w] # "request" => sent[w] < Len(TemplatesOf(item[w]))
  /\ requested \subseteq Paths /\ scannedPaths \subseteq Paths

CountersOK ==
  /\ ignoreUnresolved \in BOOLEAN /\ nonBlockedAsPassed \in BOOLEAN
  /\ counters \in [Cases -> [passed : Nat, blocked : Nat, failed : Nat]]

LEMMA TemplatesAreLists ==
  ASSUME NEW t \in Tests
  PROVE  TemplatesOf(t) \in Seq(Paths) /\ Len(TemplatesOf(t)) \in Nat
BY TemplatesAssumption DEF TemplatesOf

LEMMA UpdateCounters ==
  ASSUME CountersOK, NEW t \in Tests, NEW v \in Verdicts, UpdateDB(t, v)
  PROVE  CountersOK'
<1> USE DEF CountersOK, DB!flags
<1>1. CaseOf[t] \in Cases
  BY CaseOfAssumption
<1>2. CASE DB!UpdatePassedTests(CaseOf[t])
  BY <1>1, <1>2 DEF DB!UpdatePassedTests
<1>3. CASE DB!UpdateBlockedTests(CaseOf[t])
  BY <1>1, <1>3 DEF DB!UpdateBlockedTests
<1>4. CASE DB!UpdateNaTests(CaseOf[t])
  <2>1. DB!UnresolvedCountsAs(CaseOf[t]) \in {"passed", "blocked"}
    BY DEF DB!UnresolvedCountsAs
  <2> QED BY <1>1, <1>4, <2>1 DEF DB!UpdateNaTests
<1>5. CASE DB!UpdateFailedTests(CaseOf[t])
  BY <1>1, <1>5 DEF DB!UpdateFailedTests
<1> QED BY <1>2, <1>3, <1>4, <1>5 DEF UpdateDB

LEMMA CountersStep ==
  ASSUME PoolThm!IInv, CountersOK, PathInSend, [Next]_vars
  PROVE  CountersOK'
<1>1. ASSUME UNCHANGED <<ignoreUnresolved, nonBlockedAsPassed, counters>>
      PROVE  CountersOK'
  BY <1>1 DEF CountersOK
<1>2. ASSUME NEW w \in Workers, SendStep(w)
      PROVE  CountersOK'
  <2>1. item[w] \in Tests
    BY <1>2, HeldTests DEF SendStep, SendGrpcRequest, SendGraphQLRequest, SendRequest,
       OpenAPIRequestFails, SendTemplate, AddPath, Sending, PathInSend, InHands
  <2>2. CASE AddPath(w)
    BY <1>1, <2>2 DEF AddPath, DB!AddToScannedPaths, DB!flags
  <2>3. CASE ~AddPath(w)
    <3>1. NoUpdate \/ \E v \in Verdicts : UpdateDB(item[w], v)
      BY <1>2, <2>3, LastRequests, VerdictsAreVerdicts
         DEF SendStep, LastRequest, SendTemplate, RecordOnce
    <3> QED BY <1>1, <2>1, <3>1, UpdateCounters DEF NoUpdate, dbVars
  <2> QED BY <2>2, <2>3
<1>3. UNCHANGED vars \/ PoolStep => CountersOK'
  BY <1>1 DEF vars, dbVars, PoolStep
<1> QED BY <1>2, <1>3 DEF Next, Terminated

LEMMA LoopStep ==
  ASSUME PoolThm!IInv, LoopInv, [Next]_vars
  PROVE  LoopInv'
<1> USE DEF LoopInv
<1>1. SubOK' /\ PathInSend' /\ SentOK'
  BY PathInSendStep, SentStep
<1>2. CASE UNCHANGED vars
  BY <1>1, <1>2 DEF vars, poolVars, dbVars, loopVars, settings, TemplatesOf
<1>3. CASE PoolStep
  <2>1. /\ sent' = sent /\ sub' = sub /\ cfg' = cfg /\ available' = available
        /\ panicked' = panicked /\ requested' = requested /\ scannedPaths' = scannedPaths
    BY <1>3 DEF PoolStep, dbVars, loopVars, settings
  <2>2. ASSUME NEW w \in Workers, pc'[w] = "send"
        PROVE  sent[w] <= Len(TemplatesOf(item'[w]))
    <3>1. item'[w] = item[w] /\ item[w] \in Tests
      BY <1>3, <2>2, PoolStepHands, HeldTests
    <3>2. Len(TemplatesOf(item[w])) \in Nat
      BY <3>1, TemplatesAreLists
    <3> QED BY <3>1, <3>2
  <2>3. \A w \in Workers : pc'[w] # "send" => pc[w] # "send"
    BY <1>3, PoolStepHands
  <2>4. \A w \in Workers : sub[w] # "request" => item'[w] = item[w]
    BY <1>3, PoolStepHands DEF PathInSend
  <2> QED BY <1>1, <2>1, <2>2, <2>3, <2>4 DEF TemplatesOf
<1>4. ASSUME NEW w \in Workers, EndPayload(w), UNCHANGED <<settings, panicked>>,
             scannedPaths' \subseteq Paths
      PROVE  LoopInv'
  <2>1. /\ item' = item /\ requested' = requested /\ cfg' = cfg /\ available' = available
        /\ pc' = [pc EXCEPT ![w] = "count"] /\ sent' = [sent EXCEPT ![w] = 0]
        /\ sub' = [sub EXCEPT ![w] = "request"]
    BY <1>4 DEF EndPayload, LeaveLoop, Pool!SendPayload, settings
  <2>2. \A v \in Workers \ {w} : pc'[v] = pc[v] /\ sent'[v] = sent[v] /\ sub'[v] = sub[v]
    BY <2>1, HeldTests DEF SubOK, SentOK
  <2>3. pc'[w] = "count" /\ sent'[w] = 0 /\ sub'[w] = "request"
    BY <2>1, HeldTests DEF SubOK, SentOK
  <2> QED BY <1>1, <1>4, <2>1, <2>2, <2>3 DEF TemplatesOf
<1>5. ASSUME NEW w \in Workers, LastRequest(w)
      PROVE  LoopInv'
  <2>1. scannedPaths' = scannedPaths
    BY <1>5, UpdateKeepsPaths DEF LastRequest, NoUpdate, dbVars
  <2> QED BY <1>4, <1>5, <2>1 DEF LastRequest
<1>6. ASSUME NEW w \in Workers, NEW o \in Outcomes, NEW routed \in BOOLEAN,
             SendTemplate(w, o, routed)
      PROVE  LoopInv'
  <2>1. scannedPaths' = scannedPaths
    BY <1>6, UpdateKeepsPaths, VerdictsAreVerdicts
       DEF SendTemplate, RecordOnce, NoUpdate, dbVars
  <2>2. /\ pc' = pc /\ item' = item /\ sent' = sent /\ cfg' = cfg
        /\ available' = available
    BY <1>6 DEF SendTemplate, poolVars, settings
  <2>3. item[w] \in Tests /\ sent[w] < Len(TemplatesOf(item[w]))
    BY <1>6, HeldTests DEF SendTemplate, Sending, InHands
  <2>4. TemplatesOf(item[w])[sent[w] + 1] \in Paths
    BY <2>3, TemplatesAreLists DEF SentOK
  <2>5. requested' \subseteq Paths
    BY <1>6, <2>4 DEF SendTemplate
  <2>6. \A v \in Workers : sub'[v] # "request" => sub[v] # "request" \/ v = w
    BY <1>6 DEF SendTemplate, SubOK
  <2>7. panicked' \in BOOLEAN
    BY <1>6 DEF SendTemplate
  <2> QED BY <1>1, <2>1, <2>2, <2>3, <2>5, <2>6, <2>7 DEF TemplatesOf
<1>7. ASSUME NEW w \in Workers, AddPath(w)
      PROVE  LoopInv'
  <2>1. pc[w] = "send" /\ sub[w] # "request"
    BY <1>7 DEF AddPath, PathInSend
  <2>2. item[w] \in Tests /\ sent[w] < Len(TemplatesOf(item[w]))
    BY <2>1, HeldTests DEF InHands
  <2>3. TemplatesOf(item[w])[sent[w] + 1] \in Paths /\ Len(TemplatesOf(item[w])) \in Nat
    BY <2>2, TemplatesAreLists DEF SentOK
  <2>4. scannedPaths' \subseteq Paths
    BY <1>7, <2>3 DEF AddPath, DB!AddToScannedPaths
  <2>5. CASE EndPayload(w)
    BY <1>4, <1>7, <2>4, <2>5 DEF AddPath
  <2>6. CASE ~EndPayload(w)
    <3>1. /\ pc' = pc /\ item' = item /\ requested' = requested /\ panicked' = panicked
          /\ cfg' = cfg /\ available' = available
          /\ sent' = [sent EXCEPT ![w] = @ + 1] /\ sub' = [sub EXCEPT ![w] = "request"]
      BY <1>7, <2>6 DEF AddPath, poolVars, settings
    <3>2. \A v \in Workers \ {w} : sent'[v] = sent[v] /\ sub'[v] = sub[v]
      BY <3>1 DEF SubOK, SentOK
    <3>3. sent'[w] = sent[w] + 1 /\ sub'[w] = "request" /\ sent[w] \in Nat
      BY <3>1 DEF SubOK, SentOK
    <3> QED BY <1>1, <2>1, <2>2, <2>3, <2>4, <3>1, <3>2, <3>3 DEF TemplatesOf
  <2> QED BY <2>5, <2>6
<1> QED BY <1>2, <1>3, <1>5, <1>6, <1>7, LastRequests DEF Next, SendStep, Terminated

\* The pool, the database and the loops over the templates keep their types, and
\* no worker reads past the last template.
THEOREM TypeCorrect == Spec => []TypeOK
<1> DEFINE Inv == LoopInv /\ CountersOK /\ AccountInv /\ EntryInv
<1>1. Init => Inv
  <2>1. ASSUME Init PROVE LoopInv
    <3>1. SubOK /\ PathInSend /\ SentOK
      BY <2>1 DEF Init, SubOK, PathInSend, SentOK
    <3> QED BY <2>1, <3>1 DEF Init, LoopInv, Pool!Init, DB!Init, DB!NewDB
  <2>2. ASSUME Init PROVE CountersOK
    BY <2>2 DEF Init, DB!Init, DB!NewDB, CountersOK
  <2> QED BY <2>1, <2>2, AccountInit, EntryInit
<1>2. PoolThm!IInv /\ Inv /\ [Next]_vars => Inv'
  BY LoopStep, CountersStep, AccountStep, EntryStep DEF LoopInv
<1>3. PoolThm!IInv /\ Inv => TypeOK
  <2>1. PoolThm!IInv => Pool!TypeOK
    BY SameCardinality DEF PoolThm!IInv, PoolThm!TypeOK, Pool!TypeOK, PoolThm!Tests,
       Pool!Tests, PoolThm!NoTest, Pool!NoTest
  <2> QED BY <2>1 DEF LoopInv, CountersOK, AccountInv, ListsOK, EntryInv, EntriesOK,
          TsOK, SubOK, SentOK, TypeOK, DB!TypeOK
<1> HIDE DEF Inv
<1> QED BY <1>1, <1>2, <1>3, PoolInvariant, PTL DEF Spec
=============================================================================
