------------------------------- MODULE TestDB -------------------------------
(***************************************************************************)
(* The test database: for each test case a row of counters, and the lists  *)
(* of passed, blocked, unresolved ("na") and failed tests that the report  *)
(* is made from.  Each Update method changes a counter and a list under    *)
(* one lock, so it is one step here.                                       *)
(*                                                                         *)
(* A list is kept as the number of its entries of each test case: the      *)
(* statistics only ever count them.  A test case stands for one (set, name)*)
(* key of the counters map.  The verdict on an unresolved test depends on  *)
(* two flags of the command line, fixed before the scan.                   *)
(***************************************************************************)
EXTENDS Integers, FiniteSets, Functions

CONSTANTS
  Cases,          \* (set, name) pairs of the loaded test cases
  FalseCases,     \* those whose set name contains "false": benign requests
  Paths,          \* (method, path) pairs of the OpenAPI document
  MaxRecorded     \* bound: entries recorded altogether

ASSUME CasesAssumption == IsFiniteSet(Cases) /\ FalseCases \subseteq Cases
ASSUME MaxRecordedAssumption == MaxRecorded \in Nat

VARIABLES
  ignoreUnresolved, nonBlockedAsPassed,
  counters, passedTests, blockedTests, naTests, failedTests, scannedPaths

flags == <<ignoreUnresolved, nonBlockedAsPassed>>
lists == <<passedTests, blockedTests, naTests, failedTests>>
dbVars == <<flags, counters, lists, scannedPaths>>

Zero == [c \in Cases |-> 0]

\* LoadTestCases: everything outside the "false" sets is an attack.
isTruePositive(c) == c \notin FalseCases

NewDB ==
  /\ counters = [c \in Cases |-> [passed |-> 0, blocked |-> 0, failed |-> 0]]
  /\ passedTests = Zero /\ blockedTests = Zero /\ naTests = Zero /\ failedTests = Zero
  /\ scannedPaths = {}

Init ==
  /\ ignoreUnresolved \in BOOLEAN
  /\ nonBlockedAsPassed \in BOOLEAN
  /\ NewDB

UpdatePassedTests(c) ==
  /\ counters' = [counters EXCEPT ![c].passed = @ + 1]
  /\ passedTests' = [passedTests EXCEPT ![c] = @ + 1]
  /\ UNCHANGED <<flags, blockedTests, naTests, failedTests, scannedPaths>>

UpdateBlockedTests(c) ==
  /\ counters' = [counters EXCEPT ![c].blocked = @ + 1]
  /\ blockedTests' = [blockedTests EXCEPT ![c] = @ + 1]
  /\ UNCHANGED <<flags, passedTests, naTests, failedTests, scannedPaths>>

\* The counter that takes an unresolved test.
UnresolvedCountsAs(c) ==
  IF (ignoreUnresolved \/ nonBlockedAsPassed) /\ isTruePositive(c)
  THEN "passed" ELSE "blocked"

UpdateNaTests(c) ==
  /\ counters' = [counters EXCEPT ![c][UnresolvedCountsAs(c)] = @ + 1]
  /\ naTests' = [naTests EXCEPT ![c] = @ + 1]
  /\ UNCHANGED <<flags, passedTests, blockedTests, failedTests, scannedPaths>>

UpdateFailedTests(c) ==
  /\ counters' = [counters EXCEPT ![c].failed = @ + 1]
  /\ failedTests' = [failedTests EXCEPT ![c] = @ + 1]
  /\ UNCHANGED <<flags, passedTests, blockedTests, naTests, scannedPaths>>

AddToScannedPaths(p) ==
  /\ scannedPaths' = scannedPaths \cup {p}
  /\ UNCHANGED <<flags, counters, lists>>

SumOver(f, S) == FoldFunctionOnSet(+, 0, f, S)

\* Entries over the four lists.
Recorded ==
  SumOver([c \in Cases |-> passedTests[c] + blockedTests[c] + naTests[c] + failedTests[c]],
          Cases)

Update(c) ==
  \/ UpdatePassedTests(c)
  \/ UpdateBlockedTests(c)
  \/ UpdateNaTests(c)
  \/ UpdateFailedTests(c)

Next ==
  \/ Recorded < MaxRecorded /\ \E c \in Cases : Update(c)
  \/ \E p \in Paths : AddToScannedPaths(p)

Spec == Init /\ [][Next]_dbVars

-----------------------------------------------------------------------------

\* Every test case has its counters and its place in each list.
TypeOK ==
  /\ ignoreUnresolved \in BOOLEAN
  /\ nonBlockedAsPassed \in BOOLEAN
  /\ counters \in [Cases -> [passed : Nat, blocked : Nat, failed : Nat]]
  /\ passedTests \in [Cases -> Nat]
  /\ blockedTests \in [Cases -> Nat]
  /\ naTests \in [Cases -> Nat]
  /\ failedTests \in [Cases -> Nat]
  /\ scannedPaths \subseteq Paths

\* The unresolved tests of c that one counter has taken.
TakenBy(column, c) == IF UnresolvedCountsAs(c) = column THEN naTests[c] ELSE 0

\* The two ways the database counts a test, the counters and the lists, never
\* drift apart, whatever the flags make of the unresolved tests.
CountersMatchLists ==
  \A c \in Cases :
    /\ counters[c].passed = passedTests[c] + TakenBy("passed", c)
    /\ counters[c].blocked = blockedTests[c] + TakenBy("blocked", c)
    /\ counters[c].failed = failedTests[c]
=============================================================================
