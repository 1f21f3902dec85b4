----------------------------- MODULE Statistics -----------------------------
(***************************************************************************)
(* GetStatistics: the summary tables, the detail lists and the scores of   *)
(* the report, computed from the test database under its lock.             *)
(*                                                                         *)
(* The code counts every request twice.  The summary tables and their      *)
(* totals come from the counters, the detail lists and the API/application *)
(* split from the lists; each side decides on its own, from the flags and  *)
(* the name of the set, what an unresolved request is.                     *)
(*                                                                         *)
(* Percentages are integers in hundredths, the precision the code rounds   *)
(* to; the last digit of a tie is at the mercy of floating point in the    *)
(* code, and nothing here depends on it.                                   *)
(***************************************************************************)
EXTENDS TestDB

CONSTANT ApiCases     \* cases whose set name contains "api"

ASSUME ApiCasesAssumption == ApiCases \subseteq Cases

AttackCases == Cases \ FalseCases

-----------------------------------------------------------------------------
(* Summary tables, from the counters.                                      *)

\* With either flag an unresolved test is not counted as one any more.
UnresolvedRequests(c) ==
  IF ignoreUnresolved \/ nonBlockedAsPassed THEN 0 ELSE naTests[c]

BlockedRequests(c) ==
  IF ~ignoreUnresolved \/ ~nonBlockedAsPassed
  THEN counters[c].blocked - UnresolvedRequests(c)
  ELSE counters[c].blocked

SummaryTableRow(c) ==
  [sent       |-> counters[c].passed + counters[c].blocked + counters[c].failed,
   blocked    |-> BlockedRequests(c),
   bypassed   |-> counters[c].passed,
   unresolved |-> UnresolvedRequests(c),
   failed     |-> counters[c].failed]

\* Totals of one summary table: S is the attack or the benign cases.
ReqStats(S) ==
  [col \in {"blocked", "bypassed", "unresolved", "failed"} |->
    SumOver([c \in Cases |-> SummaryTableRow(c)[col]], S)]

-----------------------------------------------------------------------------
(* Detail lists and the API/application totals, from the lists.            *)

\* Mutant of ListedAs: an unresolved benign request is listed as a bypass.
ListedAs_Bypassed(c) ==
  IF ~(ignoreUnresolved \/ nonBlockedAsPassed) THEN "unresolved" ELSE "bypassed"

\* The detail list that takes the unresolved tests of case c.
ListedAs(c) ==
  IF ~(ignoreUnresolved \/ nonBlockedAsPassed) THEN "unresolved"
  ELSE IF c \in FalseCases THEN "blocked" ELSE "bypassed"

Listed(c) ==
  LET unresolvedIn(list) == IF ListedAs(c) = list THEN naTests[c] ELSE 0
  IN [blocked    |-> blockedTests[c] + unresolvedIn("blocked"),
      bypassed   |-> passedTests[c] + unresolvedIn("bypassed"),
      unresolved |-> unresolvedIn("unresolved"),
      failed     |-> failedTests[c]]

\* ApiSecReqStats and AppSecReqStats of one side.
SecReqStats(S) ==
  [col \in {"blocked", "bypassed", "unresolved", "failed"} |->
    SumOver([c \in Cases |-> Listed(c)[col]], S)]

ResolvedRequestsNumber(stats) == stats.blocked + stats.bypassed

-----------------------------------------------------------------------------
(* What each report shows of the requests of a test case.                  *)

\* Columns of the console's text tables: --ignoreUnresolved leaves one out.
ConsoleColumns ==
  {"blocked", "bypassed", "failed"} \cup (IF ignoreUnresolved THEN {} ELSE {"unresolved"})

ConsoleShows(c) == SumOver(SummaryTableRow(c), ConsoleColumns)

\* The payload lists of the JSON report: what did not end as it should have.
JsonPayloads(c) ==
  (IF c \in FalseCases THEN Listed(c).blocked ELSE Listed(c).bypassed)
    + (IF ignoreUnresolved THEN 0 ELSE Listed(c).unresolved)
    + Listed(c).failed

\* Mutant of ExportPayloads: the unresolved tests are left out.
ExportPayloads_NoUnresolved(c) == blockedTests[c] + passedTests[c]

\* Rows of the CSV, straight from the lists of the database.
ExportPayloads(c) == blockedTests[c] + passedTests[c] + naTests[c]

-----------------------------------------------------------------------------
(* Scores.                                                                 *)

NA == -100            \* -1.0, "not available"

\* Round(first / second * 100), in hundredths.
CalculatePercentage(first, second) ==
  IF second = 0 THEN 0 ELSE (2 * 10000 * first + second) \div (2 * second)

\* Round((a + b) / 2), in hundredths.
Mean(a, b) == (a + b + 1) \div 2

\* Mutant of AverageOf: the missing part of the score is averaged in.
AverageOf_CountsNA(a, b) ==
  IF a = NA /\ b = NA THEN NA ELSE Mean(a, b)

\* The mean of the scores that are available.
AverageOf(a, b) ==
  CASE a = NA -> b
    [] b = NA -> a
    [] OTHER -> Mean(a, b)

\* Mutant of Score: the benign score counts what was blocked.
Score_BlockedBenign(S) ==
  LET attack == SecReqStats(S \ FalseCases)
      benign == SecReqStats(S \cap FalseCases)
      part(n, stats) ==
        IF ResolvedRequestsNumber(stats) = 0 THEN NA
        ELSE CalculatePercentage(n, ResolvedRequestsNumber(stats))
      truePositive == part(attack.blocked, attack)
      trueNegative == part(benign.blocked, benign)
      average == AverageOf(truePositive, trueNegative)
  IN [truePositive |-> truePositive, trueNegative |-> trueNegative,
      average |-> IF average # NA /\ attack.blocked = 0 THEN 0 ELSE average]

\* calculateScorePercentage: an average of 0 when no attack was blocked,
\* whatever the benign requests did.
Score(S) ==
  LET attack == SecReqStats(S \ FalseCases)
      benign == SecReqStats(S \cap FalseCases)
      part(n, stats) ==
        IF ResolvedRequestsNumber(stats) = 0 THEN NA
        ELSE CalculatePercentage(n, ResolvedRequestsNumber(stats))
      truePositive == part(attack.blocked, attack)
      trueNegative == part(benign.bypassed, benign)
      average == AverageOf(truePositive, trueNegative)
  IN [truePositive |-> truePositive, trueNegative |-> trueNegative,
      average |-> IF average # NA /\ attack.blocked = 0 THEN 0 ELSE average]

ScoreAverage == AverageOf(Score(ApiCases).average, Score(Cases \ ApiCases).average)

-----------------------------------------------------------------------------
(* Properties.                                                             *)

\* The row of a test case in the summary table shows as many blocked, bypassed,
\* unresolved and failed requests as the detail lists hold for that case: the
\* subtraction of the unresolved ones undoes what UpdateNaTests counted.
RowsAgreeWithLists ==
  \A c \in Cases :
    /\ SummaryTableRow(c).blocked = Listed(c).blocked
    /\ SummaryTableRow(c).bypassed = Listed(c).bypassed
    /\ SummaryTableRow(c).unresolved = Listed(c).unresolved
    /\ SummaryTableRow(c).failed = Listed(c).failed

\* The console, the JSON report and the CSV account for the same requests, each
\* leaving out what it leaves out: the column the console hides is empty by then,
\* the JSON lists miss only the blocked attacks and the benign requests let
\* through, and the CSV only the failed requests.
OutputsAccountForSent ==
  \A c \in Cases :
    LET row == SummaryTableRow(c)
    IN /\ ConsoleShows(c) = row.sent
       /\ JsonPayloads(c) = row.sent - (IF c \in FalseCases THEN row.bypassed ELSE row.blocked)
       /\ ExportPayloads(c) = row.sent - row.failed

\* The overall score is a percentage, and is not available exactly when no
\* request was resolved; it is full when every attack was blocked and every
\* benign request let through, wherever requests were resolved at all.
ScoreExtremes ==
  LET faultless(S) ==
        LET attack == SecReqStats(S \ FalseCases)
            benign == SecReqStats(S \cap FalseCases)
        IN /\ attack.bypassed = 0 /\ benign.blocked = 0
           /\ benign.bypassed > 0 => attack.blocked > 0
      average == ScoreAverage
  IN /\ average = NA <=>
           ResolvedRequestsNumber(ReqStats(AttackCases)) = 0
           /\ ResolvedRequestsNumber(ReqStats(FalseCases)) = 0
     /\ average # NA =>
           /\ average \in 0 .. 10000
           /\ faultless(ApiCases) /\ faultless(Cases \ ApiCases) => average = 10000

\* Recording one more request moves the overall score the way its verdict says:
\* a blocked attack never lowers it; a bypassed attack and a blocked benign
\* request, which is what the flags make of an unresolved one, never raise it;
\* a failed request, or an unresolved one without the flags, leaves it alone.
\* Nothing is said of a benign request let through: see the README.
ScoreFollowsVerdicts ==
  [][LET before == ScoreAverage
         after == ScoreAverage'
     IN \A c \in Cases :
       /\ blockedTests'[c] > blockedTests[c] /\ isTruePositive(c) => after >= before
       /\ before # NA =>
            /\ \/ passedTests'[c] > passedTests[c] /\ isTruePositive(c)
               \/ blockedTests'[c] > blockedTests[c] /\ ~isTruePositive(c)
               \/ naTests'[c] > naTests[c]
                 => after <= before
            /\ \/ failedTests'[c] > failedTests[c]
               \/ naTests'[c] > naTests[c] /\ ListedAs(c) = "unresolved"
                 => after = before
    ]_dbVars
=============================================================================
