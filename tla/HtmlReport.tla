----------------------------- MODULE HtmlReport -----------------------------
(***************************************************************************)
(* The data of the HTML and PDF reports, prepareHTMLFullReport: the grades *)
(* of the scores, the summary of every test set and the radar charts, all  *)
(* of them made once more from the statistics.                             *)
(*                                                                         *)
(* The two availability flags are one here: both pre-checks have run when  *)
(* the report is made, and CheckGraphQLAvailability writes its answer to   *)
(* both.  So requests of gRPC tests may be recorded while the flag says    *)
(* that there is no gRPC.                                                  *)
(***************************************************************************)
EXTENDS Statistics

CONSTANTS
  TestSet,        \* the set of a test case
  Type,           \* and its type
  LongScan,       \* bound: requests of the scans that start long
  LongScanCases   \* bound: the test cases of those scans

ASSUME TestSetAssumption ==
  \A c, d \in Cases : TestSet[c] = TestSet[d] =>
    /\ c \in FalseCases <=> d \in FalseCases
    /\ c \in ApiCases <=> d \in ApiCases

ASSUME LongScanAssumption == LongScan \in Nat /\ LongScanCases \subseteq Cases

VARIABLE isGraphQLAvailable   \* the answer of the pre-check, fixed

htmlVars == <<dbVars, isGraphQLAvailable>>

\* The database of a scan of one attack case, far along: fine steps of the score
\* take many requests.
LongScanDB ==
  \E c \in LongScanCases \ FalseCases, n \in 0 .. LongScan :
    /\ counters = [d \in Cases |-> IF d = c THEN [passed |-> LongScan - n, blocked |-> n, failed |-> 0]
                                   ELSE [passed |-> 0, blocked |-> 0, failed |-> 0]]
    /\ passedTests = [Zero EXCEPT ![c] = LongScan - n]
    /\ blockedTests = [Zero EXCEPT ![c] = n]
    /\ naTests = Zero /\ failedTests = Zero
    /\ scannedPaths = {}

HtmlInit ==
  /\ \/ Init
     \/ /\ ignoreUnresolved \in BOOLEAN
        /\ nonBlockedAsPassed \in BOOLEAN
        /\ LongScanDB
  /\ isGraphQLAvailable \in BOOLEAN

\* The paths are copied as they are: no scan records one here.
HtmlNext ==
  /\ Recorded < MaxRecorded /\ \E c \in Cases : Update(c)
  /\ UNCHANGED isGraphQLAvailable

HtmlSpec == HtmlInit /\ [][HtmlNext]_htmlVars

-----------------------------------------------------------------------------
(* Grades.                                                                 *)

\* The least percentages of the marks above F, from D- to A+.
Thresholds ==
  {6000, 6300, 6700, 7000, 7300, 7700, 8000, 8300, 8700, 9000, 9300, 9700}

\* The mark as its rank: F is 0, A+ is 12.
MarkOf(percentage) == Cardinality({t \in Thresholds : t <= percentage})

NoGrade == [percentage |-> 0, mark |-> -1]

\* Mutant of getGrade: whatever is below ten percent is taken for a fraction.
getGrade_BelowTen(grade) ==
  LET percentage == IF grade <= 1000 THEN grade * 100 ELSE grade
  IN  [percentage |-> percentage, mark |-> MarkOf(percentage)]

\* A grade of at most 1 is taken for a fraction.
getGrade(grade) ==
  LET percentage == IF grade <= 100 THEN grade * 100 ELSE grade
  IN  [percentage |-> percentage, mark |-> MarkOf(percentage)]

\* The sectors' grades: the score is shown as N/A where there is none.
SectorGrade(score) == IF score < 0 THEN NoGrade ELSE getGrade(score)

Sectors == {ApiCases, Cases \ ApiCases}

\* The grades of the report with the scores they are made from; the overall one
\* is graded in any case.
Grades ==
  {[score |-> Score(S)[part], grade |-> SectorGrade(Score(S)[part])] :
     S \in Sectors, part \in {"truePositive", "trueNegative", "average"}}
  \cup {[score |-> ScoreAverage, grade |-> getGrade(ScoreAverage)]}

-----------------------------------------------------------------------------
(* The summary of a test set: the rows of its cases, added up.             *)

CasesOf(set) == {c \in Cases : TestSet[c] = set}

Resolved(c) == LET row == SummaryTableRow(c) IN row.blocked + row.bypassed

RowPercentage(c) ==
  LET row == SummaryTableRow(c)
  IN  CalculatePercentage(IF c \in FalseCases THEN row.bypassed ELSE row.blocked,
                          Resolved(c))

\* Mutant of TestSetSummary: the cases without resolved requests are averaged in.
TestSetSummary_AllCases(set) ==
  LET rows == [c \in Cases |-> SummaryTableRow(c)]
      total == SumOver([c \in Cases |-> RowPercentage(c)], CasesOf(set))
      n == Cardinality(CasesOf(set))
  IN  [sums |-> [col \in {"sent", "blocked", "bypassed", "unresolved", "failed"} |->
                   SumOver([c \in Cases |-> rows[c][col]], CasesOf(set))],
       percentage |-> IF n = 0 THEN 0 ELSE (2 * total + n) \div (2 * n)]

\* Round(NaN), the mean of no rows, is 0.
TestSetSummary(set) ==
  LET rows == [c \in Cases |-> SummaryTableRow(c)]
      resolved == {c \in CasesOf(set) : Resolved(c) # 0}
      total == SumOver([c \in Cases |-> RowPercentage(c)], resolved)
      n == Cardinality(resolved)
  IN  [sums |-> [col \in {"sent", "blocked", "bypassed", "unresolved", "failed"} |->
                   SumOver([c \in Cases |-> rows[c][col]], CasesOf(set))],
       percentage |-> IF n = 0 THEN 0 ELSE (2 * total + n) \div (2 * n)]

-----------------------------------------------------------------------------
(* The charts.                                                             *)

\* updateCounters: the attack requests of a sector by type.
ChartCounters(S) ==
  LET shown == {c \in S \ FalseCases : Listed(c).blocked + Listed(c).bypassed > 0}
      sum(t, list) == SumOver([c \in Cases |-> Listed(c)[list]],
                              {c \in shown : Type[c] = t})
  IN  [t \in {Type[c] : c \in shown} |->
         [blocked |-> sum(t, "blocked"), bypassed |-> sum(t, "bypassed")]]

\* The protocols of the API sector that the report shows as unavailable.
Unavailable(S) ==
  IF S = ApiCases /\ ~isGraphQLAvailable THEN {"grpc", "graphql"} ELSE {}

\* Mutant of generateChartData: the zero is added whether or not the protocol is
\* available.
generateChartData_AlwaysZero(S) ==
  LET counted == ChartCounters(S)
      zeros == IF counted = <<>> THEN {} ELSE {"grpc", "graphql"}
  IN  [t \in DOMAIN counted \cup zeros |->
         IF t \in zeros THEN 0
         ELSE CalculatePercentage(counted[t].blocked,
                                  counted[t].blocked + counted[t].bypassed)]

\* The items of a sector's chart, by type; a chart with any item gets one for
\* each unavailable protocol, and its value is 0.
generateChartData(S) ==
  LET counted == ChartCounters(S)
      zeros == IF counted = <<>> THEN {} ELSE Unavailable(S)
  IN  [t \in DOMAIN counted \cup zeros |->
         IF t \in zeros THEN 0
         ELSE CalculatePercentage(counted[t].blocked,
                                  counted[t].blocked + counted[t].bypassed)]

-----------------------------------------------------------------------------
(* Properties.                                                             *)

\* Of any two scores in the report the higher one has the better mark or the
\* same, and the percentage beside a mark is the score.  Two values are graded
\* otherwise: a score in (0, 1] percent is taken for a fraction, and graded as
\* if it were a hundred times as high; an overall score that is not available
\* is shown as minus a hundred percent, although the sectors' are shown as N/A.
GradesFollowScores ==
  LET proper(g) == g.score = 0 \/ g.score > 100
      grades == Grades
  IN  /\ \A g \in grades : proper(g) => g.grade.percentage = g.score
      /\ \A g, h \in grades :
           proper(g) /\ proper(h) /\ g.score <= h.score => g.grade.mark <= h.grade.mark
      /\ \A g \in grades :
           g.grade.percentage < 0 =>
             g.score = NA /\ \A h \in grades : h.grade \in {g.grade, NoGrade}

\* The summaries of the test sets share out the totals of their table, and the
\* percentage of a set is between the lowest and the highest among its cases
\* that had a request resolved.
SetsShareOutTotals ==
  LET sets == {TestSet[c] : c \in Cases}
      summary == [s \in sets |-> TestSetSummary(s)]
  IN  /\ \A S \in {AttackCases, FalseCases} : \A col \in DOMAIN ReqStats(S) :
           ReqStats(S)[col] =
             SumOver([s \in sets |-> summary[s].sums[col]], {TestSet[c] : c \in S})
      /\ \A s \in sets :
           LET resolved == {c \in CasesOf(s) : Resolved(c) # 0}
           IN  IF resolved = {} THEN summary[s].percentage = 0
               ELSE \E lowest, highest \in resolved :
                      RowPercentage(lowest) <= summary[s].percentage
                      /\ summary[s].percentage <= RowPercentage(highest)

\* A sector has a chart exactly when it has a score for its attacks, and that
\* score is between the lowest and the highest item of the chart, unless the
\* chart shows a protocol as unavailable that requests were recorded for.
ChartAgreesWithScore ==
  \A S \in Sectors :
    LET items == generateChartData(S)
        sent == {Type[c] : c \in {d \in S \ FalseCases : Resolved(d) > 0}}
        score == Score(S).truePositive
    IN  /\ (items = <<>>) <=> (score = NA)
        /\ score # NA /\ sent \cap Unavailable(S) = {} =>
             /\ \E t \in sent : items[t] <= score
             /\ \E t \in sent : score <= items[t]
=============================================================================
