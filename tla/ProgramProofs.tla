--------------------------- MODULE ProgramProofs ---------------------------
(***************************************************************************)
(* The safety properties of Program, for any endpoints, answers of the     *)
(* target and number of tests.  Each part of the program keeps an          *)
(* invariant of its own; the theorems follow from them.                    *)
(***************************************************************************)
EXTENDS Program, TLAPS

-----------------------------------------------------------------------------
(* The closer of Run and the result of the scan.                           *)

\* SIGUSR1 is delivered at most as long as the channel is open: the closer stops
\* the delivery first.
CloserInv ==
  /\ ~panicked
  /\ registered => runPc = "scan"
  /\ channelClosed => runPc = "returned"

\* An error of nil is that of a run that has counted all tests, and main goes on
\* to the report with no other.
RunInv ==
  /\ runErr = "nil" => runPc # "scan" /\ requestsCounter = NumTests
  /\ mainPc = "report" => runErr = "nil"

LEMMA CloserStep ==
  ASSUME CloserInv, [Next]_vars
  PROVE  CloserInv'
<1> USE DEF CloserInv
<1>1. CASE UNCHANGED scanVars
  BY <1>1 DEF scanVars
<1>2. CASE RunReturns
  BY <1>2 DEF RunReturns, Scan!SignalStop, Scan!CloseChannel
<1>3. CASE Listener
  BY <1>3 DEF Listener, Scan!Listener, Scan!Receive, Scan!Log, Scan!ListenerReturns
<1>4. CASE Reporting
  BY <1>4 DEF Reporting
<1>5. CASE Signal
  BY <1>5 DEF Signal, Scan!Signal
<1>6. CASE Count
  BY <1>6 DEF Count, Scan!Count
<1>7. CASE Interrupt
  BY <1>7 DEF Interrupt, Scan!Cancel
<1> QED BY <1>1, <1>2, <1>3, <1>4, <1>5, <1>6, <1>7
        DEF Next, PreCheck, MainGoesOn, Terminated, vars

LEMMA RunStep ==
  ASSUME RunInv, [Next]_vars
  PROVE  RunInv'
<1> USE DEF RunInv
<1>1. CASE UNCHANGED <<scanVars, mainVars>>
  BY <1>1 DEF scanVars, mainVars
<1>2. CASE RunReturns
  BY <1>2 DEF RunReturns, Running, Scan!SignalStop, Scan!CloseChannel
<1>3. CASE Listener
  BY <1>3 DEF Listener, Scan!Listener, Scan!Receive, Scan!Log, Scan!ListenerReturns, mainVars
<1>4. CASE MainGoesOn
  BY <1>4 DEF MainGoesOn, scanVars
<1>5. CASE Reporting
  BY <1>5 DEF Reporting, mainVars
<1>6. CASE Signal
  BY <1>6 DEF Signal, Scan!Signal, mainVars
<1>7. CASE Count
  BY <1>7 DEF Count, Scan!Count, mainVars
<1>8. CASE Interrupt
  BY <1>8 DEF Interrupt, Scan!Cancel, mainVars
<1> QED BY <1>1, <1>2, <1>3, <1>4, <1>5, <1>6, <1>7, <1>8
        DEF Next, PreCheck, Terminated, vars

\* No SIGUSR1 finds the listener's channel closed, however late it comes.
THEOREM NoPanicOfHandler == Spec => []NoSendOnClosed
<1>1. Init => CloserInv
  BY DEF Init, Scan!Init, CloserInv
<1>2. CloserInv /\ [Next]_vars => CloserInv'
  BY CloserStep
<1>3. CloserInv => NoSendOnClosed
  BY DEF CloserInv, NoSendOnClosed, Scan!NoSendOnClosed
<1> QED BY <1>1, <1>2, <1>3, PTL DEF Spec

\* A report is only written of a scan that has counted all of its tests.
THEOREM ReportedScanIsComplete == Spec => []ReportOfCompleteScan
<1>1. Init => RunInv
  BY DEF Init, RunInv
<1>2. RunInv /\ [Next]_vars => RunInv'
  BY RunStep
<1>3. RunInv => ReportOfCompleteScan
  BY DEF RunInv, ReportOfCompleteScan
<1> QED BY <1>1, <1>2, <1>3, PTL DEF Spec

-----------------------------------------------------------------------------
(* The pre-checks.                                                         *)

SeenToBlock ==
  \/ cfg.skipWAFBlockCheck
  \/ attack = "blocked"
  \/ attack = "reset" /\ cfg.blockConnReset /\ benign = "notBlocked"

\* What each request of the pre-checks is made for: main asks for gRPC and GraphQL
\* only once the target was seen to block, and sends the benign request after a
\* reset only.
BlockInv ==
  /\ stage \in {"grpc", "grpcHealth", "graphql", "run"} => SeenToBlock
  /\ stage = "benign" => attack = "reset" /\ cfg.blockConnReset

LEMMA BlockStep ==
  ASSUME BlockInv, [Next]_vars
  PROVE  BlockInv'
<1> USE DEF BlockInv, SeenToBlock
<1>1. CASE UNCHANGED preVars
  BY <1>1 DEF preVars
<1>2. CASE Pre!DoRequest \/ Pre!DoMaliciousRequest
  BY <1>2 DEF Pre!DoRequest, Pre!DoMaliciousRequest, Pre!blockVars
<1>3. CASE Pre!CheckIfJavaScriptRequired
  BY <1>3 DEF Pre!CheckIfJavaScriptRequired, Pre!AfterJavaScript, Pre!wafVars, Pre!blockVars
<1>4. CASE Pre!WAFBlockCheck
  BY <1>4 DEF Pre!WAFBlockCheck
<1>5. CASE Pre!BenignPreCheck
  BY <1>5 DEF Pre!BenignPreCheck
<1>6. CASE Pre!GrpcNotConfigured \/ Pre!GrpcHTTPTest \/ Pre!GrpcHealthCheckTest
  BY <1>6 DEF Pre!GrpcNotConfigured, Pre!GrpcHTTPTest, Pre!GrpcHealthCheckTest,
     Pre!GrpcChecked, Pre!wafVars, Pre!blockVars
<1>7. CASE Pre!TryEndpoint
  BY <1>7 DEF Pre!TryEndpoint, Pre!TriesNext, Pre!GraphQLChecked, Pre!wafVars, Pre!blockVars
<1> QED BY <1>1, <1>2, <1>3, <1>4, <1>5, <1>6, <1>7
        DEF Next, PreCheck, Pre!Next, Pre!Done, Pre!vars, RunReturns, Listener,
            MainGoesOn, Reporting, Signal, Count, Interrupt, Terminated, vars

\* A scan only starts against a target that was seen to block.
THEOREM ScannedTargetBlocks == Spec => []ScanOnlyIfBlocked
<1>1. Init => BlockInv
  BY DEF Init, Pre!Init, BlockInv
<1>2. BlockInv /\ [Next]_vars => BlockInv'
  BY BlockStep
<1>3. BlockInv => ScanOnlyIfBlocked
  BY DEF BlockInv, SeenToBlock, ScanOnlyIfBlocked, Pre!ScanOnlyIfBlocked
<1> QED BY <1>1, <1>2, <1>3, PTL DEF Spec

LEMMA GraphQLStep ==
  ASSUME GraphQLAsReported, [Next]_vars
  PROVE  GraphQLAsReported'
<1> USE DEF GraphQLAsReported, Pre!GraphQLAsReported, Pre!endpointsToCheck, Pre!Given
<1>1. CASE UNCHANGED preVars
  BY <1>1 DEF preVars
<1>2. CASE stage' # "run"
  BY <1>2
<1>3. CASE Pre!TryEndpoint /\ stage' = "run"
  BY <1>3 DEF Pre!TryEndpoint, Pre!TriesNext, Pre!GraphQLChecked
<1>4. Pre!Next => Pre!TryEndpoint \/ Pre!Done \/ stage' # "run"
  BY DEF Pre!Next, Pre!DoRequest, Pre!DoMaliciousRequest, Pre!CheckIfJavaScriptRequired,
     Pre!AfterJavaScript, Pre!WAFBlockCheck, Pre!BenignPreCheck, Pre!GrpcNotConfigured,
     Pre!GrpcHTTPTest, Pre!GrpcHealthCheckTest, Pre!GrpcChecked
<1>5. CASE PreCheck
  BY <1>2, <1>3, <1>4, <1>5 DEF PreCheck, Pre!Done
<1> QED BY <1>1, <1>5
        DEF Next, RunReturns, Listener, MainGoesOn, Reporting, Signal, Count,
            Interrupt, Terminated, vars

\* The report says of GraphQL what the scan did with its tests.
THEOREM GraphQLIsReported == Spec => []GraphQLAsReported
<1>1. Init => GraphQLAsReported
  BY DEF Init, Pre!Init, GraphQLAsReported, Pre!GraphQLAsReported
<1>2. GraphQLAsReported /\ [Next]_vars => GraphQLAsReported'
  BY GraphQLStep
<1> QED BY <1>1, <1>2, PTL DEF Spec

-----------------------------------------------------------------------------
(* The identified WAF.                                                     *)

LEMMA SmallestDetector ==
  ASSUME NEW S, S \subseteq DOMAIN Pre!Detectors, S # {}
  PROVE  Pre!Min(S) \in S
<1>1. S \subseteq 1 .. 9
  BY DEF Pre!Detectors
<1>2. \E x \in S : \A y \in S : x =< y
  <2>1. CASE S \cap 1 .. 3 # {}
    BY <1>1, <2>1
  <2>2. CASE S \cap 1 .. 3 = {} /\ S \cap 4 .. 6 # {}
    BY <1>1, <2>2
  <2>3. CASE S \cap 1 .. 6 = {}
    BY <1>1, <2>3
  <2> QED BY <2>1, <2>2, <2>3
<1> QED BY <1>2 DEF Pre!Min

\* An answer without a mark is as good as none.
LEMMA PlainAnswerWithoutMark ==
  ASSUME NEW disjuncts, NEW answer,
         Pre!Holds(disjuncts, [resp |-> {{}}, respToAttack |-> {answer}])
  PROVE  Pre!Holds(disjuncts, [resp |-> {}, respToAttack |-> {answer}])
BY DEF Pre!Holds, Pre!Matches

\* The page a WAF was identified by alone is blocked when the scan meets it.
THEOREM IdentifiedPage == Spec => []IdentifiedPageIsBlocked
<1>1. IdentifiedPageIsBlocked
  <2>1. SUFFICES ASSUME waf # Pre!Unknown, Pre!DetectWAF({}, attackAnswer) = waf
                 PROVE  Pre!CheckBlockFunc(waf, attackAnswer)
    BY DEF IdentifiedPageIsBlocked, Pre!IdentifiedPageIsBlocked, Pre!Blocked
  <2> DEFINE resps == [resp |-> {{}}, respToAttack |-> {attackAnswer}]
             positive == {d \in DOMAIN Pre!Detectors :
                            Pre!Holds(Pre!Detectors[d].check, resps)}
  <2>2. positive # {} /\ waf = Pre!Min(positive)
    BY <2>1 DEF Pre!DetectWAF
  <2> HIDE DEF resps
  <2>3. waf \in positive
    BY <2>2, SmallestDetector
  <2>4. Pre!Holds(Pre!Detectors[waf].check, resps)
    BY <2>3
  <2> QED BY <2>1, <2>4, PlainAnswerWithoutMark DEF Pre!CheckBlockFunc, resps
<1> QED BY <1>1, PTL

-----------------------------------------------------------------------------
(* The report.                                                             *)

\* What an exported format leaves on disk.
Exported(f) ==
  /\ f \in Rep!Formats
  /\ file[f] = "full" \/ (fellShort /\ f # "json" /\ file[f] = "partial")

\* The loop of ExportFullReport: nextFormat is at a format as long as it lasts,
ExportTypes ==
  /\ options \in Rep!Options
  /\ nextFormat \in Nat \ {0}
  /\ file \in [Rep!Formats \cup {"csv"} -> Rep!Contents]
  /\ temp \in [{"html", "pdf"} -> Rep!Contents]
  /\ reportPc \in {"mkdir", "console", "askPayloads", "export", "temp"} =>
       nextFormat \in 1 .. Len(options.formats)

\* what is behind it is exported,
BehindInv ==
  reportPc # "failed" =>
    \A i \in 1 .. Len(options.formats) : i < nextFormat => Exported(options.formats[i])

\* what was not asked for is not there,
AbsentInv == \A f \in Rep!Formats \ Rep!Requested : file[f] = "absent"

\* the temporary file is there when it is moved or rendered,
TempInv ==
  reportPc = "temp" =>
    \A f \in {"html", "pdf"} :
      Rep!Exporting(f) => temp[f] = "full" \/ (temp[f] = "partial" /\ fellShort)

\* and the HTML one only from its creation to its move.
HtmlInv ==
  reportPc # "failed" =>
    temp["html"] = "absent" \/ (reportPc = "temp" /\ Rep!Exporting("html"))

ExportInv == ExportTypes /\ BehindInv /\ AbsentInv /\ TempInv /\ HtmlInv

\* After the loop everything is exported; main asks for an address when there is
\* none, and mails nothing with --noEmailReport.
MailInv ==
  /\ reportPc \in {"csv", "askEmail", "email"} => nextFormat > Len(options.formats)
  /\ reportPc = "askEmail" => ~options.email
  /\ reportPc \in {"askEmail", "email"} => ~options.noEmailReport
  /\ emailSent => reportPc \in {"done", "failed"}

ReportInv ==
  ExportInv /\ MailInv /\ SuccessMeansExported /\ EmailOfExportedReport

LEMMA FormatsAreASequence ==
  ASSUME options \in Rep!Options
  PROVE  /\ Len(options.formats) \in 1 .. 3
         /\ DOMAIN options.formats = 1 .. Len(options.formats)
         /\ "none" \in Rep!Range(options.formats) => Len(options.formats) = 1
<1>1. PICK n \in 1 .. 3 : options.formats \in [1 .. n -> Rep!Formats \cup {"none"}]
  BY DEF Rep!Options, Rep!AcceptedFormats
<1>2. Len(options.formats) = n
  BY <1>1
<1>3. options.formats \in Rep!AcceptedFormats
  BY DEF Rep!Options
<1> QED BY <1>1, <1>2, <1>3 DEF Rep!AcceptedFormats

\* The format a turn of the loop is for was asked for.
LEMMA ExportingIsRequested ==
  ASSUME ExportTypes, reportPc \in {"export", "temp"},
         NEW f \in Rep!Formats, Rep!Exporting(f)
  PROVE  f \in Rep!Requested
<1>1. DOMAIN options.formats = 1 .. Len(options.formats)
  BY FormatsAreASequence DEF ExportTypes
<1> QED BY <1>1 DEF ExportTypes, Rep!Exporting, Rep!Requested, Rep!Range, Rep!Formats

\* A format is exported and the loop goes on: what was behind stays exported.
LEMMA NextFormatStep ==
  ASSUME ExportTypes, BehindInv, reportPc \in {"export", "temp"},
         NEW f \in Rep!Formats, Rep!Exporting(f),
         options' = options, fellShort' = fellShort, Rep!NextFormat,
         \A g \in Rep!Formats \ {f} : file'[g] = file[g],
         Exported(f)'
  PROVE  BehindInv'
<1>1. Len(options.formats) \in 1 .. 3
  BY FormatsAreASequence DEF ExportTypes
<1>2. SUFFICES ASSUME NEW i \in 1 .. Len(options.formats), i < nextFormat + 1
               PROVE  Exported(options.formats[i])'
  BY DEF BehindInv, Rep!NextFormat
<1>3. CASE options.formats[i] = f
  BY <1>3
<1>4. CASE options.formats[i] # f
  BY <1>1, <1>2, <1>4 DEF BehindInv, Exported, Rep!Exporting, ExportTypes
<1> QED BY <1>3, <1>4

LEMMA ExportStep ==
  ASSUME ExportInv, Rep!Call \/ Rep!Prompt
  PROVE  ExportInv'
<1> USE DEF ExportInv, ExportTypes
<1> USE DEF Rep!Formats, Rep!Contents
<1>1. options' = options
  BY DEF Rep!Call, Rep!Prompt, Rep!MakeReportDir, Rep!RenderConsoleReport, Rep!PrintJson,
     Rep!ExportToTemp, Rep!FileMove, Rep!RenderToPDF, Rep!ExportPayloads,
     Rep!SendReportByEmail, Rep!AnswerPayloads, Rep!AnswerEmail
<1>2. Len(options.formats) \in 1 .. 3
  BY FormatsAreASequence
<1>3. Rep!Requested' = Rep!Requested
  BY <1>1 DEF Rep!Requested
<1>4. CASE \/ Rep!MakeReportDir \/ Rep!AnswerEmail \/ Rep!SendReportByEmail
           \/ Rep!RenderConsoleReport \/ Rep!AnswerPayloads
  BY <1>1, <1>3, <1>4
     DEF Rep!MakeReportDir, Rep!AnswerEmail, Rep!SendReportByEmail, Rep!AnswerPayloads,
         Rep!RenderConsoleReport, Rep!fileVars, BehindInv, AbsentInv, TempInv, HtmlInv,
         Exported, Rep!Exporting
<1>5. CASE Rep!PrintJson
  <2>1. "json" \in Rep!Requested
    BY <1>5, ExportingIsRequested DEF Rep!PrintJson
  <2>2. ExportTypes' /\ AbsentInv' /\ TempInv' /\ HtmlInv'
    BY <1>1, <1>2, <1>3, <1>5, <2>1
       DEF Rep!PrintJson, Rep!NextFormat, AbsentInv, TempInv, HtmlInv, Rep!Exporting
  <2>3. CASE reportPc' = "failed"
    BY <2>2, <2>3 DEF BehindInv
  <2>4. CASE reportPc' # "failed"
    <3>1. Rep!NextFormat /\ file' = [file EXCEPT !["json"] = "full"]
      BY <1>5, <2>4 DEF Rep!PrintJson
    <3>2. BehindInv'
      BY <1>1, <1>5, <3>1, NextFormatStep DEF Rep!PrintJson, Exported
    <3> QED BY <2>2, <3>2
  <2> QED BY <2>3, <2>4
<1>6. ASSUME NEW format \in {"html", "pdf"}, Rep!ExportToTemp(format)
      PROVE  ExportInv'
  <2>1. ExportTypes' /\ AbsentInv'
    BY <1>1, <1>3, <1>6 DEF Rep!ExportToTemp, AbsentInv
  <2>2. BehindInv'
    BY <1>1, <1>6 DEF Rep!ExportToTemp, BehindInv, Exported
  <2>3. TempInv' /\ HtmlInv'
    BY <1>1, <1>6 DEF Rep!ExportToTemp, TempInv, HtmlInv, Rep!Exporting
  <2> QED BY <2>1, <2>2, <2>3
<1>7. CASE Rep!FileMove
  <2>1. "html" \in Rep!Requested
    BY <1>7, ExportingIsRequested DEF Rep!FileMove
  <2>2. ExportTypes' /\ AbsentInv' /\ TempInv' /\ HtmlInv'
    BY <1>1, <1>2, <1>3, <1>7, <2>1
       DEF Rep!FileMove, Rep!NextFormat, AbsentInv, TempInv, HtmlInv, Rep!Exporting
  <2>3. CASE reportPc' = "failed"
    BY <2>2, <2>3 DEF BehindInv
  <2>4. CASE reportPc' # "failed"
    <3>1. Rep!NextFormat /\ file' = [file EXCEPT !["html"] = temp["html"]]
      BY <1>7, <2>4 DEF Rep!FileMove
    <3>2. BehindInv'
      BY <1>1, <1>7, <3>1, NextFormatStep DEF Rep!FileMove, Exported, TempInv
    <3> QED BY <2>2, <3>2
  <2> QED BY <2>3, <2>4
<1>8. CASE Rep!RenderToPDF
  <2>1. "pdf" \in Rep!Requested
    BY <1>8, ExportingIsRequested DEF Rep!RenderToPDF
  <2>2. ExportTypes' /\ AbsentInv' /\ TempInv' /\ HtmlInv'
    BY <1>1, <1>2, <1>3, <1>8, <2>1
       DEF Rep!RenderToPDF, Rep!NextFormat, AbsentInv, TempInv, HtmlInv, Rep!Exporting
  <2>3. CASE reportPc' = "failed"
    BY <2>2, <2>3 DEF BehindInv
  <2>4. CASE reportPc' # "failed"
    <3>1. Rep!NextFormat /\ file' = [file EXCEPT !["pdf"] = temp["pdf"]]
      BY <1>8, <2>4 DEF Rep!RenderToPDF
    <3>2. BehindInv'
      BY <1>1, <1>8, <3>1, NextFormatStep DEF Rep!RenderToPDF, Exported, TempInv
    <3> QED BY <2>2, <3>2
  <2> QED BY <2>3, <2>4
<1>9. CASE Rep!ExportPayloads
  <2>1. \A f \in Rep!Formats : file'[f] = file[f]
    BY <1>9 DEF Rep!ExportPayloads
  <2>2. ExportTypes' /\ AbsentInv' /\ TempInv' /\ HtmlInv'
    BY <1>1, <1>3, <1>9, <2>1 DEF Rep!ExportPayloads, AbsentInv, TempInv, HtmlInv
  <2>3. BehindInv'
    BY <1>1, <1>9, <2>1 DEF Rep!ExportPayloads, BehindInv, Exported
  <2> QED BY <2>2, <2>3
<1> QED BY <1>4, <1>5, <1>6, <1>7, <1>8, <1>9 DEF Rep!Call, Rep!Prompt

\* Past the loop every format that was asked for is on disk.
LEMMA AllExported ==
  ASSUME ExportTypes, BehindInv, reportPc # "failed", nextFormat > Len(options.formats)
  PROVE  \A f \in Rep!Requested : Exported(f)
<1>1. DOMAIN options.formats = 1 .. Len(options.formats)
  BY FormatsAreASequence DEF ExportTypes
<1> QED BY <1>1 DEF BehindInv, ExportTypes, Rep!Requested, Rep!Range

\* "none" is alone and asks for no format.
LEMMA NoneRequestsNothing ==
  ASSUME ExportTypes, Rep!IsNoneReportFormat
  PROVE  Rep!Requested = {}
<1>1. /\ DOMAIN options.formats = 1 .. Len(options.formats)
      /\ Len(options.formats) \in 1 .. 3
      /\ "none" \in Rep!Range(options.formats) => Len(options.formats) = 1
  BY FormatsAreASequence DEF ExportTypes
<1>2. "none" \in Rep!Range(options.formats)
  BY <1>1 DEF Rep!IsNoneReportFormat, Rep!Range
<1> QED BY <1>1, <1>2 DEF Rep!IsNoneReportFormat, Rep!Requested, Rep!Range

LEMMA MailStep ==
  ASSUME ReportInv, Rep!Call \/ Rep!Prompt, ExportInv'
  PROVE  MailInv' /\ SuccessMeansExported' /\ EmailOfExportedReport'
<1> USE DEF ReportInv, MailInv
<1> USE DEF SuccessMeansExported, EmailOfExportedReport, Rep!SuccessMeansExported,
            Rep!EmailOfExportedReport
<1>1. /\ options' = options
      /\ Rep!Requested' = Rep!Requested
      /\ Rep!IsNoneReportFormat' = Rep!IsNoneReportFormat
  BY DEF Rep!Call, Rep!Prompt, Rep!MakeReportDir, Rep!RenderConsoleReport, Rep!PrintJson,
     Rep!ExportToTemp, Rep!FileMove, Rep!RenderToPDF, Rep!ExportPayloads,
     Rep!SendReportByEmail, Rep!AnswerPayloads, Rep!AnswerEmail, Rep!Requested,
     Rep!IsNoneReportFormat
<1>2. CASE Rep!MakeReportDir \/ Rep!AnswerPayloads
  BY <1>1, <1>2 DEF Rep!MakeReportDir, Rep!AnswerPayloads
<1>3. CASE Rep!RenderConsoleReport
  <2>1. CASE Rep!IsNoneReportFormat
    BY <1>1, <1>3, <2>1, NoneRequestsNothing
       DEF Rep!RenderConsoleReport, Rep!fileVars, ExportInv, AbsentInv, HtmlInv
  <2>2. CASE ~Rep!IsNoneReportFormat
    BY <1>1, <1>3, <2>2 DEF Rep!RenderConsoleReport
  <2> QED BY <2>1, <2>2
<1>4. CASE Rep!PrintJson \/ Rep!FileMove \/ Rep!RenderToPDF
  <2>1. /\ reportPc' \in {"export", "csv", "failed"}
        /\ reportPc' = "csv" => nextFormat' = nextFormat + 1 /\ nextFormat = Len(options.formats)
        /\ reportPc \notin {"done", "failed"} /\ emailSent' = emailSent
    BY <1>4 DEF Rep!PrintJson, Rep!FileMove, Rep!RenderToPDF, Rep!NextFormat
  <2> QED BY <1>1, <2>1, FormatsAreASequence DEF ExportInv, ExportTypes
<1>5. CASE \E format \in {"html", "pdf"} : Rep!ExportToTemp(format)
  BY <1>1, <1>5 DEF Rep!ExportToTemp
<1>6. CASE Rep!ExportPayloads
  <2>1. \A f \in Rep!Formats : file'[f] = file[f]
    BY <1>6 DEF Rep!ExportPayloads, Rep!Formats, ExportInv, ExportTypes
  <2>2. \A f \in Rep!Requested : Exported(f)
    BY <1>6, AllExported DEF Rep!ExportPayloads, ExportInv
  <2>3. reportPc' = "done" => Rep!SuccessMeansExported'
    BY <1>1, <1>6, <2>1, <2>2
       DEF Rep!ExportPayloads, Exported, ExportInv, AbsentInv, HtmlInv
  <2> QED BY <1>1, <1>6, <2>3 DEF Rep!ExportPayloads
<1>7. CASE Rep!AnswerEmail
  <2>1. \A f \in Rep!Requested : Exported(f)
    BY <1>7, AllExported DEF Rep!AnswerEmail, ExportInv
  <2> QED BY <1>1, <1>7, <2>1
          DEF Rep!AnswerEmail, Rep!fileVars, Exported, ExportInv, AbsentInv, HtmlInv
<1>8. CASE Rep!SendReportByEmail
  <2>1. \A f \in Rep!Requested : Exported(f)
    BY <1>8, AllExported DEF Rep!SendReportByEmail, ExportInv
  <2> QED BY <1>1, <1>8, <2>1
          DEF Rep!SendReportByEmail, Rep!fileVars, Exported, ExportInv, AbsentInv, HtmlInv
<1> QED BY <1>2, <1>3, <1>4, <1>5, <1>6, <1>7, <1>8 DEF Rep!Call, Rep!Prompt

\* No other step of the program is one of the report's.
LEMMA ReportStep ==
  ASSUME ReportInv, [Next]_vars
  PROVE  ReportInv'
<1>1. CASE UNCHANGED reportVars
  BY <1>1 DEF reportVars, ReportInv, ExportInv, ExportTypes, BehindInv, AbsentInv, TempInv,
     HtmlInv, MailInv, Exported, Rep!Exporting, Rep!Requested, SuccessMeansExported,
     EmailOfExportedReport, Rep!SuccessMeansExported, Rep!EmailOfExportedReport,
     Rep!IsNoneReportFormat
<1>2. CASE Reporting
  BY <1>2, ExportStep, MailStep DEF Reporting, ReportInv
<1> QED BY <1>1, <1>2 DEF Next, PreCheck, RunReturns, Listener, MainGoesOn, Signal,
        Count, Interrupt, Terminated, vars

LEMMA ReportInvariant == Spec => []ReportInv
<1>1. Init => ReportInv
  <2> SUFFICES ASSUME Init PROVE ReportInv
    OBVIOUS
  <2>1. Len(options.formats) \in 1 .. 3
    BY FormatsAreASequence DEF Init, Rep!Init
  <2> QED BY <2>1 DEF Init, Rep!Init, ReportInv, ExportInv, ExportTypes, BehindInv, AbsentInv,
          TempInv, HtmlInv, MailInv, Rep!Formats, Rep!Contents, SuccessMeansExported,
          EmailOfExportedReport, Rep!SuccessMeansExported, Rep!EmailOfExportedReport
<1>2. ReportInv /\ [Next]_vars => ReportInv'
  BY ReportStep
<1> QED BY <1>1, <1>2, PTL DEF Spec

\* An exit code of 0 means reports on disk and, if it was asked for, sent.
THEOREM SuccessIsExported == Spec => []SuccessMeansExported
<1>1. ReportInv => SuccessMeansExported
  BY DEF ReportInv
<1> QED BY <1>1, ReportInvariant, PTL

\* Only what is on disk is mailed, and nothing with --noEmailReport.
THEOREM MailedIsExported == Spec => []EmailOfExportedReport
<1>1. ReportInv => EmailOfExportedReport
  BY DEF ReportInv
<1> QED BY <1>1, ReportInvariant, PTL
=============================================================================
