------------------------------ MODULE Program ------------------------------
(***************************************************************************)
(* main.run from the pre-checks to the exit code: the pre-checks of the    *)
(* target (Prechecks), then Scanner.Run seen through its status handler    *)
(* (StatusHandler), then the report (Report), and SIGINT or SIGTERM at any *)
(* moment.  The scan itself is reduced to the counter; ScanPool and        *)
(* Scanner say what moves it.                                              *)
(***************************************************************************)
EXTENDS Naturals, Sequences

CONSTANTS
  Endpoints, Answers,     \* as in Prechecks
  NumTests        \* as in StatusHandler

ASSUME EndpointsAssumption == Endpoints \in Seq(STRING) /\ Endpoints # <<>>
ASSUME NumTestsAssumption == NumTests \in Nat

VARIABLES
  cfg, stage, plainAnswer, attackAnswer, waf, attack, benign, isAvailable,
  isGraphQLAvailable, graphqlUrl, tried, IsGrpcAvailable, IsGraphQLAvailable,
  registered, userSignal, channelClosed, goroutine, requestsCounter,
  canceled, runPc, panicked,
  options, reportPc, nextFormat, file, temp, fellShort, emailSent,
  runErr,         \* what Run returns: "none" before
  mainPc          \* "run" until Run has returned, then "report" or "exit"

Pre == INSTANCE Prechecks
Scan == INSTANCE StatusHandler
Rep == INSTANCE Report

preVars == <<cfg, stage, plainAnswer, attackAnswer, waf, attack, benign,
             isAvailable, isGraphQLAvailable, graphqlUrl, tried, IsGrpcAvailable,
             IsGraphQLAvailable>>
scanVars == <<registered, userSignal, channelClosed, goroutine, requestsCounter,
              canceled, runPc, panicked>>
reportVars == <<options, reportPc, nextFormat, file, temp, fellShort, emailSent>>
mainVars == <<runErr, mainPc>>
vars == <<preVars, scanVars, reportVars, mainVars>>

Init ==
  /\ Pre!Init
  /\ Scan!Init
  /\ Rep!Init
  /\ runErr = "none"
  /\ mainPc = "run"

\* The process exits, with code 0 if the report is done.
Ended == stage = "exit" \/ mainPc = "exit" \/ Rep!Ended

\* A request made with a cancelled context is an error.  The call of the health
\* check ends with a status then, which is taken for an answer.
RequestFails ==
  CASE stage \in {"identify", "identifyAttack"} -> stage' = "exit"
    [] stage = "javascript" -> cfg.chrome \/ stage' = "exit"
    [] stage = "wafBlock" -> attack' = "error"
    [] stage = "benign" -> benign' = "error"
    [] stage = "grpc" -> ~isAvailable'
    [] stage = "grpcHealth" -> TRUE
    [] stage = "graphql" -> ~isGraphQLAvailable' /\ stage' = "run"

PreCheck ==
  /\ stage \notin {"run", "exit"}
  /\ Pre!Next
  /\ canceled => RequestFails
  /\ UNCHANGED <<scanVars, reportVars, mainVars>>

Running == stage = "run" /\ mainPc = "run"

\* The context is looked at, and the deferred closer runs in two steps.
RunReturns ==
  /\ Running
  /\ \/ Scan!SignalStop /\ runErr' = IF canceled THEN "canceled" ELSE "nil"
     \/ Scan!CloseChannel /\ UNCHANGED runErr
  /\ UNCHANGED <<preVars, reportVars, mainPc>>

Listener ==
  /\ stage = "run"
  /\ Scan!Listener
  /\ UNCHANGED <<preVars, reportVars, mainVars>>

\* Mutant of MainGoesOn: the error of Run is logged and a report is written.
MainGoesOn_IgnoresError ==
  /\ Running
  /\ runPc = "returned"
  /\ mainPc' = "report"
  /\ UNCHANGED <<preVars, scanVars, reportVars, runErr>>

\* if err != nil after s.Run
MainGoesOn ==
  /\ Running
  /\ runPc = "returned"
  /\ mainPc' = IF runErr = "nil" THEN "report" ELSE "exit"
  /\ UNCHANGED <<preVars, scanVars, reportVars, runErr>>

\* What follows a complete scan; the listener may still be about to end.
Reporting ==
  /\ mainPc = "report"
  /\ Rep!Call \/ Rep!Prompt
  /\ UNCHANGED <<preVars, registered, userSignal, channelClosed, goroutine,
                 requestsCounter, runPc, panicked, mainVars>>

\* SIGUSR1 while the scan runs.
Signal ==
  /\ stage = "run"
  /\ Scan!Signal
  /\ UNCHANGED <<preVars, reportVars, mainVars>>

\* A test is counted.
Count ==
  /\ Running
  /\ Scan!Count
  /\ UNCHANGED <<preVars, reportVars, mainVars>>

\* The first SIGINT or SIGTERM.
Interrupt ==
  /\ ~Ended
  /\ Scan!Cancel
  /\ UNCHANGED <<preVars, reportVars, mainVars>>

Terminated == Ended /\ UNCHANGED vars

Next ==
  \/ /\ ~panicked
     /\ \/ PreCheck
        \/ RunReturns
        \/ Listener
        \/ MainGoesOn
        \/ Reporting
        \/ Signal
        \/ Count
        \/ Interrupt
  \/ Terminated

Spec == Init /\ [][Next]_vars

\* Goroutines that can run do.  A pre-check ends when the server answers, which
\* nothing promises, or when the context is done; a scan that is cancelled lets
\* Run return (CancelStopsRun of ScanPool); the calls of the report that wait
\* for others take the context.  Nobody has to answer a prompt.
Fairness ==
  /\ WF_vars(canceled /\ PreCheck)
  /\ WF_vars(RunReturns \/ MainGoesOn)
  /\ WF_vars(Listener)
  /\ WF_vars(canceled /\ Reporting /\ ~Rep!AtPrompt)

FairSpec == Spec /\ Fairness

-----------------------------------------------------------------------------

\* A scan only starts against a target that was seen to block.
ScanOnlyIfBlocked == Pre!ScanOnlyIfBlocked

\* The page a WAF was identified by is blocked when the scan meets it again.
IdentifiedPageIsBlocked == Pre!IdentifiedPageIsBlocked

\* The report says of GraphQL what the scan did with its tests.
GraphQLAsReported == Pre!GraphQLAsReported

\* No SIGUSR1 finds the listener's channel closed, however late it comes.
NoSendOnClosed == Scan!NoSendOnClosed

\* A report is only written of a scan that was not interrupted and counted all
\* of its tests, wherever the interruption came.
ReportOfCompleteScan ==
  mainPc = "report" => runErr = "nil" /\ requestsCounter = NumTests

\* Once Run has returned its listener ends, though nothing cancels the context
\* and a signal may be left unread.
ListenerEnds == Scan!ListenerEnds

\* An exit code of 0 means reports on disk and, if it was asked for, sent.
SuccessMeansExported == Rep!SuccessMeansExported

\* Only what is on disk is mailed, and nothing with --noEmailReport.
EmailOfExportedReport == Rep!EmailOfExportedReport

\* An interrupted program ends, from whatever pre-check, point of the scan or
\* call of the report, even if no server ever answers; only a prompt that is
\* not answered can keep it.
InterruptEndsProgram == canceled ~> Ended \/ Rep!AtPrompt
=============================================================================
