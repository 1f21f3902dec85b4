--------------------------- MODULE StatusHandler ---------------------------
(***************************************************************************)
(* The SIGUSR1 listener of a scan: the runtime puts signals in a channel   *)
(* of one slot without ever waiting, a goroutine logs the requests counter *)
(* for each, and the function Run defers unregisters the channel and then  *)
(* closes it.  The workers (ScanPool) only appear as what moves the        *)
(* counter until wg.Wait lets Run return.                                  *)
(***************************************************************************)
EXTENDS Naturals

CONSTANT NumTests     \* db.NumberOfTests

VARIABLES
  registered,       \* the runtime delivers SIGUSR1 to userSignal
  userSignal,       \* signals in the channel, 0 or 1
  channelClosed,
  goroutine,        \* the listener: "select", "log" or "returned"
  requestsCounter,
  canceled,
  runPc,            \* "scan", then the two steps of the closer
  panicked          \* a signal was sent on the closed channel

vars == <<registered, userSignal, channelClosed, goroutine, requestsCounter, canceled, runPc, panicked>>

Init ==
  /\ registered = TRUE
  /\ userSignal = 0
  /\ channelClosed = FALSE
  /\ goroutine = "select"
  /\ requestsCounter = 0
  /\ canceled = FALSE
  /\ runPc = "scan"
  /\ panicked = FALSE

\* SIGUSR1 arrives: dropped when the slot is taken.
Signal ==
  /\ registered
  /\ panicked' = channelClosed
  /\ userSignal' = IF channelClosed THEN userSignal ELSE 1
  /\ UNCHANGED <<registered, channelClosed, goroutine, requestsCounter,
                 canceled, runPc>>

\* case _, ok := <-userSignal, with a signal: also after the close.
Receive ==
  /\ goroutine = "select"
  /\ userSignal = 1
  /\ userSignal' = 0
  /\ goroutine' = "log"
  /\ UNCHANGED <<registered, channelClosed, requestsCounter, canceled,
                 runPc, panicked>>

Log ==
  /\ goroutine = "log"
  /\ goroutine' = "select"
  /\ UNCHANGED <<registered, userSignal, channelClosed, requestsCounter, canceled,
                 runPc, panicked>>

\* Mutant of ListenerReturns: only the context ends the listener.
ListenerReturns_OnlyCtx ==
  /\ goroutine = "select"
  /\ canceled
  /\ goroutine' = "returned"
  /\ UNCHANGED <<registered, userSignal, channelClosed, requestsCounter,
                 canceled, runPc, panicked>>

\* The channel is closed and empty, or ctx is done.
ListenerReturns ==
  /\ goroutine = "select"
  /\ (channelClosed /\ userSignal = 0) \/ canceled
  /\ goroutine' = "returned"
  /\ UNCHANGED <<registered, userSignal, channelClosed, requestsCounter,
                 canceled, runPc, panicked>>

\* A worker counts a request.
Count ==
  /\ runPc = "scan"
  /\ requestsCounter < NumTests
  /\ requestsCounter' = requestsCounter + 1
  /\ UNCHANGED <<registered, userSignal, channelClosed, goroutine,
                 canceled, runPc, panicked>>

\* Mutant of SignalStop: the closer closes the channel first.
SignalStop_AfterClose ==
  /\ runPc = "scan"
  /\ canceled \/ requestsCounter = NumTests
  /\ channelClosed' = TRUE
  /\ runPc' = "close"
  /\ UNCHANGED <<registered, userSignal, goroutine, requestsCounter,
                 canceled, panicked>>

\* Mutant of SignalStop: a cancelled run waits for all of its tests.
SignalStop_AllSent ==
  /\ runPc = "scan"
  /\ requestsCounter = NumTests
  /\ registered' = FALSE
  /\ runPc' = "close"
  /\ UNCHANGED <<userSignal, channelClosed, goroutine, requestsCounter,
                 canceled, panicked>>

\* Run returns; the closer's signal.Stop.  No signal is delivered after it.
SignalStop ==
  /\ runPc = "scan"
  /\ canceled \/ requestsCounter = NumTests
  /\ registered' = FALSE
  /\ runPc' = "close"
  /\ UNCHANGED <<userSignal, channelClosed, goroutine, requestsCounter,
                 canceled, panicked>>

\* close(userSignal)
CloseChannel ==
  /\ runPc = "close"
  /\ channelClosed' = TRUE
  /\ runPc' = "returned"
  /\ UNCHANGED <<registered, userSignal, goroutine, requestsCounter,
                 canceled, panicked>>

Cancel ==
  /\ ~canceled
  /\ canceled' = TRUE
  /\ UNCHANGED <<registered, userSignal, channelClosed, goroutine, requestsCounter, runPc, panicked>>

Listener == Receive \/ Log \/ ListenerReturns

Next ==
  /\ ~panicked
  /\ \/ Signal
     \/ Listener
     \/ Count
     \/ SignalStop
     \/ CloseChannel
     \/ Cancel

Spec == Init /\ [][Next]_vars

-----------------------------------------------------------------------------

\* No signal finds the channel closed, however late it comes.
NoSendOnClosed == ~panicked

\* Once Run has returned the listener ends, even with a signal left unread and
\* without a cancellation.
ListenerEnds == runPc = "returned" ~> goroutine = "returned"
=============================================================================
