---------------------------- MODULE ChromeClient ----------------------------
(***************************************************************************)
(* SendPayload of the client that drives a browser: a goroutine runs two   *)
(* lists of tasks in it, the home page and then the script that fetches    *)
(* the payload's URL and writes the response, and sends their errors; the  *)
(* worker collects errors until the channel is closed.  Every payload has  *)
(* a browser of its own.                                                   *)
(*                                                                         *)
(* SendRequest is not here: only requests made from an OpenAPI template    *)
(* are given to it, and with an OpenAPI file parseFlags forces the         *)
(* net/http client.                                                        *)
(***************************************************************************)
EXTENDS Naturals

CONSTANTS
  Workers,
  MaxRequests    \* bound: payloads sent

VARIABLES
  phase,         \* what a worker is at: "idle", "collect" (forLoop), "wait" (wg.Wait)
  begun,         \* payloads begun
  canceled,
  goroutine,     \* "navigate", "tasks", "close" or, with wg.Done, "returned"
  errorChan,     \* errors in the channel
  chanClosed,
  err,           \* errors the worker has collected
  responseMeta,  \* "empty", or what the script wrote: an "answer" or a fetch "error"
  runFailed,     \* history: chromedp.Run has returned an error
  result         \* of the last payload: "none", "response" or "error"

chanVars == <<errorChan, chanClosed>>
vars == <<phase, begun, canceled, goroutine, chanVars, err, responseMeta, runFailed, result>>

Init ==
  /\ phase = [w \in Workers |-> "idle"]
  /\ begun = 0
  /\ canceled = FALSE
  /\ goroutine = [w \in Workers |-> "returned"]
  /\ errorChan = [w \in Workers |-> 0]
  /\ chanClosed = [w \in Workers |-> FALSE]
  /\ err = [w \in Workers |-> 0]
  /\ responseMeta = [w \in Workers |-> "empty"]
  /\ runFailed = [w \in Workers |-> FALSE]
  /\ result = [w \in Workers |-> "none"]

\* The placeholder has no request for Chrome, or the payload cannot be encoded.
GetRequestFails(w) ==
  /\ phase[w] = "idle"
  /\ begun < MaxRequests
  /\ begun' = begun + 1
  /\ result' = [result EXCEPT ![w] = "error"]
  /\ UNCHANGED <<phase, canceled, goroutine, chanVars, err, responseMeta, runFailed>>

Begin(w) ==
  /\ phase[w] = "idle"
  /\ begun < MaxRequests
  /\ begun' = begun + 1
  /\ phase' = [phase EXCEPT ![w] = "collect"]
  /\ goroutine' = [goroutine EXCEPT ![w] = "navigate"]
  /\ errorChan' = [errorChan EXCEPT ![w] = 0]
  /\ chanClosed' = [chanClosed EXCEPT ![w] = FALSE]
  /\ err' = [err EXCEPT ![w] = 0]
  /\ responseMeta' = [responseMeta EXCEPT ![w] = "empty"]
  /\ runFailed' = [runFailed EXCEPT ![w] = FALSE]
  /\ result' = [result EXCEPT ![w] = "none"]
  /\ UNCHANGED canceled

-----------------------------------------------------------------------------
(* The goroutine.                                                          *)

\* chromedp.Run returns an error, always if ctx is done, and it is sent; the
\* channel has room for more than the two there can be.
RunFails(w) ==
  /\ errorChan' = [errorChan EXCEPT ![w] = @ + 1]
  /\ runFailed' = [runFailed EXCEPT ![w] = TRUE]

\* The home page; when it fails the payload is sent all the same.
Navigate(w) ==
  /\ goroutine[w] = "navigate"
  /\ \/ ~canceled /\ UNCHANGED <<errorChan, runFailed>>
     \/ RunFails(w)
  /\ goroutine' = [goroutine EXCEPT ![w] = "tasks"]
  /\ UNCHANGED <<phase, begun, canceled, chanClosed, err, responseMeta, result>>

\* The tasks of the request: the script catches what fetch throws, a reset
\* connection among it, and Run succeeds.
RunTasks(w) ==
  /\ goroutine[w] = "tasks"
  /\ \/ /\ ~canceled
        /\ \E meta \in {"answer", "error"} :
             responseMeta' = [responseMeta EXCEPT ![w] = meta]
        /\ UNCHANGED <<errorChan, runFailed>>
     \/ RunFails(w) /\ UNCHANGED responseMeta
  /\ goroutine' = [goroutine EXCEPT ![w] = "close"]
  /\ UNCHANGED <<phase, begun, canceled, chanClosed, err, result>>

CloseChan(w) ==
  /\ goroutine[w] = "close"
  /\ chanClosed' = [chanClosed EXCEPT ![w] = TRUE]
  /\ goroutine' = [goroutine EXCEPT ![w] = "returned"]
  /\ UNCHANGED <<phase, begun, canceled, errorChan, err, responseMeta, runFailed, result>>

-----------------------------------------------------------------------------
(* The worker.                                                             *)

\* Mutant of Collect: the loop ends when the channel is empty.
Collect_NoWait(w) ==
  /\ phase[w] = "collect"
  /\ \/ /\ errorChan[w] > 0
        /\ errorChan' = [errorChan EXCEPT ![w] = @ - 1]
        /\ err' = [err EXCEPT ![w] = @ + 1]
        /\ UNCHANGED phase
     \/ /\ errorChan[w] = 0
        /\ phase' = [phase EXCEPT ![w] = "wait"]
        /\ UNCHANGED <<errorChan, err>>
  /\ UNCHANGED <<begun, canceled, goroutine, chanClosed, responseMeta, runFailed, result>>

\* One turn of forLoop: a closed channel is read empty first.
Collect(w) ==
  /\ phase[w] = "collect"
  /\ \/ /\ errorChan[w] > 0
        /\ errorChan' = [errorChan EXCEPT ![w] = @ - 1]
        /\ err' = [err EXCEPT ![w] = @ + 1]
        /\ UNCHANGED phase
     \/ /\ errorChan[w] = 0 /\ chanClosed[w]
        /\ phase' = [phase EXCEPT ![w] = "wait"]
        /\ UNCHANGED <<errorChan, err>>
  /\ UNCHANGED <<begun, canceled, goroutine, chanClosed, responseMeta, runFailed, result>>

\* wg.Wait, and SendPayload returns.
Return(w) ==
  /\ phase[w] = "wait" /\ goroutine[w] = "returned"
  /\ phase' = [phase EXCEPT ![w] = "idle"]
  /\ result' = [result EXCEPT ![w] = IF err[w] > 0 THEN "error" ELSE "response"]
  /\ UNCHANGED <<begun, canceled, goroutine, chanVars, err, responseMeta, runFailed>>

Cancel ==
  /\ ~canceled
  /\ canceled' = TRUE
  /\ UNCHANGED <<phase, begun, goroutine, chanVars, err, responseMeta, runFailed, result>>

\* Steps of SendPayload.
BrowserStep(w) == Navigate(w) \/ RunTasks(w) \/ CloseChan(w)
WorkerStep(w) == Collect(w) \/ Return(w)

Next ==
  \/ \E w \in Workers :
       GetRequestFails(w) \/ Begin(w) \/ BrowserStep(w) \/ WorkerStep(w)
  \/ Cancel

Spec == Init /\ [][Next]_vars

\* A browser need not come to an end with its tasks before ctx is done.
Fairness ==
  \A w \in Workers : WF_vars(canceled /\ BrowserStep(w)) /\ WF_vars(WorkerStep(w))

FairSpec == Spec /\ Fairness

-----------------------------------------------------------------------------

\* The worker is given a response only when no run of the browser has failed and
\* the script has written it; nothing writes to it any more, so that updateDB
\* reads it without a lock.
ResponseIsSettled ==
  \A w \in Workers : result[w] = "response" =>
    ~runFailed[w] /\ responseMeta[w] # "empty" /\ goroutine[w] = "returned"
=============================================================================
