------------------------------ MODULE ScanPool ------------------------------
(***************************************************************************)
(* Scanner.Run: one producer goroutine walks over every combination of     *)
(* payload, encoder and placeholder and puts it in a buffered channel, a   *)
(* fixed number of workers receive from it, send the request and count it, *)
(* and Run waits for the workers.  Any of them may see the cancellation of *)
(* the context first: a select with several ready cases picks one freely.  *)
(*                                                                         *)
(* The combinations are numbered in the order the four nested loops of     *)
(* produceTests yield them.  What one request does to the test database is *)
(* the subject of Scanner; here sendPayload is the step that finishes a    *)
(* test.                                                                   *)
(***************************************************************************)
EXTENDS Integers, Sequences, FiniteSets

CONSTANTS
  Workers,          \* the worker goroutines (cfg.Workers of them)
  NumTests,         \* db.NumberOfTests
  RandomDelay       \* cfg.RandomDelay, a flag that takes any integer

ASSUME WorkersAssumption == IsFiniteSet(Workers) /\ Workers # {}
ASSUME NumTestsAssumption == NumTests \in Nat
ASSUME RandomDelayAssumption == RandomDelay \in Int

VARIABLES
  next,             \* the combination the producer builds next
  payloadChan,      \* the channel's buffer
  chanClosed,       \* close(payloadChan) has run: the producer is gone
  pc,               \* where each worker is in its loop
  item,             \* the combination a worker holds, NoTest if none
  requestsCounter,  \* the atomic counter shown on SIGUSR1
  canceled,         \* ctx is done
  runPc,            \* where Run itself is
  result,           \* what Run returned, "none" before
  handled           \* history: combinations whose sendPayload has returned

prodVars == <<next, chanClosed>>
runVars == <<runPc, result>>
vars == <<next, payloadChan, chanClosed, pc, item, requestsCounter, canceled,
          runPc, result, handled>>

NoTest == 0
Tests == 1 .. NumTests

\* make(chan *payloadConfig, n): as many slots as workers.
Capacity == Cardinality(Workers)

\* A worker between receiving a combination and the end of sendPayload.
Holds(w) == pc[w] \in {"delay", "send", "panicked"}

InHand == {item[w] : w \in {v \in Workers : Holds(v)}}

InChan == {payloadChan[i] : i \in 1 .. Len(payloadChan)}

Init ==
  /\ next = 1
  /\ payloadChan = <<>>
  /\ chanClosed = FALSE
  /\ pc = [w \in Workers |-> "select"]
  /\ item = [w \in Workers |-> NoTest]
  /\ requestsCounter = 0
  /\ canceled = FALSE
  /\ runPc = "wait"
  /\ result = "none"
  /\ handled = {}

-----------------------------------------------------------------------------
(* The producer goroutine.                                                 *)

\* case payloadChan <- wrk
Produce ==
  /\ ~chanClosed
  /\ next \in Tests
  /\ Len(payloadChan) < Capacity
  /\ payloadChan' = Append(payloadChan, next)
  /\ next' = next + 1
  /\ UNCHANGED <<chanClosed, pc, item, requestsCounter, canceled, runVars, handled>>

\* Mutant of ProducerReturn: a plain send, not a select with ctx.Done().
ProducerReturn_IgnoresCtx ==
  /\ ~chanClosed
  /\ next \notin Tests
  /\ chanClosed' = TRUE
  /\ UNCHANGED <<next, payloadChan, pc, item, requestsCounter, canceled, runVars, handled>>

\* Return by case <-ctx.Done(), or at the end of the loops; both run the
\* deferred close.
ProducerReturn ==
  /\ ~chanClosed
  /\ canceled \/ next \notin Tests
  /\ chanClosed' = TRUE
  /\ UNCHANGED <<next, payloadChan, pc, item, requestsCounter, canceled, runVars, handled>>

-----------------------------------------------------------------------------
(* A worker goroutine.                                                     *)

\* case pc := <-payloadChan
Receive(w) ==
  /\ pc[w] = "select"
  /\ payloadChan # <<>>
  /\ payloadChan' = Tail(payloadChan)
  /\ item' = [item EXCEPT ![w] = Head(payloadChan)]
  /\ pc' = [pc EXCEPT ![w] = "delay"]
  /\ UNCHANGED <<prodVars, requestsCounter, canceled, runVars, handled>>

\* Mutant of WorkerReturn: the ok of the receive is not looked at.
WorkerReturn_IgnoresClose(w) ==
  /\ pc[w] = "select"
  /\ canceled
  /\ pc' = [pc EXCEPT ![w] = "returned"]
  /\ UNCHANGED <<prodVars, payloadChan, item, requestsCounter, canceled, runVars, handled>>

\* The channel is closed and drained, or ctx is done: return, wg.Done.
WorkerReturn(w) ==
  /\ pc[w] = "select"
  /\ \/ payloadChan = <<>> /\ chanClosed
     \/ canceled
  /\ pc' = [pc EXCEPT ![w] = "returned"]
  /\ UNCHANGED <<prodVars, payloadChan, item, requestsCounter, canceled, runVars, handled>>

\* Mutant of Delay: the sleep is a select with ctx.Done(), and the worker
\* leaves with the combination in its hands.
Delay_DropsOnCancel(w) ==
  /\ pc[w] = "delay"
  /\ pc' = [pc EXCEPT ![w] = IF canceled THEN "returned" ELSE "send"]
  /\ UNCHANGED <<prodVars, payloadChan, item, requestsCounter, canceled, runVars, handled>>

\* time.Sleep(SendDelay + rand.Intn(RandomDelay)).  The sleep does not look at
\* ctx, and rand.Intn panics when its argument is not positive.
Delay(w) ==
  /\ pc[w] = "delay"
  /\ pc' = [pc EXCEPT ![w] = IF RandomDelay > 0 THEN "send" ELSE "panicked"]
  /\ UNCHANGED <<prodVars, payloadChan, item, requestsCounter, canceled, runVars, handled>>

\* Mutant of SendPayload: a failed request is not counted.
SendPayload_ContinuesOnError(w) ==
  /\ pc[w] = "send"
  /\ \/ pc' = [pc EXCEPT ![w] = "count"] /\ UNCHANGED item
     \/ pc' = [pc EXCEPT ![w] = "select"] /\ item' = [item EXCEPT ![w] = NoTest]
  /\ handled' = handled \cup {item[w]}
  /\ UNCHANGED <<prodVars, payloadChan, requestsCounter, canceled, runVars>>

\* sendPayload returns; an error is logged and otherwise ignored.
SendPayload(w) ==
  /\ pc[w] = "send"
  /\ pc' = [pc EXCEPT ![w] = "count"]
  /\ handled' = handled \cup {item[w]}
  /\ UNCHANGED <<prodVars, payloadChan, item, requestsCounter, canceled, runVars>>

\* atomic.AddUint64(&requestsCounter, 1), whatever sendPayload returned.
Count(w) ==
  /\ pc[w] = "count"
  /\ requestsCounter' = requestsCounter + 1
  /\ item' = [item EXCEPT ![w] = NoTest]
  /\ pc' = [pc EXCEPT ![w] = "select"]
  /\ UNCHANGED <<prodVars, payloadChan, canceled, runVars, handled>>

WorkerStep(w) ==
  \/ Receive(w)
  \/ WorkerReturn(w)
  \/ Delay(w)
  \/ SendPayload(w)
  \/ Count(w)

-----------------------------------------------------------------------------
(* Run, and the signal goroutine of main.                                  *)

\* Mutant of WgWait: wg.Add(1) where one is added per worker.
WgWait_ForOne ==
  /\ runPc = "wait"
  /\ \E w \in Workers : pc[w] = "returned"
  /\ runPc' = "ctxErr"
  /\ UNCHANGED <<prodVars, payloadChan, pc, item, requestsCounter, canceled, result, handled>>

\* wg.Wait()
WgWait ==
  /\ runPc = "wait"
  /\ \A w \in Workers : pc[w] = "returned"
  /\ runPc' = "ctxErr"
  /\ UNCHANGED <<prodVars, payloadChan, pc, item, requestsCounter, canceled, result, handled>>

\* Mutant of Return: the context is not looked at after the wait.
Return_AlwaysNil ==
  /\ runPc = "ctxErr"
  /\ runPc' = "returned"
  /\ result' = "nil"
  /\ UNCHANGED <<prodVars, payloadChan, pc, item, requestsCounter, canceled, handled>>

\* if errors.Is(ctx.Err(), context.Canceled): read once, after the wait.
Return ==
  /\ runPc = "ctxErr"
  /\ runPc' = "returned"
  /\ result' = IF canceled THEN "canceled" ELSE "nil"
  /\ UNCHANGED <<prodVars, payloadChan, pc, item, requestsCounter, canceled, handled>>

\* The first SIGINT or SIGTERM; main's goroutine reads one signal.
Cancel ==
  /\ ~canceled
  /\ canceled' = TRUE
  /\ UNCHANGED <<prodVars, payloadChan, pc, item, requestsCounter, runVars, handled>>

\* All the goroutines of the scan have returned.
Terminated ==
  /\ runPc = "returned"
  /\ chanClosed
  /\ UNCHANGED vars

-----------------------------------------------------------------------------

\* A panic in any goroutine ends the process.
NoPanic == \A w \in Workers : pc[w] # "panicked"

Next ==
  /\ NoPanic
  /\ \/ Produce
     \/ ProducerReturn
     \/ \E w \in Workers : WorkerStep(w)
     \/ WgWait
     \/ Return
     \/ Cancel
     \/ Terminated

Spec == Init /\ [][Next]_vars

\* The Go scheduler runs every goroutine that can run.  A request in flight
\* ends when the server answers or ctx is done: the HTTP clients set no timeout
\* of their own, so an answer is not promised.  Cancellation is the user's:
\* nothing makes it happen.
Fairness ==
  /\ WF_vars(Produce \/ ProducerReturn)
  /\ \A w \in Workers :
       /\ WF_vars(Receive(w) \/ WorkerReturn(w) \/ Delay(w) \/ Count(w))
       /\ WF_vars(canceled /\ SendPayload(w))
  /\ WF_vars(WgWait \/ Return)

FairSpec == Spec /\ Fairness

-----------------------------------------------------------------------------
(* Properties.                                                             *)

\* Every variable keeps its type; the channel never holds more than its
\* capacity of combinations.
TypeOK ==
  /\ next \in 1 .. NumTests + 1
  /\ payloadChan \in Seq(Tests)
  /\ Len(payloadChan) <= Capacity
  /\ chanClosed \in BOOLEAN
  /\ pc \in [Workers -> {"select", "delay", "send", "count", "returned", "panicked"}]
  /\ item \in [Workers -> Tests \cup {NoTest}]
  /\ requestsCounter \in Nat
  /\ canceled \in BOOLEAN
  /\ runPc \in {"wait", "ctxErr", "returned"}
  /\ result \in {"none", "nil", "canceled"}
  /\ handled \subseteq Tests

\* Every combination the producer has built is in exactly one place: the
\* channel, the hands of one worker, or handled.  A cancellation may leave
\* combinations in the channel, but drops none a worker has received.
NoTestLostOrDuplicated ==
  /\ \A t \in Tests :
       t < next <=> t \in InChan \/ (\E w \in Workers : Holds(w) /\ item[w] = t)
                                 \/ t \in handled
  /\ InChan \cap InHand = {}
  /\ (InChan \cup InHand) \cap handled = {}
  /\ \A i, j \in 1 .. Len(payloadChan) : payloadChan[i] = payloadChan[j] => i = j
  /\ \A v, w \in Workers : Holds(v) /\ Holds(w) /\ item[v] = item[w] => v = w

\* Run returns nil only when each test of the database was handled and
\* counted; the report that main prints next is about all of them.
NilMeansComplete ==
  result = "nil" => handled = Tests /\ requestsCounter = NumTests

\* The number logged on SIGUSR1 never runs ahead of the requests that ended,
\* and is behind by no more than the workers about to count theirs.
CounterTracksHandled ==
  requestsCounter + Cardinality({w \in Workers : pc[w] = "count"}) = Cardinality(handled)

\* After wg.Wait no worker is running: Run's deferred grpcConn.Close and the
\* unlocked reads of the results by GetStatistics are not concurrent with one.
QuietAfterWait ==
  runPc # "wait" => \A w \in Workers : pc[w] = "returned"

\* Run and all its goroutines have ended.
AllReturned == runPc = "returned" /\ chanClosed

\* Once cancelled, Run returns and the producer goroutine ends, whatever case
\* each select picks and even if the server never answers.
CancelStopsRun == canceled ~> AllReturned

\* Without a cancellation too, if every request is answered or fails in the end.
AnsweredRunReturns ==
  (\A w \in Workers : []<>(pc[w] # "send")) => <>AllReturned

\* What Run promises, with the channel and the goroutines hidden.
Abstract == INSTANCE ScanRun WITH
  pending <- Tests \ (InHand \cup handled),
  inFlight <- InHand,
  finished <- handled,
  stopRequested <- canceled,
  outcome <- result

\* The pool of goroutines implements ScanRun.
ImplementsScanRun == Abstract!Spec

-----------------------------------------------------------------------------
(* The inductive invariant behind the safety properties.                   *)

\* The channel holds the combinations just below next, in order: whatever is
\* below those has been received.
ChanIsWindow ==
  /\ Len(payloadChan) < next
  /\ \A i \in 1 .. Len(payloadChan) : payloadChan[i] = next - Len(payloadChan) - 1 + i

Received == 1 .. next - Len(payloadChan) - 1

\* A combination stays with the worker that received it until it is handled;
\* the worker that handled it keeps it until it is counted.
HasItem(w) == Holds(w) \/ pc[w] = "count"

ReceivedIsHeldOrHandled ==
  /\ \A w \in Workers : HasItem(w) <=> item[w] # NoTest
  /\ \A w \in Workers : HasItem(w) => item[w] \in Received
  /\ \A w \in Workers : HasItem(w) => (Holds(w) <=> item[w] \notin handled)
  /\ \A t \in Received : t \in handled \/ \E w \in Workers : Holds(w) /\ item[w] = t
  /\ handled \subseteq Received
  /\ \A v, w \in Workers : HasItem(v) /\ item[v] = item[w] => v = w

\* Without a cancellation the producer only stops at the end of its loops, and
\* a worker only returns from a closed and drained channel.
StopsAreJustified ==
  /\ chanClosed => canceled \/ next = NumTests + 1
  /\ \A w \in Workers : pc[w] = "returned" => canceled \/ (chanClosed /\ payloadChan = <<>>)

ResultIsLast == result # "none" <=> runPc = "returned"

IInv ==
  /\ TypeOK
  /\ ChanIsWindow
  /\ ReceivedIsHeldOrHandled
  /\ CounterTracksHandled
  /\ StopsAreJustified
  /\ QuietAfterWait
  /\ ResultIsLast
  /\ NilMeansComplete
=============================================================================
