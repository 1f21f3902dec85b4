--------------------------- MODULE ScanPoolProofs ---------------------------
(***************************************************************************)
(* Proofs about ScanPool, for any number of workers and tests.             *)
(***************************************************************************)
EXTENDS ScanPool, FiniteSetTheorems, TLAPS

LEMMA CapacityIsNat == Capacity \in Nat
  BY WorkersAssumption, FS_CardinalityType DEF Capacity

(***************************************************************************)
(* Every variable keeps its type and the channel its bound: whatever the   *)
(* goroutines of Run do, payloadChan holds at most cfg.Workers tests.      *)
(***************************************************************************)
LEMMA TypeInit == Init => TypeOK
<1> SUFFICES ASSUME Init PROVE TypeOK
  OBVIOUS
<1> USE NumTestsAssumption, CapacityIsNat DEF Init, Tests, NoTest
<1>1. payloadChan \in Seq(Tests) /\ Len(payloadChan) <= Capacity
  OBVIOUS
<1>2. pc \in [Workers -> {"select", "delay", "send", "count", "returned", "panicked"}]
  OBVIOUS
<1>3. item \in [Workers -> Tests \cup {NoTest}]
  OBVIOUS
<1>4. next \in 1 .. NumTests + 1 /\ requestsCounter \in Nat /\ handled \subseteq Tests
  OBVIOUS
<1>5. chanClosed \in BOOLEAN /\ canceled \in BOOLEAN
  OBVIOUS
<1>6. QED
  BY <1>1, <1>2, <1>3, <1>4, <1>5 DEF TypeOK

LEMMA TypeStep == TypeOK /\ ReceivedIsHeldOrHandled /\ [Next]_vars => TypeOK'
<1> SUFFICES ASSUME TypeOK, ReceivedIsHeldOrHandled, [Next]_vars PROVE TypeOK'
  OBVIOUS
<1> USE NumTestsAssumption, CapacityIsNat DEF TypeOK, Tests, NoTest, prodVars, runVars
<1>1. CASE Produce
  BY <1>1 DEF Produce
<1>2. CASE ProducerReturn
  BY <1>2 DEF ProducerReturn
<1>3. ASSUME NEW w \in Workers, WorkerStep(w) PROVE TypeOK'
  <2>1. CASE Receive(w)
    <3>1. payloadChan # <<>> /\ Head(payloadChan) \in 1 .. NumTests
      BY <2>1 DEF Receive
    <3>2. Tail(payloadChan) \in Seq(1 .. NumTests) /\ Len(Tail(payloadChan)) <= Capacity
      BY <3>1
    <3>3. QED
      BY <2>1, <3>1, <3>2 DEF Receive
  <2>2. CASE WorkerReturn(w)
    BY <2>2 DEF WorkerReturn
  <2>3. CASE Delay(w)
    BY <2>3 DEF Delay
  <2>4. CASE SendPayload(w)
    <3>1. item[w] \in 1 .. NumTests
      BY <2>4 DEF SendPayload, ReceivedIsHeldOrHandled, HasItem, Holds
    <3>2. QED
      BY <2>4, <3>1 DEF SendPayload
  <2>5. CASE Count(w)
    BY <2>5 DEF Count
  <2>6. QED
    BY <1>3, <2>1, <2>2, <2>3, <2>4, <2>5 DEF WorkerStep
<1>4. CASE WgWait
  BY <1>4 DEF WgWait
<1>5. CASE Return
  BY <1>5 DEF Return
<1>6. CASE Cancel
  BY <1>6 DEF Cancel
<1>7. CASE UNCHANGED vars
  BY <1>7 DEF vars
<1>8. QED
  BY <1>1, <1>2, <1>3, <1>4, <1>5, <1>6, <1>7 DEF Next, Terminated

-----------------------------------------------------------------------------
(***************************************************************************)
(* The channel is a window just below next.  A send moves its upper end, a *)
(* receive its lower end, and a receive yields the lowest combination.     *)
(***************************************************************************)
LEMMA WindowSend ==
  ASSUME TypeOK, ChanIsWindow, Produce
  PROVE  ChanIsWindow' /\ Received' = Received
<1>1. Len(payloadChan') = Len(payloadChan) + 1 /\ next' = next + 1
  BY DEF Produce, TypeOK
<1>2. \A i \in 1 .. Len(payloadChan) : payloadChan'[i] = payloadChan[i]
  BY DEF Produce, TypeOK
<1>3. payloadChan'[Len(payloadChan) + 1] = next
  BY DEF Produce, TypeOK
<1>4. Len(payloadChan) \in Nat /\ next \in Nat
  BY NumTestsAssumption DEF TypeOK
<1>5. Len(payloadChan') < next'
  BY <1>1, <1>4 DEF ChanIsWindow
<1>6. ASSUME NEW i \in 1 .. Len(payloadChan')
      PROVE  payloadChan'[i] = next' - Len(payloadChan') - 1 + i
  <2>1. CASE i \in 1 .. Len(payloadChan)
    BY <2>1, <1>1, <1>2, <1>4 DEF ChanIsWindow
  <2>2. CASE i = Len(payloadChan) + 1
    BY <2>2, <1>1, <1>3, <1>4
  <2>3. QED
    BY <1>1, <1>4, <2>1, <2>2
<1>7. QED
  BY <1>1, <1>4, <1>5, <1>6 DEF ChanIsWindow, Received

LEMMA WindowReceive ==
  ASSUME TypeOK, ChanIsWindow, NEW w \in Workers, Receive(w)
  PROVE  /\ ChanIsWindow'
         /\ Head(payloadChan) \in Tests
         /\ Head(payloadChan) \notin Received
         /\ Received' = Received \cup {Head(payloadChan)}
<1> DEFINE len == Len(payloadChan)
<1>1. payloadChan \in Seq(Tests) /\ payloadChan # <<>> /\ next' = next
  BY DEF Receive, TypeOK, prodVars
<1>2. len \in Nat /\ len > 0 /\ next \in Nat
  BY <1>1, NumTestsAssumption DEF TypeOK
<1>3. Len(payloadChan') = len - 1
  BY <1>1 DEF Receive
<1>4. \A i \in 1 .. len - 1 : payloadChan'[i] = payloadChan[i + 1]
  BY <1>1 DEF Receive
<1>5. Head(payloadChan) = next - len /\ Head(payloadChan) \in Tests
  <2>1. Head(payloadChan) = payloadChan[1] /\ 1 \in 1 .. len
    BY <1>1, <1>2
  <2>2. payloadChan[1] = next - len - 1 + 1
    BY <2>1 DEF ChanIsWindow
  <2>3. QED
    BY <1>1, <1>2, <2>1, <2>2
<1>6. \A i \in 1 .. len - 1 : payloadChan'[i] = next - (len - 1) - 1 + i
  BY <1>2, <1>4 DEF ChanIsWindow
<1> HIDE DEF len
<1>7. ChanIsWindow'
  <2>1. len < next
    BY DEF ChanIsWindow, len
  <2>2. QED
    BY <1>1, <1>2, <1>3, <1>6, <2>1 DEF ChanIsWindow
<1>8. Received = 1 .. next - len - 1 /\ Received' = 1 .. next - len
  BY <1>1, <1>2, <1>3 DEF Received, len
<1>9. QED
  BY <1>2, <1>5, <1>7, <1>8, NumTestsAssumption DEF Tests, ChanIsWindow, len

(***************************************************************************)
(* Whatever was received is in the hands of one worker or handled.         *)
(***************************************************************************)
LEMMA HeldReceive ==
  ASSUME TypeOK, ChanIsWindow, ReceivedIsHeldOrHandled, NEW w \in Workers, Receive(w)
  PROVE  ReceivedIsHeldOrHandled'
<1> DEFINE h == Head(payloadChan)
<1>1. h \in Tests /\ h \notin Received /\ Received' = Received \cup {h}
  BY WindowReceive
<1>2. h # NoTest
  BY <1>1 DEF Tests, NoTest
<1>3. /\ pc[w] = "select"
      /\ pc' = [pc EXCEPT ![w] = "delay"]
      /\ item' = [item EXCEPT ![w] = h]
      /\ handled' = handled
  BY DEF Receive
<1> HIDE DEF h
<1>4. pc'[w] = "delay" /\ item'[w] = h
  BY <1>3 DEF TypeOK
<1>5. \A v \in Workers \ {w} : pc'[v] = pc[v] /\ item'[v] = item[v]
  BY <1>3 DEF TypeOK
<1>6. h \notin handled
  BY <1>1 DEF ReceivedIsHeldOrHandled
<1>7. \A v \in Workers \ {w} : HasItem(v) => item[v] # h
  BY <1>1 DEF ReceivedIsHeldOrHandled
<1> USE DEF HasItem, Holds
<1>8. (\A v \in Workers : HasItem(v) <=> item[v] # NoTest)'
  BY <1>2, <1>4, <1>5 DEF ReceivedIsHeldOrHandled, NoTest
<1>9. (\A v \in Workers : HasItem(v) => item[v] \in Received)'
  BY <1>1, <1>4, <1>5 DEF ReceivedIsHeldOrHandled
<1>10. (\A v \in Workers : HasItem(v) => (Holds(v) <=> item[v] \notin handled))'
  BY <1>3, <1>4, <1>5, <1>6 DEF ReceivedIsHeldOrHandled
<1>11. (\A t \in Received : t \in handled \/ \E v \in Workers : Holds(v) /\ item[v] = t)'
  <2> SUFFICES ASSUME NEW t \in Received', t \notin handled'
               PROVE  \E v \in Workers : Holds(v)' /\ item'[v] = t
    OBVIOUS
  <2>1. CASE t = h
    BY <2>1, <1>4
  <2>2. CASE t \in Received
    <3>1. PICK v \in Workers : Holds(v) /\ item[v] = t
      BY <2>2, <1>3 DEF ReceivedIsHeldOrHandled
    <3>2. v # w
      BY <3>1, <1>3
    <3>3. QED
      BY <3>1, <3>2, <1>5
  <2>3. QED
    BY <1>1, <2>1, <2>2
<1>12. (handled \subseteq Received)'
  BY <1>1, <1>3 DEF ReceivedIsHeldOrHandled
<1>13. (\A u, v \in Workers : HasItem(u) /\ item[u] = item[v] => u = v)'
  <2> SUFFICES ASSUME NEW u \in Workers, NEW v \in Workers,
                      HasItem(u)', item'[u] = item'[v]
               PROVE  u = v
    OBVIOUS
  <2>1. CASE u # w /\ v # w
    BY <2>1, <1>5 DEF ReceivedIsHeldOrHandled
  <2>2. CASE u = w /\ v # w
    BY <2>2, <1>2, <1>4, <1>5, <1>7 DEF ReceivedIsHeldOrHandled
  <2>3. CASE u # w /\ v = w
    BY <2>3, <1>4, <1>5, <1>7
  <2>4. QED
    BY <2>1, <2>2, <2>3
<1>14. QED
  BY <1>8, <1>9, <1>10, <1>11, <1>12, <1>13 DEF ReceivedIsHeldOrHandled

LEMMA HeldStep ==
  ASSUME TypeOK, ChanIsWindow, ReceivedIsHeldOrHandled, [Next]_vars
  PROVE  ChanIsWindow' /\ ReceivedIsHeldOrHandled'
<1> USE DEF prodVars, runVars
<1>1. CASE Produce
  <2>1. ChanIsWindow' /\ Received' = Received
    BY <1>1, WindowSend
  <2>2. UNCHANGED <<pc, item, handled>>
    BY <1>1 DEF Produce
  <2>3. QED
    BY <2>1, <2>2 DEF ReceivedIsHeldOrHandled, HasItem, Holds
<1>2. ASSUME NEW w \in Workers, Receive(w)
      PROVE  ChanIsWindow' /\ ReceivedIsHeldOrHandled'
  BY <1>2, WindowReceive, HeldReceive
<1>3. ASSUME UNCHANGED <<next, payloadChan>>
      PROVE  ChanIsWindow' /\ Received' = Received
  BY <1>3 DEF ChanIsWindow, Received
<1>4. ASSUME NEW w \in Workers, WorkerReturn(w) \/ Delay(w)
      PROVE  ChanIsWindow' /\ ReceivedIsHeldOrHandled'
  <2>1. UNCHANGED <<next, payloadChan, item, handled>>
    BY <1>4 DEF WorkerReturn, Delay
  <2>2. \A v \in Workers : HasItem(v)' = HasItem(v) /\ Holds(v)' = Holds(v)
    BY <1>4 DEF WorkerReturn, Delay, HasItem, Holds, TypeOK
  <2>3. QED
    BY <2>1, <2>2, <1>3 DEF ReceivedIsHeldOrHandled
<1>5. ASSUME NEW w \in Workers, SendPayload(w)
      PROVE  ChanIsWindow' /\ ReceivedIsHeldOrHandled'
  <2>1. UNCHANGED <<next, payloadChan, item>> /\ handled' = handled \cup {item[w]}
    BY <1>5 DEF SendPayload
  <2>2. HasItem(w) /\ Holds(w) /\ HasItem(w)' /\ ~Holds(w)'
    BY <1>5 DEF SendPayload, HasItem, Holds, TypeOK
  <2>3. \A v \in Workers \ {w} : HasItem(v)' = HasItem(v) /\ Holds(v)' = Holds(v)
    BY <1>5 DEF SendPayload, HasItem, Holds, TypeOK
  <2>4. \A v \in Workers : HasItem(v)' = HasItem(v)
    BY <2>2, <2>3 DEF HasItem, Holds
  <2>5. \A v \in Workers \ {w} : HasItem(v) => item[v] # item[w]
    BY DEF ReceivedIsHeldOrHandled
  <2>6. (\A v \in Workers : HasItem(v) => (Holds(v) <=> item[v] \notin handled))'
    BY <2>1, <2>2, <2>3, <2>5 DEF ReceivedIsHeldOrHandled
  <2>7. (\A t \in Received : t \in handled \/ \E v \in Workers : Holds(v) /\ item[v] = t)'
    BY <2>1, <2>3, <1>3 DEF ReceivedIsHeldOrHandled
  <2>8. (handled \subseteq Received)'
    BY <2>1, <2>2, <1>3 DEF ReceivedIsHeldOrHandled
  <2>9. QED
    BY <2>1, <2>4, <2>6, <2>7, <2>8, <1>3 DEF ReceivedIsHeldOrHandled
<1>6. ASSUME NEW w \in Workers, Count(w)
      PROVE  ChanIsWindow' /\ ReceivedIsHeldOrHandled'
  <2>1. UNCHANGED <<next, payloadChan, handled>>
    BY <1>6 DEF Count
  <2>2. pc[w] = "count" /\ pc'[w] = "select" /\ item'[w] = NoTest
    BY <1>6 DEF Count, TypeOK
  <2>3. \A v \in Workers \ {w} : pc'[v] = pc[v] /\ item'[v] = item[v]
    BY <1>6 DEF Count, TypeOK
  <2>4. \A v \in Workers : Holds(v)' = Holds(v)
    BY <2>2, <2>3 DEF Holds
  <2>5. ~HasItem(w)' /\ \A v \in Workers \ {w} : HasItem(v)' = HasItem(v)
    BY <2>2, <2>3 DEF HasItem, Holds
  <2>6. ~Holds(w)
    BY <2>2 DEF Holds
  <2>7. (\A t \in Received : t \in handled \/ \E v \in Workers : Holds(v) /\ item[v] = t)'
    BY <2>1, <2>3, <2>4, <2>6, <1>3 DEF ReceivedIsHeldOrHandled
  <2>8. (\A u, v \in Workers : HasItem(u) /\ item[u] = item[v] => u = v)'
    <3> SUFFICES ASSUME NEW u \in Workers, NEW v \in Workers,
                        HasItem(u)', item'[u] = item'[v]
                 PROVE  u = v
      OBVIOUS
    <3>1. u # w /\ item[u] # NoTest
      BY <2>3, <2>5 DEF ReceivedIsHeldOrHandled
    <3>2. v # w
      BY <3>1, <2>2, <2>3
    <3>3. QED
      BY <3>1, <3>2, <2>3, <2>5 DEF ReceivedIsHeldOrHandled
  <2>9. QED
    BY <2>1, <2>2, <2>3, <2>4, <2>5, <2>7, <2>8, <1>3 DEF ReceivedIsHeldOrHandled
<1>7. ASSUME UNCHANGED <<next, payloadChan, pc, item, handled>>
      PROVE  ChanIsWindow' /\ ReceivedIsHeldOrHandled'
  BY <1>7, <1>3 DEF ReceivedIsHeldOrHandled, HasItem, Holds
<1>8. CASE ProducerReturn \/ WgWait \/ Return \/ Cancel \/ UNCHANGED vars
  BY <1>7, <1>8 DEF ProducerReturn, WgWait, Return, Cancel, vars
<1>9. QED
  BY <1>1, <1>2, <1>4, <1>5, <1>6, <1>8 DEF Next, WorkerStep, Terminated

-----------------------------------------------------------------------------
(***************************************************************************)
(* The counter of the status message.                                      *)
(***************************************************************************)
LEMMA CounterStep ==
  ASSUME TypeOK, ReceivedIsHeldOrHandled, CounterTracksHandled, [Next]_vars
  PROVE  CounterTracksHandled'
<1> DEFINE Counting == {w \in Workers : pc[w] = "count"}
<1>1. IsFiniteSet(handled) /\ IsFiniteSet(Counting)
  <2>1. IsFiniteSet(1 .. NumTests)
    BY FS_Interval, NumTestsAssumption
  <2>2. IsFiniteSet(handled)
    BY <2>1, FS_Subset DEF TypeOK, Tests
  <2>3. IsFiniteSet(Counting)
    BY WorkersAssumption, FS_Subset
  <2>4. QED
    BY <2>2, <2>3
<1>2. Cardinality(handled) \in Nat /\ Cardinality(Counting) \in Nat
  BY <1>1, FS_CardinalityType
<1>3. ASSUME NEW w \in Workers, SendPayload(w)
      PROVE  CounterTracksHandled'
  <2>1. item[w] \notin handled /\ handled' = handled \cup {item[w]}
    BY <1>3 DEF SendPayload, ReceivedIsHeldOrHandled, HasItem, Holds
  <2>2. Cardinality(handled') = Cardinality(handled) + 1
    BY <2>1, <1>1, FS_AddElement
  <2>3. Counting' = Counting \cup {w} /\ w \notin Counting
    BY <1>3 DEF SendPayload, TypeOK
  <2>4. Cardinality(Counting') = Cardinality(Counting) + 1
    BY <2>3, <1>1, FS_AddElement
  <2>5. requestsCounter' = requestsCounter
    BY <1>3 DEF SendPayload
  <2>6. QED
    BY <2>2, <2>4, <2>5, <1>2 DEF CounterTracksHandled, TypeOK
<1>4. ASSUME NEW w \in Workers, Count(w)
      PROVE  CounterTracksHandled'
  <2>1. Counting' = Counting \ {w} /\ w \in Counting
    BY <1>4 DEF Count, TypeOK
  <2>2. Cardinality(Counting') = Cardinality(Counting) - 1
    BY <2>1, <1>1, FS_RemoveElement
  <2>3. requestsCounter' = requestsCounter + 1 /\ handled' = handled
    BY <1>4 DEF Count
  <2>4. QED
    BY <2>2, <2>3, <1>2 DEF CounterTracksHandled, TypeOK
<1>5. ASSUME UNCHANGED <<requestsCounter, handled>>, Counting' = Counting
      PROVE  CounterTracksHandled'
  BY <1>5 DEF CounterTracksHandled
<1>6. ASSUME NEW w \in Workers, Receive(w) \/ WorkerReturn(w) \/ Delay(w)
      PROVE  CounterTracksHandled'
  <2>1. UNCHANGED <<requestsCounter, handled>>
    BY <1>6 DEF Receive, WorkerReturn, Delay
  <2>2. Counting' = Counting
    BY <1>6 DEF Receive, WorkerReturn, Delay, TypeOK
  <2>3. QED
    BY <2>1, <2>2, <1>5
<1>7. CASE Produce \/ ProducerReturn \/ WgWait \/ Return \/ Cancel \/ UNCHANGED vars
  <2>1. UNCHANGED <<requestsCounter, handled, pc>>
    BY <1>7 DEF Produce, ProducerReturn, WgWait, Return, Cancel, vars
  <2>2. QED
    BY <2>1, <1>5
<1>8. QED
  BY <1>3, <1>4, <1>6, <1>7 DEF Next, WorkerStep, Terminated

-----------------------------------------------------------------------------
(***************************************************************************)
(* The return of Run.                                                      *)
(***************************************************************************)
LEMMA ReturnStep ==
  ASSUME IInv, [Next]_vars
  PROVE  StopsAreJustified' /\ QuietAfterWait' /\ ResultIsLast' /\ NilMeansComplete'
<1> USE DEF prodVars, runVars
<1>1. TypeOK /\ StopsAreJustified /\ QuietAfterWait /\ ResultIsLast /\ NilMeansComplete
  BY DEF IInv
<1>2. CASE Produce
  <2>1. runPc = "wait" \/ canceled
    <3>1. ASSUME runPc # "wait", ~canceled PROVE FALSE
      <4>1. PICK w \in Workers : TRUE
        BY WorkersAssumption
      <4>2. chanClosed
        BY <1>1, <3>1, <4>1 DEF QuietAfterWait, StopsAreJustified
      <4>3. QED
        BY <1>2, <4>2 DEF Produce
    <3>2. QED
      BY <3>1
  <2>2. \A w \in Workers : pc[w] = "returned" => canceled
    BY <1>1, <1>2 DEF Produce, StopsAreJustified
  <2>3. QED
    BY <1>1, <1>2, <2>2, NumTestsAssumption
       DEF Produce, StopsAreJustified, QuietAfterWait, ResultIsLast, NilMeansComplete
<1>3. CASE ProducerReturn
  <2>1. chanClosed' => canceled' \/ next' = NumTests + 1
    BY <1>1, <1>3, NumTestsAssumption DEF ProducerReturn, Tests, TypeOK
  <2>2. \A w \in Workers : pc'[w] = "returned" => canceled' \/ (chanClosed' /\ payloadChan' = <<>>)
    BY <1>1, <1>3 DEF ProducerReturn, StopsAreJustified
  <2>3. UNCHANGED <<pc, runPc, result, handled, requestsCounter>>
    BY <1>3 DEF ProducerReturn
  <2>4. QED
    BY <1>1, <2>1, <2>2, <2>3
       DEF StopsAreJustified, QuietAfterWait, ResultIsLast, NilMeansComplete, Tests
<1>4. ASSUME NEW w \in Workers, WorkerStep(w)
      PROVE  StopsAreJustified' /\ QuietAfterWait' /\ ResultIsLast' /\ NilMeansComplete'
  <2>1. pc[w] # "returned"
    BY <1>4 DEF WorkerStep, Receive, WorkerReturn, Delay, SendPayload, Count
  <2>2. runPc = "wait"
    BY <1>1, <2>1 DEF QuietAfterWait
  <2>3. UNCHANGED <<next, chanClosed, canceled, runPc, result>>
    BY <1>4 DEF WorkerStep, Receive, WorkerReturn, Delay, SendPayload, Count
  <2>4. \A v \in Workers \ {w} : pc'[v] = pc[v]
    BY <1>1, <1>4 DEF WorkerStep, Receive, WorkerReturn, Delay, SendPayload, Count, TypeOK
  <2>5. pc'[w] = "returned" => canceled \/ (chanClosed /\ payloadChan = <<>>)
    BY <1>1, <1>4 DEF WorkerStep, Receive, WorkerReturn, Delay, SendPayload, Count, TypeOK
  <2>6. payloadChan = <<>> => payloadChan' = <<>>
    BY <1>4 DEF WorkerStep, Receive, WorkerReturn, Delay, SendPayload, Count
  <2>7. QED
    BY <1>1, <2>2, <2>3, <2>4, <2>5, <2>6
       DEF StopsAreJustified, QuietAfterWait, ResultIsLast, NilMeansComplete
<1>5. CASE WgWait
  BY <1>1, <1>5 DEF WgWait, StopsAreJustified, QuietAfterWait, ResultIsLast,
                    NilMeansComplete, Tests
<1>6. CASE Return
  <2>1. UNCHANGED <<next, payloadChan, chanClosed, pc, item, requestsCounter, canceled, handled>>
    BY <1>6 DEF Return
  <2>2. \A w \in Workers : pc[w] = "returned"
    BY <1>1, <1>6 DEF Return, QuietAfterWait
  <2>3. ASSUME ~canceled PROVE handled = Tests /\ requestsCounter = NumTests
    <3>1. chanClosed /\ payloadChan = <<>> /\ next = NumTests + 1
      BY <1>1, <2>2, <2>3, WorkersAssumption DEF StopsAreJustified
    <3>2. Received = Tests
      BY <3>1, NumTestsAssumption DEF Received, Tests
    <3>3. \A w \in Workers : ~Holds(w)
      BY <2>2 DEF Holds
    <3>4. handled = Tests
      BY <3>2, <3>3 DEF IInv, ReceivedIsHeldOrHandled
    <3>5. {w \in Workers : pc[w] = "count"} = {}
      BY <2>2
    <3>6. Cardinality({w \in Workers : pc[w] = "count"}) = 0
      BY <3>5, FS_EmptySet
    <3>7. Cardinality(handled) = NumTests
      <4>1. Cardinality(1 .. NumTests) = NumTests
        BY FS_Interval, NumTestsAssumption
      <4>2. QED
        BY <3>4, <4>1 DEF Tests
    <3>8. requestsCounter = NumTests
      BY <3>6, <3>7, <1>1 DEF IInv, CounterTracksHandled, TypeOK
    <3>9. QED
      BY <3>4, <3>8
  <2>4. runPc' = "returned" /\ result' = IF canceled THEN "canceled" ELSE "nil"
    BY <1>6 DEF Return
  <2>5. QED
    BY <1>1, <2>1, <2>2, <2>3, <2>4
       DEF StopsAreJustified, QuietAfterWait, ResultIsLast, NilMeansComplete, Tests
<1>7. CASE Cancel
  BY <1>1, <1>7 DEF Cancel, StopsAreJustified, QuietAfterWait, ResultIsLast,
                    NilMeansComplete, Tests
<1>8. CASE UNCHANGED vars
  BY <1>1, <1>8 DEF vars, StopsAreJustified, QuietAfterWait, ResultIsLast,
                    NilMeansComplete, Tests
<1>9. QED
  BY <1>2, <1>3, <1>4, <1>5, <1>6, <1>7, <1>8 DEF Next, Terminated

-----------------------------------------------------------------------------
(***************************************************************************)
(* The inductive invariant, and what follows from it.                      *)
(***************************************************************************)
LEMMA InvInit == Init => IInv
<1> SUFFICES ASSUME Init PROVE IInv
  OBVIOUS
<1>1. TypeOK
  BY TypeInit
<1>2. ChanIsWindow /\ Received = {}
  BY DEF Init, ChanIsWindow, Received
<1>3. \A w \in Workers : pc[w] = "select" /\ item[w] = NoTest
  BY DEF Init
<1>4. ReceivedIsHeldOrHandled
  BY <1>2, <1>3 DEF Init, ReceivedIsHeldOrHandled, HasItem, Holds
<1>5. CounterTracksHandled
  <2>1. {w \in Workers : pc[w] = "count"} = {} /\ handled = {} /\ requestsCounter = 0
    BY <1>3 DEF Init
  <2>2. QED
    BY <2>1, FS_EmptySet DEF CounterTracksHandled
<1>6. StopsAreJustified /\ QuietAfterWait /\ ResultIsLast /\ NilMeansComplete
  BY <1>3 DEF Init, StopsAreJustified, QuietAfterWait, ResultIsLast, NilMeansComplete
<1>7. QED
  BY <1>1, <1>2, <1>4, <1>5, <1>6 DEF IInv

LEMMA InvStep == IInv /\ [Next]_vars => IInv'
<1> SUFFICES ASSUME IInv, [Next]_vars PROVE IInv'
  OBVIOUS
<1>1. TypeOK'
  BY TypeStep DEF IInv
<1>2. ChanIsWindow' /\ ReceivedIsHeldOrHandled'
  BY HeldStep DEF IInv
<1>3. CounterTracksHandled'
  BY CounterStep DEF IInv
<1>4. StopsAreJustified' /\ QuietAfterWait' /\ ResultIsLast' /\ NilMeansComplete'
  BY ReturnStep
<1>5. QED
  BY <1>1, <1>2, <1>3, <1>4 DEF IInv

(***************************************************************************)
(* IInv holds in every reachable state of Run, for any number of workers   *)
(* and tests.                                                              *)
(***************************************************************************)
THEOREM InductiveInvariant == Spec => []IInv
  BY InvInit, InvStep, PTL DEF Spec

(***************************************************************************)
(* Every variable keeps its type, and payloadChan never holds more tests   *)
(* than cfg.Workers.                                                       *)
(***************************************************************************)
THEOREM TypeCorrect == Spec => []TypeOK
<1>1. IInv => TypeOK
  BY DEF IInv
<1>2. QED
  BY <1>1, InductiveInvariant, PTL

(***************************************************************************)
(* No test is lost or sent twice between the producer and the workers.     *)
(***************************************************************************)
LEMMA WindowMembers ==
  ASSUME TypeOK, ChanIsWindow
  PROVE  InChan = next - Len(payloadChan) .. next - 1
<1>1. Len(payloadChan) \in Nat /\ next \in Nat
  BY NumTestsAssumption DEF TypeOK
<1>2. ASSUME NEW t \in next - Len(payloadChan) .. next - 1
      PROVE  t \in InChan
  <2>1. t - (next - Len(payloadChan) - 1) \in 1 .. Len(payloadChan)
    BY <1>1
  <2>2. payloadChan[t - (next - Len(payloadChan) - 1)] = t
    BY <1>1, <2>1 DEF ChanIsWindow
  <2>3. QED
    BY <2>1, <2>2 DEF InChan
<1>3. ASSUME NEW t \in InChan
      PROVE  t \in next - Len(payloadChan) .. next - 1
  BY <1>1 DEF InChan, ChanIsWindow
<1>4. QED
  BY <1>2, <1>3

LEMMA InvImpliesDelivery ==
  ASSUME IInv
  PROVE  NoTestLostOrDuplicated
<1> USE DEF IInv
<1>1. InChan = next - Len(payloadChan) .. next - 1
  BY WindowMembers
<1>2. Len(payloadChan) \in Nat /\ next \in Nat /\ Len(payloadChan) < next
  BY NumTestsAssumption DEF TypeOK, ChanIsWindow
<1>4. \A w \in Workers : Holds(w) => HasItem(w) /\ item[w] \in Received /\ item[w] \notin handled
  BY DEF ReceivedIsHeldOrHandled, HasItem
<1>5. \A t \in Tests :
        t < next <=> t \in InChan \/ (\E w \in Workers : Holds(w) /\ item[w] = t)
                                  \/ t \in handled
  <2> SUFFICES ASSUME NEW t \in Tests
               PROVE  t < next <=> t \in InChan \/ (\E w \in Workers : Holds(w) /\ item[w] = t)
                                               \/ t \in handled
    OBVIOUS
  <2>1. t \in Nat \ {0}
    BY NumTestsAssumption DEF Tests
  <2>2. t < next <=> t \in InChan \/ t \in Received
    BY <1>1, <1>2, <2>1 DEF Received
  <2>3. t \in Received <=> (\E w \in Workers : Holds(w) /\ item[w] = t) \/ t \in handled
    BY <1>4 DEF ReceivedIsHeldOrHandled
  <2>4. QED
    BY <2>2, <2>3
<1>6. InChan \cap Received = {}
  BY <1>1, <1>2 DEF Received
<1>7. InHand \subseteq Received /\ handled \subseteq Received /\ InHand \cap handled = {}
  BY <1>4 DEF InHand, ReceivedIsHeldOrHandled
<1>8. InChan \cap InHand = {} /\ (InChan \cup InHand) \cap handled = {}
  BY <1>6, <1>7
<1>9. \A i, j \in 1 .. Len(payloadChan) : payloadChan[i] = payloadChan[j] => i = j
  BY <1>2 DEF ChanIsWindow
<1>10. \A v, w \in Workers : Holds(v) /\ Holds(w) /\ item[v] = item[w] => v = w
  BY <1>4 DEF ReceivedIsHeldOrHandled
<1>11. QED
  BY <1>5, <1>8, <1>9, <1>10 DEF NoTestLostOrDuplicated

(***************************************************************************)
(* Every combination the producer built is in the channel, with one worker *)
(* or handled, and in one of these places only.                            *)
(***************************************************************************)
THEOREM Delivery == Spec => []NoTestLostOrDuplicated
  BY InductiveInvariant, InvImpliesDelivery, PTL

(***************************************************************************)
(* The counter logged on SIGUSR1 is behind the handled requests by exactly *)
(* the workers that are about to count theirs, and never ahead of them.    *)
(***************************************************************************)
THEOREM Counting == Spec => []CounterTracksHandled
<1>1. IInv => CounterTracksHandled
  BY DEF IInv
<1>2. QED
  BY <1>1, InductiveInvariant, PTL

(***************************************************************************)
(* Run returns nil only when each test was handled and counted.            *)
(***************************************************************************)
THEOREM Completeness == Spec => []NilMeansComplete
<1>1. IInv => NilMeansComplete
  BY DEF IInv
<1>2. QED
  BY <1>1, InductiveInvariant, PTL

(***************************************************************************)
(* No worker runs once Run is past wg.Wait, where it closes the gRPC       *)
(* connection and main starts to read the results.                         *)
(***************************************************************************)
THEOREM Quiescence == Spec => []QuietAfterWait
<1>1. IInv => QuietAfterWait
  BY DEF IInv
<1>2. QED
  BY <1>1, InductiveInvariant, PTL

-----------------------------------------------------------------------------
(***************************************************************************)
(* ScanPool implements ScanRun.  Receive takes a test, SendPayload         *)
(* finishes it, Return succeeds or gives up, Cancel requests the stop; the *)
(* other steps are invisible.                                              *)
(***************************************************************************)
LEMMA AbstractInit == Init => Abstract!Init
  BY DEF Init, Abstract!Init, InHand, Holds

LEMMA InHandUnchanged ==
  ASSUME \A w \in Workers : Holds(w)' = Holds(w) /\ (Holds(w) => item'[w] = item[w])
  PROVE  InHand' = InHand
  BY DEF InHand

LEMMA AbstractStep == IInv /\ [Next]_vars => [Abstract!Next]_(Abstract!vars)
<1> SUFFICES ASSUME IInv, [Next]_vars
             PROVE  [Abstract!Next]_(Abstract!vars)
  OBVIOUS
<1> USE DEF prodVars, runVars
<1>1. TypeOK /\ ReceivedIsHeldOrHandled
  BY DEF IInv
<1>2. ASSUME UNCHANGED <<InHand, handled, canceled, result>>
      PROVE  UNCHANGED Abstract!vars
  BY <1>2 DEF Abstract!vars
<1>3. ASSUME NEW w \in Workers, Receive(w)
      PROVE  Abstract!Next
  <2> DEFINE h == Head(payloadChan)
  <2>1. h \in Tests /\ h \notin Received
    BY <1>3, WindowReceive DEF IInv
  <2>2. h \notin handled /\ h \notin InHand
    BY <2>1 DEF IInv, ReceivedIsHeldOrHandled, InHand, HasItem
  <2>3. pc[w] = "select" /\ pc'[w] = "delay" /\ item'[w] = h
    BY <1>1, <1>3 DEF Receive, TypeOK
  <2>4. \A v \in Workers \ {w} : pc'[v] = pc[v] /\ item'[v] = item[v]
    BY <1>1, <1>3 DEF Receive, TypeOK
  <2>5. InHand' = InHand \cup {h}
    BY <2>3, <2>4 DEF InHand, Holds
  <2>6. UNCHANGED <<handled, canceled, result>>
    BY <1>3 DEF Receive
  <2>7. result = "none"
    <3>1. runPc = "wait"
      BY <2>3 DEF IInv, QuietAfterWait
    <3>2. QED
      BY <3>1 DEF IInv, ResultIsLast
  <2> HIDE DEF h
  <2>8. Abstract!Take(h)
    BY <2>1, <2>2, <2>5, <2>6, <2>7 DEF Abstract!Take
  <2>9. QED
    BY <2>1, <2>8 DEF Abstract!Next
<1>4. ASSUME NEW w \in Workers, SendPayload(w)
      PROVE  Abstract!Next
  <2>1. Holds(w) /\ ~Holds(w)' /\ item[w] \in InHand
    BY <1>1, <1>4 DEF SendPayload, Holds, TypeOK, InHand
  <2>2. \A v \in Workers \ {w} : Holds(v)' = Holds(v) /\ item'[v] = item[v]
    BY <1>1, <1>4 DEF SendPayload, Holds, TypeOK
  <2>3. \A v \in Workers \ {w} : Holds(v) => item[v] # item[w]
    BY <1>1, <2>1 DEF ReceivedIsHeldOrHandled, HasItem
  <2>4. InHand' = InHand \ {item[w]}
    BY <2>1, <2>2, <2>3 DEF InHand
  <2>5. item[w] \in Tests
    BY <1>1, <2>1 DEF TypeOK, ReceivedIsHeldOrHandled, HasItem
  <2>6. handled' = handled \cup {item[w]} /\ UNCHANGED <<canceled, result>>
    BY <1>4 DEF SendPayload
  <2>7. Tests \ (InHand' \cup handled') = Tests \ (InHand \cup handled)
    BY <2>1, <2>4, <2>6
  <2>8. Abstract!Finish(item[w])
    BY <2>1, <2>4, <2>6, <2>7 DEF Abstract!Finish
  <2>9. QED
    BY <2>5, <2>8 DEF Abstract!Next
<1>5. ASSUME NEW w \in Workers, WorkerReturn(w) \/ Delay(w) \/ Count(w)
      PROVE  UNCHANGED Abstract!vars
  <2>1. \A v \in Workers : Holds(v)' = Holds(v) /\ (Holds(v) => item'[v] = item[v])
    BY <1>1, <1>5 DEF WorkerReturn, Delay, Count, Holds, TypeOK
  <2>2. UNCHANGED <<handled, canceled, result>>
    BY <1>5 DEF WorkerReturn, Delay, Count
  <2>3. QED
    BY <2>1, <2>2, <1>2, InHandUnchanged
<1>6. CASE Produce \/ ProducerReturn \/ WgWait \/ UNCHANGED vars
  <2>1. UNCHANGED <<pc, item, handled, canceled, result>>
    BY <1>6 DEF Produce, ProducerReturn, WgWait, vars
  <2>2. QED
    BY <2>1, <1>2 DEF InHand, Holds
<1>7. CASE Cancel
  <2>1. UNCHANGED <<InHand, handled, result>>
    BY <1>7 DEF Cancel, InHand, Holds
  <2>2. Abstract!RequestStop
    BY <1>7, <2>1 DEF Cancel, Abstract!RequestStop
  <2>3. QED
    BY <2>2 DEF Abstract!Next
<1>8. CASE Return
  <2>1. UNCHANGED <<InHand, handled, canceled>>
    BY <1>8 DEF Return, InHand, Holds
  <2>2. InHand = {}
    BY <1>8 DEF Return, IInv, QuietAfterWait, InHand, Holds
  <2>3. result = "none"
    BY <1>8 DEF Return, IInv, ResultIsLast
  <2>4. CASE canceled
    <3>1. Abstract!GiveUp
      BY <1>8, <2>1, <2>2, <2>3, <2>4 DEF Return, Abstract!GiveUp
    <3>2. QED
      BY <3>1 DEF Abstract!Next
  <2>5. CASE ~canceled
    <3>1. result' = "nil"
      BY <1>8, <2>5 DEF Return
    <3>2. handled = Tests
      BY <2>1, <3>1, InvStep DEF IInv, NilMeansComplete, Tests
    <3>3. Abstract!Succeed
      BY <2>1, <2>3, <2>5, <3>1, <3>2 DEF Abstract!Succeed
    <3>4. QED
      BY <3>3 DEF Abstract!Next
  <2>6. QED
    BY <2>4, <2>5
<1>9. QED
  BY <1>3, <1>4, <1>5, <1>6, <1>7, <1>8 DEF Next, WorkerStep, Terminated

(***************************************************************************)
(* The goroutines of Run keep the promise of ScanRun.                      *)
(***************************************************************************)
THEOREM Refinement == Spec => ImplementsScanRun
  BY AbstractInit, AbstractStep, InductiveInvariant, PTL
     DEF Spec, ImplementsScanRun, Abstract!Spec
=============================================================================
