-------------------------- MODULE GrpcClientProofs --------------------------
(***************************************************************************)
(* For any number of workers and dials, whatever dials fail: a request is  *)
(* sent over an open connection only, and until a dial fails there are no  *)
(* more connections than workers.                                          *)
(***************************************************************************)
EXTENDS GrpcClient, FiniteSetTheorems, TLAPS

\* A scan starts without a connection and without a worker using one.
LEMMA InitIInv == Init => IInv
BY DEF Init, IInv, TypeOK, OpenUntilClose, CallsUseOpenConnections, Nil

\* Connections are only added, until Close, which finds every worker gone.
LEMMA NextIInv ==
  ASSUME IInv, [Next]_vars
  PROVE  IInv'
<1> USE DEF IInv, TypeOK, OpenUntilClose, CallsUseOpenConnections, Goto
<1>1. ASSUME NEW w \in Workers, Check(w)
      PROVE  IInv'
  BY <1>1 DEF Check
<1>2. ASSUME NEW w \in Workers, DialSucceeds(w)
      PROVE  IInv'
  BY <1>2 DEF DialSucceeds
<1>3. ASSUME NEW w \in Workers, DialFails(w)
      PROVE  IInv'
  BY <1>3 DEF DialFails
<1>4. ASSUME NEW w \in Workers, MakeStub(w)
      PROVE  IInv'
  BY <1>4 DEF MakeStub
<1>5. ASSUME NEW w \in Workers, CallReturns(w)
      PROVE  IInv'
  BY <1>5 DEF CallReturns
<1>6. ASSUME NEW w \in Workers, WorkerReturns(w)
      PROVE  IInv'
  BY <1>6 DEF WorkerReturns
<1>7. CASE Close
  BY <1>7 DEF Close
<1>8. CASE UNCHANGED vars
  BY <1>8 DEF vars
<1> QED BY <1>1, <1>2, <1>3, <1>4, <1>5, <1>6, <1>7, <1>8 DEF Next

\* Every call of every worker goes over a connection that is open.
THEOREM OpenConnections == Spec => []CallsUseOpenConnections
<1>1. IInv => CallsUseOpenConnections
  BY DEF IInv
<1> QED BY <1>1, InitIInv, NextIInv, PTL DEF Spec

-----------------------------------------------------------------------------
(* The race of the dials.                                                  *)

Dialing == {w \in Workers : pc[w] = "dial"}

\* Until a dial fails: once there is a connection no worker begins to dial, so
\* each connection is the one dial of a worker that is not dialing any more.
DialInv ==
  ~dialFailed =>
    /\ Cardinality(opened) + Cardinality(Dialing) <= Cardinality(Workers)
    /\ conn = Nil => opened = {}
    /\ \A w \in Workers : pc[w] \in {"connected", "call"} => conn # Nil

LEMMA DialingIsFinite ==
  /\ IsFiniteSet(Dialing)
  /\ Cardinality(Dialing) \in Nat
  /\ Cardinality(Workers) \in Nat
  /\ Cardinality(Dialing) <= Cardinality(Workers)
<1>1. Dialing \subseteq Workers
  BY DEF Dialing
<1> QED BY <1>1, WorkersAssumption, FS_Subset, FS_CardinalityType

\* No connection was opened and no worker has begun or ended a dial.
LEMMA SameDials ==
  ASSUME DialInv, UNCHANGED <<opened, dialFailed>>, Dialing' = Dialing,
         conn' = Nil => opened = {},
         \A w \in Workers : pc'[w] \in {"connected", "call"} => conn' # Nil
  PROVE  DialInv'
BY DEF DialInv

LEMMA DialStep ==
  ASSUME IInv, IInv', DialInv, [Next]_vars
  PROVE  DialInv'
<1> USE DEF IInv, TypeOK, OpenUntilClose, Goto
<1>1. ASSUME NEW w \in Workers, Check(w)
      PROVE  DialInv'
  <2>1. CASE conn = Nil /\ ~dialFailed
    <3>1. opened' = {}
      BY <1>1, <2>1 DEF Check, DialInv
    <3>2. Cardinality(opened') = 0
      BY <3>1, FS_EmptySet
    <3>3. Dialing' \subseteq Workers
      BY DEF Dialing
    <3>4. Cardinality(Dialing') \in Nat /\ Cardinality(Dialing') <= Cardinality(Workers)
      BY <3>3, WorkersAssumption, FS_Subset, FS_CardinalityType
    <3> QED BY <1>1, <2>1, <3>1, <3>2, <3>4 DEF Check, DialInv
  <2>2. CASE conn # Nil
    <3>1. Dialing' = Dialing
      BY <1>1, <2>2 DEF Check, Dialing
    <3> QED BY <1>1, <2>2, <3>1, SameDials DEF Check
  <2>3. CASE dialFailed
    BY <1>1, <2>3 DEF Check, DialInv
  <2> QED BY <2>1, <2>2, <2>3
<1>2. ASSUME NEW w \in Workers, DialSucceeds(w)
      PROVE  DialInv'
  <2>1. PICK c \in Conns \ opened : conn' = c /\ opened' = opened \cup {c}
    BY <1>2 DEF DialSucceeds
  <2>2. Dialing' = Dialing \ {w} /\ w \in Dialing
    BY <1>2 DEF DialSucceeds, Dialing
  <2>3. Cardinality(Dialing') = Cardinality(Dialing) - 1
    BY <2>2, DialingIsFinite, FS_RemoveElement
  <2>4. IsFiniteSet(Conns)
    BY MaxDialsAssumption, FS_Interval DEF Conns
  <2>5. IsFiniteSet(opened) /\ Cardinality(opened) \in Nat
    BY <2>4, FS_Subset, FS_CardinalityType
  <2>6. Cardinality(opened') = Cardinality(opened) + 1
    BY <2>1, <2>5, FS_AddElement
  <2>7. conn' # Nil
    BY <2>1, MaxDialsAssumption DEF Conns, Nil
  <2> QED BY <1>2, <2>3, <2>5, <2>6, <2>7, DialingIsFinite DEF DialSucceeds, DialInv
<1>3. ASSUME NEW w \in Workers, DialFails(w)
      PROVE  DialInv'
  BY <1>3 DEF DialFails, DialInv
<1>4. ASSUME NEW w \in Workers, MakeStub(w) \/ CallReturns(w) \/ WorkerReturns(w)
      PROVE  DialInv'
  <2>1. Dialing' = Dialing
    BY <1>4 DEF MakeStub, CallReturns, WorkerReturns, Dialing
  <2>2. CASE dialFailed
    BY <1>4, <2>2 DEF MakeStub, CallReturns, WorkerReturns, DialInv
  <2>3. CASE ~dialFailed
    BY <1>4, <2>1, <2>3, SameDials DEF MakeStub, CallReturns, WorkerReturns, DialInv
  <2> QED BY <2>2, <2>3
<1>5. CASE Close
  BY <1>5 DEF Close, DialInv, Dialing
<1>6. CASE UNCHANGED vars
  BY <1>6 DEF vars, DialInv, Dialing
<1> QED BY <1>1, <1>2, <1>3, <1>4, <1>5, <1>6 DEF Next

\* Until a dial fails, no worker dials twice, however they interleave.
THEOREM BoundedDials == Spec => []DialsAreBounded
<1>1. Init => DialInv
  <2> SUFFICES ASSUME Init PROVE DialInv
    OBVIOUS
  <2>1. Cardinality(opened) = 0
    BY FS_EmptySet DEF Init
  <2> QED BY <2>1, DialingIsFinite DEF Init, DialInv
<1>2. IInv /\ IInv' /\ DialInv /\ [Next]_vars => DialInv'
  BY DialStep
<1>3. IInv /\ DialInv => DialsAreBounded
  <2> SUFFICES ASSUME IInv, DialInv, ~dialFailed
               PROVE  Cardinality(opened) <= Cardinality(Workers)
    BY DEF DialInv, DialsAreBounded
  <2>1. IsFiniteSet(Conns)
    BY MaxDialsAssumption, FS_Interval DEF Conns
  <2>2. Cardinality(opened) \in Nat
    BY <2>1, FS_Subset, FS_CardinalityType DEF IInv, TypeOK
  <2> QED BY <2>2, DialingIsFinite DEF DialInv
<1> QED BY <1>1, <1>2, <1>3, InitIInv, NextIInv, PTL DEF Spec
=============================================================================
