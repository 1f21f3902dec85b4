---------------------------- MODULE GrpcClient ----------------------------
(***************************************************************************)
(* The gRPC client, shared by the workers of a scan.  Its connection is    *)
(* dialed by whichever SendPayload finds none, with no lock around the     *)
(* check, the dial and the use: each is a step here.  The assignment of    *)
(* the dial's results stores a nil connection when the dial fails.         *)
(*                                                                         *)
(* Accesses to the field are modelled as sequentially consistent, the      *)
(* least a build can do: the races below need no weaker memory.            *)
(***************************************************************************)
EXTENDS Naturals, FiniteSets

CONSTANTS
  Workers,
  MaxDials        \* bound: connections ever dialed

ASSUME WorkersAssumption == IsFiniteSet(Workers)
ASSUME MaxDialsAssumption == MaxDials \in Nat

VARIABLES
  conn,           \* c.conn
  opened,         \* connections dialed so far
  open,           \* those not closed
  pc,             \* where each worker is in SendPayload
  stub,           \* the connection a worker's service client was made from
  closed,         \* Run's deferred Close has run
  dialFailed      \* history: some dial was refused or timed out

vars == <<conn, opened, open, pc, stub, closed, dialFailed>>

Nil == 0
Conns == 1 .. MaxDials

Init ==
  /\ conn = Nil
  /\ opened = {} /\ open = {}
  /\ pc = [w \in Workers |-> "idle"]
  /\ stub = [w \in Workers |-> Nil]
  /\ closed = FALSE
  /\ dialFailed = FALSE

Goto(w, label) == pc' = [pc EXCEPT ![w] = label]

\* Mutant of Check: every request dials.
Check_AlwaysDials(w) ==
  /\ pc[w] = "idle"
  /\ Goto(w, "dial")
  /\ UNCHANGED <<conn, opened, open, stub, closed, dialFailed>>

\* The payload is encoded; if c.conn == nil
Check(w) ==
  /\ pc[w] = "idle"
  /\ Goto(w, IF conn = Nil THEN "dial" ELSE "connected")
  /\ UNCHANGED <<conn, opened, open, stub, closed, dialFailed>>

\* c.conn, err = grpc.DialContext(...)
DialSucceeds(w) ==
  /\ pc[w] = "dial"
  /\ \E c \in Conns \ opened :
       /\ conn' = c
       /\ opened' = opened \cup {c}
       /\ open' = open \cup {c}
  /\ Goto(w, "connected")
  /\ UNCHANGED <<stub, closed, dialFailed>>

\* The same assignment with an error; SendPayload returns it.
DialFails(w) ==
  /\ pc[w] = "dial"
  /\ conn' = Nil
  /\ dialFailed' = TRUE
  /\ Goto(w, "idle")
  /\ UNCHANGED <<opened, open, stub, closed>>

\* NewServiceFooBarClient(c.conn): the field is read again.  A call on a nil
\* connection is a nil pointer dereference.
MakeStub(w) ==
  /\ pc[w] = "connected"
  /\ stub' = [stub EXCEPT ![w] = conn]
  /\ Goto(w, IF conn = Nil THEN "panicked" ELSE "call")
  /\ UNCHANGED <<conn, opened, open, closed, dialFailed>>

\* client.Foo returns a value, or an error that becomes a status code.
CallReturns(w) ==
  /\ pc[w] = "call"
  /\ stub' = [stub EXCEPT ![w] = Nil]
  /\ Goto(w, "idle")
  /\ UNCHANGED <<conn, opened, open, closed, dialFailed>>

\* The worker leaves the pool.
WorkerReturns(w) ==
  /\ pc[w] = "idle"
  /\ Goto(w, "returned")
  /\ UNCHANGED <<conn, opened, open, stub, closed, dialFailed>>

\* Mutant of Close: closing does not wait for the workers.
Close_Early ==
  /\ ~closed
  /\ closed' = TRUE
  /\ open' = open \ {conn}
  /\ UNCHANGED <<conn, opened, pc, stub, dialFailed>>

\* Run's deferred Close, after wg.Wait: closes c.conn if there is one.
Close ==
  /\ ~closed
  /\ \A w \in Workers : pc[w] = "returned"
  /\ closed' = TRUE
  /\ open' = open \ {conn}
  /\ UNCHANGED <<conn, opened, pc, stub, dialFailed>>

NoPanic == \A w \in Workers : pc[w] # "panicked"

Next ==
  /\ NoPanic
  /\ \/ \E w \in Workers :
          \/ Check(w)
          \/ DialSucceeds(w)
          \/ DialFails(w)
          \/ MakeStub(w)
          \/ CallReturns(w)
          \/ WorkerReturns(w)
     \/ Close

Spec == Init /\ [][Next]_vars

-----------------------------------------------------------------------------

\* A request is only ever sent over a connection that is open: the one Close of
\* the scan comes after the last request.
CallsUseOpenConnections ==
  \A w \in Workers : pc[w] = "call" => stub[w] \in open

\* Until a dial fails, no worker dials twice, however they interleave: the field
\* is never nil again, and the race costs at most a connection per worker.
DialsAreBounded ==
  ~dialFailed =>
    /\ Cardinality(opened) <= Cardinality(Workers)
    /\ \A w \in Workers : pc[w] \in {"connected", "call"} => conn # Nil

\* client.go:195, of the check before the call: "Set up a connection to the
\* server".  A worker may find none behind it.
ConnectionIsSetUp == NoPanic

-----------------------------------------------------------------------------
(* The inductive invariant behind CallsUseOpenConnections.                 *)

TypeOK ==
  /\ conn \in Conns \cup {Nil}
  /\ opened \subseteq Conns /\ open \subseteq opened
  /\ pc \in [Workers -> {"idle", "dial", "connected", "call", "returned", "panicked"}]
  /\ stub \in [Workers -> Conns \cup {Nil}]
  /\ closed \in BOOLEAN
  /\ dialFailed \in BOOLEAN

\* Until Close every connection stays open; after it nobody is left to use one.
OpenUntilClose ==
  /\ ~closed => open = opened
  /\ conn # Nil => conn \in opened
  /\ closed => \A w \in Workers : pc[w] = "returned"

IInv == TypeOK /\ OpenUntilClose /\ CallsUseOpenConnections
=============================================================================
