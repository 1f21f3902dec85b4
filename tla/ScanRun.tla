------------------------------ MODULE ScanRun ------------------------------
(***************************************************************************)
(* What a call of Scanner.Run promises, without goroutines or channels:    *)
(* every test of the database is taken by at most one worker, is handled   *)
(* at most once, and the call returns nil only after all of them were      *)
(* handled, and the cancellation error only after the context was          *)
(* cancelled.  ScanPool, the pool of goroutines, implements it.            *)
(***************************************************************************)

CONSTANT Tests      \* the tests of the database

VARIABLES
  pending,          \* tests no worker has taken yet
  inFlight,         \* tests some worker is sending
  finished,         \* tests whose sendPayload has returned
  stopRequested,    \* the context has been cancelled
  outcome           \* what Run returned: "none" while it runs

vars == <<pending, inFlight, finished, stopRequested, outcome>>

Init ==
  /\ pending = Tests
  /\ inFlight = {}
  /\ finished = {}
  /\ stopRequested = FALSE
  /\ outcome = "none"

Take(t) ==
  /\ outcome = "none"
  /\ t \in pending
  /\ pending' = pending \ {t}
  /\ inFlight' = inFlight \cup {t}
  /\ UNCHANGED <<finished, stopRequested, outcome>>

Finish(t) ==
  /\ t \in inFlight
  /\ inFlight' = inFlight \ {t}
  /\ finished' = finished \cup {t}
  /\ UNCHANGED <<pending, stopRequested, outcome>>

RequestStop ==
  /\ ~stopRequested
  /\ stopRequested' = TRUE
  /\ UNCHANGED <<pending, inFlight, finished, outcome>>

\* A run that was not cancelled reports success, with nothing left to do.
Succeed ==
  /\ outcome = "none"
  /\ ~stopRequested
  /\ finished = Tests
  /\ outcome' = "nil"
  /\ UNCHANGED <<pending, inFlight, finished, stopRequested>>

\* A cancelled run may leave tests pending, never one in flight.
GiveUp ==
  /\ outcome = "none"
  /\ stopRequested
  /\ inFlight = {}
  /\ outcome' = "canceled"
  /\ UNCHANGED <<pending, inFlight, finished, stopRequested>>

Next ==
  \/ \E t \in Tests : Take(t) \/ Finish(t)
  \/ RequestStop
  \/ Succeed
  \/ GiveUp

Spec == Init /\ [][Next]_vars
=============================================================================
