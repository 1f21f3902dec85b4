----------------------------- MODULE MCScanner -----------------------------
(* Values of Scanner's function-valued constants for TLC.                  *)
EXTENDS Scanner, TLC

\* Odd tests belong to one case, even tests to the other.
MCCaseOf == [t \in 1 .. NumTests |-> IF t % 2 = 1 THEN "attack" ELSE "benign"]

\* The first test's placeholder has two templates, no other has any.
MCTemplates == [t \in 1 .. NumTests |-> IF t = 1 THEN <<"p1", "p2">> ELSE <<>>]

\* Bound: either both flags of the unresolved tests are set or none is; with one
\* of them updateDB does what it does with both (Statistics has all four).
\* Likewise blockConnReset of a scan with Chrome, where only GraphQL has resets.
MCInit ==
  /\ Init
  /\ ignoreUnresolved = nonBlockedAsPassed
  /\ cfg.chrome => ~cfg.blockConnReset

MCSpec == MCInit /\ [][Next]_vars

MCSymmetry == Permutations(Workers)
=============================================================================
