----------------------------- MODULE MCProgram -----------------------------
(* Values of Program's constants, and a bound on its flags, for TLC.       *)
EXTENDS Program

MCEndpoints == <<"/graphql", "/_graphql", "/api/graphql", "/GraphQL">>

\* Pages without a mark, with one that is evidence of a WAF in any answer, only in
\* the answer to a plain request, only together with another mark, and of two WAFs.
MCAnswers ==
  {{}, {"Server: AkamaiGHost"}, {"Set-Cookie: MRHSession"}, {"Server: BigIP"},
   {"reason: ModSecurity Action", "status: 403"},
   {"reason: ModSecurity Action", "status: 403", "Set-Cookie: TS"}}

NoReport == [formats |-> <<"none">>, noEmailReport |-> TRUE, email |-> FALSE,
             includePayloads |-> FALSE]

\* Bound: all flags of the pre-checks of a WAF not identified with no report, those
\* of the identified WAF with one path of GraphQL and no report, and all flags of
\* the report with the shortest pre-checks.  No step reads flags of two of them.
MCInit ==
  /\ Init
  /\ \/ cfg.skipWAFIdentification /\ options = NoReport
     \/ ~cfg.skipWAFIdentification /\ ~cfg.grpcPort /\ cfg.graphqlURL /\ options = NoReport
     \/ cfg = [skipWAFIdentification |-> TRUE, chrome |-> TRUE,
               skipWAFBlockCheck |-> TRUE, blockConnReset |-> FALSE,
               grpcPort |-> FALSE, graphqlURL |-> TRUE]

MCSpec == MCInit /\ [][Next]_vars

MCFairSpec == MCSpec /\ Fairness
=============================================================================
