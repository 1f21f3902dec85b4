---------------------------- MODULE MCPrechecks ----------------------------
(* The paths of the GraphQL client and two answers, for TLC.               *)
EXTENDS Prechecks

MCEndpoints == <<"/graphql", "/_graphql", "/api/graphql", "/GraphQL">>

MCAnswers == {{}, {"Server: AkamaiGHost"}}
=============================================================================
