---------------------------- MODULE MCHtmlReport ----------------------------
(* A test set with two cases, of different types, among the API attacks.   *)
EXTENDS HtmlReport, TLC

CONSTANTS attackApp, attackApi, attackGrpc, benignApp, benignApi

MCTestSet ==
  attackApp :> "community" @@ attackApi :> "owasp-api" @@ attackGrpc :> "owasp-api" @@
  benignApp :> "false-pos" @@ benignApi :> "false-pos-api"

MCType ==
  attackApp :> "sql" @@ attackApi :> "rest" @@ attackGrpc :> "grpc" @@
  benignApp :> "text" @@ benignApi :> "rest"
=============================================================================
