----------------------------- MODULE MCOpenApi -----------------------------
(***************************************************************************)
(* Documents for OpenApi: small ones, each with one feature or two of the  *)
(* format, among them recursive schemas, limits no value keeps, and parts  *)
(* the parser does not support.                                            *)
(***************************************************************************)
EXTENDS OpenApi, TLC

Node(type) ==
  [type |-> type, combine |-> "none", inner |-> <<>>, props |-> <<>>,
   min |-> 0, max |-> NoLimit, exMin |-> FALSE, exMax |-> FALSE, xml |-> ""]
Text(min, max) == [Node("string") EXCEPT !.min = min, !.max = max]
Fields(props) == [Node("object") EXCEPT !.props = props]
ListOf(n) == [Node("array") EXCEPT !.inner = <<n>>]
Combined(how, members) == [Node("none") EXCEPT !.combine = how, !.inner = members]

MCSchema ==
  "text" :> Text(0, NoLimit) @@
  "short" :> Text(0, 2) @@ "long" :> Text(3, 4) @@ "cramped" :> Text(0, 1) @@
  "crossed" :> Text(4, 3) @@
  "int" :> Node("integer") @@ "five" :> [Node("integer") EXCEPT !.min = 5, !.max = 5] @@
  "noInt" :> [Node("integer") EXCEPT !.min = 5, !.max = 6, !.exMin = TRUE, !.exMax = TRUE] @@
  "large" :> [Node("number") EXCEPT !.min = NoLimit + 1] @@
  "flag" :> Node("boolean") @@ "any" :> Node("none") @@
  "texts" :> ListOf("text") @@ "ints" :> ListOf("int") @@ "anys" :> ListOf("any") @@
  "noInts" :> [ListOf("int") EXCEPT !.min = 6, !.max = 5] @@
  "named" :> [Text(0, NoLimit) EXCEPT !.xml = "n"] @@
  "user" :> Fields("a" :> "text" @@ "b" :> "int") @@
  "order" :> Fields("u" :> "user" @@ "l" :> "texts" @@ "n" :> "named") @@
  "crampedUser" :> Fields("a" :> "int" @@ "c" :> "cramped") @@
  "lengths" :> Fields("s" :> "short" @@ "l" :> "long") @@
  "count" :> Fields("a" :> "int" @@ "f" :> "flag") @@
  "badCount" :> Fields("a" :> "large") @@
  "loop" :> Fields("next" :> "chain" @@ "v" :> "text") @@ "chain" :> ListOf("loop") @@
  "both" :> Combined("allOf", <<"lengths", "count">>) @@
  "either" :> Combined("oneOf", <<"count", "user", "lengths">>) @@
  "neither" :> Combined("oneOf", <<"count">>) @@
  "clash" :> Combined("allOf", <<"user", "count">>) @@
  "hidden" :> Combined("allOf", <<"user", "rest">>) @@
  "rest" :> Combined("allOf", <<"count">>) @@
  "twins" :> Fields("a" :> "named" @@ "b" :> "namesake") @@
  "namesake" :> [Node("integer") EXCEPT !.xml = "n"] @@
  "parts" :> Fields("p" :> "both" @@ "b" :> "int") @@
  "scalars" :> Combined("allOf", <<"user", "text">>)

Param(in, name, n) ==
  [name |-> name, in |-> in, badStyle |-> FALSE, from |-> "schema", node |-> n]
Op(parameters, bodies) == [params |-> parameters, common |-> <<>>, bodies |-> bodies]

Id == Param("path", "id", "text")

\* An operation with parameters of its path.
OpOf(common, parameters, bodies) == [Op(parameters, bodies) EXCEPT !.common = common]

\* Two methods of a path with a common parameter, which one of them replaces.
Common ==
  "/c" :> ("GET" :> OpOf(<<Id>>, <<Param("path", "id", "short")>>, <<>>) @@
           "POST" :> OpOf(<<Id>>, <<>>, "json" :> "user"))

\* A scan of two paths with a few methods, and documents of one operation.
Whole ==
  "/u" :> ("GET" :> Op(<<Id, Param("query", "q", "texts")>>, <<>>) @@
           "HEAD" :> Op(<<Id>>, <<>>) @@
           "POST" :> Op(<<Id, Param("header", "h", "short")>>, "json" :> "order")) @@
  "/v" :> ("PUT" :> Op(<<Param("path", "n", "int")>>, "json" :> "user" @@ "xml" :> "order"))

One(method, op) == "/x" :> (method :> op)

Params ==
  {Param(in, "p", n) : in \in {"path", "query", "header"},
     n \in {"text", "long", "int", "five", "noInt", "flag", "texts", "ints", "noInts",
            "anys",
            "user", "loop", "any"}}
  \cup {Param("cookie", "p", "text"), [Param("path", "p", "text") EXCEPT !.badStyle = TRUE],
        [Param("path", "p", "text") EXCEPT !.from = "json"],
        [Param("query", "p", "user") EXCEPT !.from = "other"],
        [Param("header", "p", "user") EXCEPT !.from = "json"]}

Bodies ==
  {ct :> n : ct \in {"json", "xml", "form", "text"},
     n \in {"text", "texts", "user", "order", "crampedUser", "crossed", "lengths",
            "count", "badCount", "loop", "both", "either", "neither", "clash",
            "hidden", "twins", "parts", "scalars", "any", None}}
  \cup {"text" :> "user" @@ "octets" :> "lengths", "form" :> "lengths" @@ "json" :> "count"}

MCDocuments ==
  {Whole, Common, One("HEAD", Op(<<Id>>, <<>>))}
  \cup {One("GET", Op(<<Id, p>>, <<>>)) : p \in Params}
  \cup {One("POST", Op(<<Id>>, b)) : b \in Bodies}

MCLengths == 0 .. 5
=============================================================================
