------------------------------ MODULE OpenApi ------------------------------
(***************************************************************************)
(* The request templates of an OpenAPI document: NewTemplates turns every  *)
(* operation into a template and groups them by the placeholders of the    *)
(* test cases they can serve; CreateRequest puts a payload into one.       *)
(*                                                                         *)
(* A payload is its length, which is all that decides where it goes; a     *)
(* field of a request holds the payload or a value of its own.  A document *)
(* is one LoadOpenAPISpec accepts.                                         *)
(***************************************************************************)
EXTENDS OpenApiSchema

CONSTANTS
  Documents,       \* documents by path: per method of the path, an operation
  Lengths,         \* bound: the lengths of the payloads that are sent
  None

VARIABLES
  doc,             \* fixed: the document
  paths,           \* paths NewTemplates has not reached
  path,            \* the path pathTemplates is at
  methods,         \* the methods of that path it has still to look at, a set
  params,          \* of the operation it is at: the parsed parameters, or None
  contents,        \*   and the content types of its body still to be visited,
  body,            \*   the strings in the body, by what the body is used for,
  limits,          \*   and requestBodyParameters, their length limits
  templates,       \* unsortedTemplates
  state,           \* "parsing", "ready", or how NewTemplates ended: "error", "panic"
  request          \* what CreateRequest has returned last

opVars == <<params, contents, body, limits>>
vars == <<doc, paths, path, methods, opVars, templates, state, request>>

\* The order of pathTemplates.
Methods ==
  <<"CONNECT", "DELETE", "GET", "HEAD", "OPTIONS", "PATCH", "POST", "PUT", "TRACE">>

\* A document maps the paths to their operations by method.  An operation has
\* parameters of its own, those its path has in common for every method, and a
\* schema per content type of its body; a parameter has a place, may have a style
\* the code does not know, and takes its schema from the parameter itself, from
\* JSON content or from content of another type.  Parameters of one place have
\* different names, as LoadOpenAPISpec validates; one of an operation may have the
\* name of a common one, and replaces it then.
Places == {"path", "query", "header", "cookie"}
ContentTypes == {"json", "xml", "form", "text", "octets"}

Parameters ==
  Seq([name : STRING, in : Places, badStyle : BOOLEAN,
       from : {"schema", "json", "other"}, node : Nodes])

\* No two of them have the same name and place.
Distinct(parameters) ==
  \A i, j \in DOMAIN parameters :
    /\ parameters[i].in = parameters[j].in
    /\ parameters[i].name = parameters[j].name
    => i = j

ASSUME DocumentsAssumption ==
  /\ Lengths \subseteq Nat
  /\ \A d \in Documents : None \notin DOMAIN d
  /\ \A d \in Documents : \A p \in DOMAIN d : \A m \in DOMAIN d[p] :
       /\ m \in {Methods[i] : i \in DOMAIN Methods}
       /\ DOMAIN d[p][m].bodies \subseteq ContentTypes
       /\ \A ct \in DOMAIN d[p][m].bodies : d[p][m].bodies[ct] \in Nodes \cup {None}
       /\ d[p][m].params \in Parameters /\ Distinct(d[p][m].params)
       /\ d[p][m].common \in Parameters /\ Distinct(d[p][m].common)
       /\ \A n \in DOMAIN d[p] : d[p][n].common = d[p][m].common

-----------------------------------------------------------------------------
(* parseParameters: the parameters of an operation.                        *)

\* A parameterSpec, or the ways the call may end without one.
Spec_(n, type, fails) ==
  [type |-> type, min |-> Schema[n].min, max |-> Schema[n].max, fails |-> fails]
Unsupported(n) == Spec_(n, "", {"error"})

Numbers == {"number", "integer"}
Scalars == Numbers \cup {"string"}

Scalar(n, type) ==
  Spec_(n, type, IF type \in Numbers /\ NumberPanics(Schema[n]) THEN {"panic"} ELSE {})

\* parsePathParameter.  It reads the schema without a look at the content.
PathParameter(p) ==
  LET type == Schema[p.node].type
  IN  IF p.badStyle THEN Unsupported(p.node)
      ELSE IF p.from # "schema" THEN Spec_(p.node, "", {"panic"})
      ELSE IF type \in Scalars THEN Scalar(p.node, type)
      ELSE Unsupported(p.node)

\* The items of an array decide its type, with the limits of the array; an
\* array whose items have no type is a nil pointer.
ArrayParameter(n) ==
  LET type == Schema[Schema[n].inner[1]].type
  IN  IF type = "none" THEN Spec_(n, "", {"panic"})
      ELSE IF type \in Scalars THEN Scalar(n, type)
      ELSE Unsupported(n)

ObjectParameter(n) == Spec_(n, "object", Visited(n, FALSE).fails)

\* parseQueryParameter
QueryParameter(p) ==
  LET type == Schema[p.node].type
  IN  IF p.badStyle \/ p.from = "other" THEN Unsupported(p.node)
      ELSE CASE type \in Scalars -> Scalar(p.node, type)
             [] type = "array" -> ArrayParameter(p.node)
             [] type = "object" -> ObjectParameter(p.node)
             [] type = "boolean" -> Spec_(p.node, type, {})
             [] type = "none" -> Unsupported(p.node)

\* parseHeaderParameter.  An object has to be JSON; that is looked at after its
\* schema is visited.
HeaderParameter(p) ==
  LET type == Schema[p.node].type
  IN  IF p.badStyle \/ p.from = "other" THEN Unsupported(p.node)
      ELSE CASE type \in Scalars -> Scalar(p.node, type)
             [] type = "object" ->
                  [ObjectParameter(p.node) EXCEPT
                     !.fails = IF @ = {} /\ p.from = "schema" THEN {"error"} ELSE @]
             [] type \in {"array", "boolean", "none"} -> Unsupported(p.node)

Parameter(p) ==
  CASE p.in = "path" -> PathParameter(p)
    [] p.in = "query" -> QueryParameter(p)
    [] p.in = "header" -> HeaderParameter(p)
    [] p.in = "cookie" -> Unsupported(p.node)

PlaceholderOf(place) ==
  CASE place = "path" -> "URLPath"
    [] place = "query" -> "URLParam"
    [] place = "header" -> "Header"

BodyPlaceholders(ct) ==
  CASE ct = "json" -> {"JSONRequest", "JSONBody"}
    [] ct = "xml" -> {"XMLBody"}
    [] ct = "form" -> {"HTMLForm"}
    [] ct \in {"text", "octets"} -> {"RequestBody"}

Placeholders == {"URLPath", "URLParam", "Header", "JSONBody", "JSONRequest",
                 "XMLBody", "HTMLForm", "RequestBody"}

-----------------------------------------------------------------------------
(* NewTemplates.                                                           *)

Init ==
  /\ doc \in Documents
  /\ paths = DOMAIN doc
  /\ path = None
  /\ methods = {}
  /\ params = None /\ contents = {} /\ body = <<>> /\ limits = <<>>
  /\ templates = <<>>
  /\ state = "parsing"
  /\ request = None

\* The loop over the paths, a map.
NextPath(p) ==
  /\ state = "parsing" /\ path = None
  /\ p \in paths
  /\ path' = p
  /\ paths' = paths \ {p}
  /\ methods' = DOMAIN doc[p]
  /\ UNCHANGED <<doc, opVars, templates, state, request>>

\* The branch for HEAD hands over the operation of GET, and its name.
OperationFor(method) == IF method = "HEAD" THEN "GET" ELSE method

AtOperation == state = "parsing" /\ path # None /\ methods # {}

\* The first of the methods left.
NextMethod ==
  Methods[CHOOSE i \in DOMAIN Methods :
            Methods[i] \in methods /\ \A j \in 1 .. i - 1 : Methods[j] \notin methods]
Method == OperationFor(NextMethod)
Operation == doc[path][Method]

Dies(fails) ==
  /\ state' \in fails
  /\ UNCHANGED <<doc, paths, path, methods, opVars, templates, request>>

\* The operation of HEAD may be nil.
NilOperation ==
  /\ AtOperation /\ Method \notin DOMAIN doc[path]
  /\ Dies({"panic"})

\* parseParameters, which is given the operation's own parameters; the first that
\* fails ends it.
ParseParameters ==
  /\ AtOperation /\ Method \in DOMAIN doc[path] /\ params = None
  /\ \E specs \in {[i \in DOMAIN Operation.params |-> Parameter(Operation.params[i])]} :
       \/ /\ \A i \in DOMAIN specs : specs[i].fails = {}
          /\ params' = specs
          /\ contents' = DOMAIN Operation.bodies
          /\ UNCHANGED <<doc, paths, path, methods, body, limits, templates, state, request>>
       \/ \E i \in DOMAIN specs :
            /\ \A j \in 1 .. i - 1 : specs[j].fails = {}
            /\ Dies(specs[i].fails)

\* The body of a content type without a schema is a nil pointer.  A form has to
\* be an object, an XML text an object or a value that was wrapped.
BodyFails(ct, plain, xml) ==
  IF plain.fails # {} THEN plain.fails
  ELSE IF ct = "xml" /\ xml.fails # {} THEN xml.fails
  ELSE IF \/ ct = "form" /\ plain.kind # "map"
          \/ ct = "xml" /\ xml.kind # "map"
  THEN {"error"}
  ELSE {}

BodyKey(ct) == IF ct \in {"text", "octets"} THEN "plain" ELSE ct

\* The strings a body is made with: for a text one of them, any, alone.
Strings(ct, r) ==
  IF BodyKey(ct) = "plain" THEN {{ph} : ph \in DOMAIN r.spec} ELSE {InBody(r)}

\* The loop over the content types, a map.  XML is visited twice, as any other
\* schema and as XML.
ParseBody(ct) ==
  /\ AtOperation /\ params # None /\ ct \in contents
  /\ Operation.bodies[ct] # None
  /\ \E plain \in {Visited(Operation.bodies[ct], FALSE)},
        xml \in {Visited(Operation.bodies[ct], TRUE)} :
       LET r == IF ct = "xml" THEN xml ELSE plain
       IN  \/ /\ BodyFails(ct, plain, xml) = {}
              /\ IF Strings(ct, r) = {} THEN UNCHANGED body
                 ELSE \E strings \in Strings(ct, r) :
                        body' = Over(Entry(BodyKey(ct), {<<ct, ph>> : ph \in strings}), body)
              /\ limits' =
                   Over([f \in {<<ct, ph>> : ph \in DOMAIN r.spec} |->
                           [type |-> "string", min |-> r.spec[f[2]].min,
                            max |-> r.spec[f[2]].max]], limits)
              /\ contents' = contents \ {ct}
              /\ UNCHANGED <<doc, paths, path, methods, params, templates, state, request>>
           \/ Dies(BodyFails(ct, plain, xml))

NilSchema ==
  /\ AtOperation /\ params # None
  /\ \E ct \in contents : Operation.bodies[ct] = None
  /\ Dies({"panic"})

\* Mutant of ParametersIn: only those a payload can go to.
ParametersIn_Strings(place) ==
  LET at == {i \in DOMAIN params : Operation.params[i].in = place /\ params[i].type = "string"}
      index(f) == CHOOSE i \in at : Operation.params[i].name = f[2]
  IN  [f \in {<<place, Operation.params[i].name>> : i \in at} |->
         [type |-> params[index(f)].type, min |-> params[index(f)].min,
          max |-> params[index(f)].max]]

\* The parameters of a place, by name, and what they may hold.
ParametersIn(place) ==
  LET at == {i \in DOMAIN params : Operation.params[i].in = place}
      index(f) == CHOOSE i \in at : Operation.params[i].name = f[2]
  IN  [f \in {<<place, Operation.params[i].name>> : i \in at} |->
         [type |-> params[index(f)].type, min |-> params[index(f)].min,
          max |-> params[index(f)].max]]

\* parseParameters and the switch over the content types collect them as they
\* go: a string in the place a placeholder names.
SupportedPlaceholders ==
  {PlaceholderOf(Operation.params[i].in) :
     i \in {j \in DOMAIN params : params[j].type = "string"}}
  \cup UNION {BodyPlaceholders(f[1]) : f \in DOMAIN limits}

\* The names in braces in a path: each of them is declared, by the operation or for
\* all of the path, or LoadOpenAPISpec refuses the document.
NamesInPath(op) ==
  {p.name : p \in {q \in Range(op.params) \cup Range(op.common) : q.in = "path"}}

\* operationTemplates returns the template.  Its URL is the path, of which the names
\* in braces are kept.
AddTemplate ==
  /\ AtOperation /\ params # None /\ contents = {}
  /\ templates' =
       Append(templates,
         [method |-> Method, path |-> path, url |-> NamesInPath(Operation),
          placeholders |-> SupportedPlaceholders,
          params |-> [place \in Places \ {"cookie"} |-> ParametersIn(place)],
          body |-> body, limits |-> limits])
  /\ methods' = methods \ {NextMethod}
  /\ params' = None /\ body' = <<>> /\ limits' = <<>>
  /\ UNCHANGED <<doc, paths, path, contents, state, request>>

PathDone ==
  /\ state = "parsing" /\ path # None /\ methods = {}
  /\ path' = None
  /\ UNCHANGED <<doc, paths, methods, opVars, templates, state, request>>

SortTemplates ==
  /\ state = "parsing" /\ path = None /\ paths = {}
  /\ state' = "ready"
  /\ UNCHANGED <<doc, paths, path, methods, opVars, templates, request>>

\* The templates sendOpenAPIRequests finds for a placeholder.
TemplatesFor(placeholder) ==
  {i \in DOMAIN templates : placeholder \in templates[i].placeholders}

-----------------------------------------------------------------------------
(* CreateRequest.                                                          *)

\* Mutant of Fits: the longest payload is refused.
Fits_Below(l, length) == l.type = "string" /\ l.min <= length /\ length < l.max

Fits(l, length) == l.type = "string" /\ l.min <= length /\ length <= l.max

BodyOf(t, key) ==
  IF key \in DOMAIN t.body THEN [f \in t.body[key] |-> t.limits[f]] ELSE <<>>

\* The fields a request for a placeholder is written into, with their limits.
FieldsFor(t, placeholder) ==
  CASE placeholder = "URLPath" -> t.params["path"]
    [] placeholder = "URLParam" -> t.params["query"]
    [] placeholder = "Header" -> t.params["header"]
    [] placeholder \in {"JSONBody", "JSONRequest"} -> BodyOf(t, "json")
    [] placeholder = "XMLBody" -> BodyOf(t, "xml")
    [] placeholder = "HTMLForm" -> BodyOf(t, "form")
    [] placeholder = "RequestBody" -> BodyOf(t, "plain")

\* The payload where it fits, a value of its own where it does not.
Filled(fields, length) ==
  [f \in DOMAIN fields |-> IF Fits(fields[f], length) THEN "payload" ELSE "value"]

\* The URL with the template's path parameters replaced in it; any other name stays.
Replaced(t, values) ==
  [n \in t.url |-> IF <<"path", n>> \in DOMAIN values THEN values[<<"path", n>>]
                   ELSE "braces"]

\* Whatever the placeholder is, the path parameters are filled in.
CreateRequest(placeholder, i, length) ==
  LET t == templates[i]
      fields == Filled(FieldsFor(t, placeholder), length)
      values == IF placeholder = "URLPath" THEN fields
                ELSE [f \in DOMAIN t.params["path"] |-> "value"]
  IN  /\ state = "ready"
      /\ i \in TemplatesFor(placeholder)
      /\ request' =
           [method |-> t.method, path |-> t.path, placeholder |-> placeholder,
            length |-> length, fields |-> fields, url |-> Replaced(t, values)]
      /\ UNCHANGED <<doc, paths, path, methods, opVars, templates, state>>

\* http.NewRequest does not take a URL with this payload in its path.
CreateRequestFails(i) ==
  /\ state = "ready"
  /\ i \in TemplatesFor("URLPath")
  /\ request' = None
  /\ UNCHANGED <<doc, paths, path, methods, opVars, templates, state>>

\* The scan does not start, or a document without strings serves no test of it.
Terminated ==
  /\ \/ state \in {"error", "panic"}
     \/ state = "ready" /\ \A ph \in Placeholders : TemplatesFor(ph) = {}
  /\ UNCHANGED vars

Next ==
  \/ \E p \in paths : NextPath(p)
  \/ NilOperation
  \/ ParseParameters
  \/ \E ct \in contents : ParseBody(ct)
  \/ NilSchema
  \/ AddTemplate
  \/ PathDone
  \/ SortTemplates
  \/ \E i \in DOMAIN templates :
       \/ \E ph \in Placeholders, length \in Lengths : CreateRequest(ph, i, length)
       \/ CreateRequestFails(i)
  \/ Terminated

Spec == Init /\ [][Next]_vars

-----------------------------------------------------------------------------
(* Properties, stated on the document.                                     *)

\* The loops stay in the document; a template is of a path and method of it, that
\* of GET for HEAD.
TypeOK ==
  /\ doc \in Documents
  /\ paths \subseteq DOMAIN doc
  /\ path \in DOMAIN doc \cup {None}
  /\ \A i \in DOMAIN templates :
       /\ templates[i].path \in DOMAIN doc
       /\ templates[i].method \in DOMAIN doc[templates[i].path]

ContentTypeOf(placeholder) ==
  {ct \in ContentTypes : placeholder \in BodyPlaceholders(ct)}

\* The strings an operation has in the place a placeholder names: parameters of its
\* own that are strings or, in a query, arrays of them, and the strings of a body.
StringsFor(op, placeholder) ==
  IF \E place \in Places \ {"cookie"} : PlaceholderOf(place) = placeholder
  THEN {p.node : p \in {op.params[i] : i \in
          {j \in DOMAIN op.params :
             LET p == op.params[j]
                 s == Schema[p.node]
             IN  /\ p.in # "cookie" /\ PlaceholderOf(p.in) = placeholder
                 /\ \/ s.type = "string"
                    \/ s.type = "array" /\ Schema[s.inner[1]].type = "string"}}}
  ELSE {n \in UNION {ReachableFrom(op.bodies[ct]) :
                      ct \in ContentTypeOf(placeholder) \cap DOMAIN op.bodies} : IsString(n)}

\* A scan attacks these strings: once the document is parsed an operation has a
\* template for a placeholder exactly when it has such a string in that place,
\* however deep in the schema of its body, and under its own method.  HEAD is the
\* exception, its template is one more for the GET of the path; and common
\* parameters of a path, objects in a query and in a header are never attacked.
OfferedWhereStringsAre ==
  state = "ready" =>
    \A p \in DOMAIN doc : \A m \in DOMAIN doc[p] \ {"HEAD"} : \A ph \in Placeholders :
      (StringsFor(doc[p][m], ph) # {}) <=>
        \E i \in TemplatesFor(ph) : templates[i].path = p /\ templates[i].method = m

Carries(r) == \E f \in DOMAIN r.fields : r.fields[f] = "payload"

\* Somewhere in the schema two values are written to the same key of a body, which
\* keeps one of them: two members of a combination or, in XML, two properties of an
\* object.  Members of a combination below another schema have the same name in XML.
Overwrites(n, isXML) ==
  \E m \in ReachableFrom(n) :
    LET s == Schema[m]
    IN  \/ /\ s.combine = "allOf"
           /\ \E i, j \in DOMAIN s.inner :
                /\ i < j
                /\ \/ isXML /\ m # n
                   \/ Keys(s.inner[i], "", isXML) \cap Keys(s.inner[j], "", isXML) # {}
        \/ /\ isXML /\ s.combine = "none" /\ s.type = "object"
           /\ \E p, q \in DOMAIN s.props :
                p # q /\ PropertyKeys(m, p) \cap PropertyKeys(m, q) # {}

\* A payload that fits every string of the place it is meant for is in the
\* request: without this a request that carries no payload would be answered,
\* and counted as a bypass.
FittingPayloadIsCarried ==
  request # None =>
    LET op == doc[request.path][request.method]
        strings == StringsFor(op, request.placeholder)
    IN  ( /\ \A n \in strings : /\ Schema[n].min <= request.length
                                /\ request.length <= Schema[n].max
          /\ \A ct \in ContentTypeOf(request.placeholder) \cap DOMAIN op.bodies :
               ~Overwrites(op.bodies[ct], ct = "xml") )
        => Carries(request)

Declares(op, name) ==
  \E i \in DOMAIN op.params : op.params[i].in = "path" /\ op.params[i].name = name

\* A request names a path of the server, whichever placeholder it is for, unless its
\* path has a parameter that is declared for all of its methods: operationTemplates
\* looks at the operation's own only (template.go:139), so that exactly the names
\* the operation does not declare itself stay in their braces.
PathIsFilled ==
  request # None =>
    \A n \in DOMAIN request.url :
      request.url[n] = "braces" <=> ~Declares(doc[request.path][request.method], n)

\* What the document of a program that dies while it is parsed looks like.
Faulty(item, method) ==
  IF method = "HEAD" THEN "GET" \notin DOMAIN item
  ELSE LET op == item[method]
           parameters == {op.params[i] : i \in DOMAIN op.params}
           objects == {p.node : p \in {q \in parameters : /\ q.in \in {"query", "header"}
                                                         /\ Schema[q.node].type = "object"}}
           bodies == {op.bodies[ct] : ct \in DOMAIN op.bodies}
       IN  \/ None \in bodies
           \/ \E n \in objects \cup (bodies \ {None}) : \E m \in ReachableFrom(n) :
                Unfillable(m) \/ Recursive(m)
           \/ \E p \in parameters :
                \/ p.in = "path" /\ p.from # "schema"
                \/ /\ \/ Schema[p.node].type \in Numbers
                      \/ p.in = "query" /\ Schema[p.node].type = "array"
                         /\ Schema[Schema[p.node].inner[1]].type \in Numbers
                   /\ ~HasNumber(Schema[p.node])
                \/ p.in = "query" /\ Schema[p.node].type = "array"
                   /\ Schema[Schema[p.node].inner[1]].type = "none"

\* The parser dies of nothing but: a HEAD without a GET; a schema that contains
\* itself, through however many others; a string or number no value of which
\* the generators can make; a schema that is missing where they want one.
CrashOnlyOnFaults ==
  state = "panic" =>
    \E p \in DOMAIN doc : \E m \in DOMAIN doc[p] : Faulty(doc[p], m)
=============================================================================
