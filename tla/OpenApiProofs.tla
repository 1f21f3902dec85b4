--------------------------- MODULE OpenApiProofs ---------------------------
(***************************************************************************)
(* For any OpenAPI document: the templates are of operations the document  *)
(* has, every request has the path parameters of its operation filled in,  *)
(* the strings of an operation's own parameters and bodies are offered to  *)
(* the test cases and nothing else is, and the parser panics only where    *)
(* the document is at fault; a payload that fits the strings of a place is *)
(* in the request made for it.                                             *)
(*                                                                         *)
(* The last three rest on what schemaToMap finds in a graph of schemas, by *)
(* induction on its visits: each puts one more node on its way, until one  *)
(* is there twice.                                                         *)
(***************************************************************************)
EXTENDS OpenApi, FiniteSetTheorems, TLAPS

\* While an operation is parsed, params has one entry for each of its parameters.
ParamsOfOperation ==
  params # None =>
    path # None /\ methods # {} /\ DOMAIN params = DOMAIN Operation.params

TemplatesAreListed == \E S : templates \in Seq(S)

ParsedInv == ParamsOfOperation /\ TemplatesAreListed

\* The template that is added is of the operation that was parsed.
LEMMA NewTemplate ==
  ASSUME AddTemplate
  PROVE  \E t : /\ templates' = Append(templates, t)
                /\ t.path = path /\ t.method = Method /\ t.placeholders = SupportedPlaceholders
                /\ t.params = [place \in Places \ {"cookie"} |-> ParametersIn(place)]
                /\ t.body = body /\ t.limits = limits
<1> DEFINE t == [method |-> Method, path |-> path, url |-> NamesInPath(Operation),
                 placeholders |-> SupportedPlaceholders,
                 params |-> [place \in Places \ {"cookie"} |-> ParametersIn(place)],
                 body |-> body, limits |-> limits]
<1>1. templates' = Append(templates, t)
  BY DEF AddTemplate
<1>2. /\ t.path = path /\ t.method = Method /\ t.placeholders = SupportedPlaceholders
      /\ t.params = [place \in Places \ {"cookie"} |-> ParametersIn(place)]
      /\ t.body = body /\ t.limits = limits
  OBVIOUS
<1> HIDE DEF t
<1> QED BY <1>1, <1>2

\* A template more, and no operation at hand.
LEMMA TemplateAdded ==
  ASSUME ParsedInv, AddTemplate
  PROVE  ParsedInv'
<1> USE DEF ParsedInv
<1>1. PICK t : templates' = Append(templates, t)
  BY NewTemplate
<1>2. PICK S : templates \in Seq(S)
  BY DEF TemplatesAreListed
<1>3. templates' \in Seq(S \cup {t})
  BY <1>1, <1>2
<1>4. params' = None
  BY DEF AddTemplate
<1> QED BY <1>3, <1>4 DEF ParamsOfOperation, TemplatesAreListed

\* Every step keeps the parameters those of the operation at hand.
LEMMA ParsedStep ==
  ASSUME ParsedInv, [Next]_vars
  PROVE  ParsedInv'
<1> USE DEF ParsedInv, TemplatesAreListed
<1>1. ASSUME UNCHANGED <<doc, path, methods, params, templates>>
      PROVE  ParsedInv'
  BY <1>1 DEF ParamsOfOperation, Operation, Method, NextMethod
<1>2. CASE UNCHANGED vars
  BY <1>1, <1>2 DEF vars, opVars
<1>3. ASSUME NEW p \in paths, NextPath(p)
      PROVE  ParsedInv'
  BY <1>3 DEF NextPath, ParamsOfOperation, opVars
<1>4. CASE NilOperation \/ NilSchema
  BY <1>1, <1>4 DEF NilOperation, NilSchema, Dies, opVars
<1>5. CASE ParseParameters
  <2>1. CASE UNCHANGED params
    BY <1>1, <1>5, <2>1 DEF ParseParameters, Dies, opVars
  <2>2. CASE ~UNCHANGED params
    <3>1. /\ DOMAIN params' = DOMAIN Operation.params
          /\ UNCHANGED <<doc, path, methods, templates>>
      BY <1>5, <2>2 DEF ParseParameters, Dies, opVars
    <3>2. ParamsOfOperation'
      BY <1>5, <3>1 DEF ParseParameters, AtOperation, ParamsOfOperation, Operation, Method, NextMethod
    <3> QED BY <3>1, <3>2
  <2> QED BY <2>1, <2>2
<1>6. ASSUME NEW ct \in contents, ParseBody(ct)
      PROVE  ParsedInv'
  BY <1>1, <1>6 DEF ParseBody, Dies, opVars
<1>7. CASE PathDone
  BY <1>7 DEF PathDone, ParamsOfOperation, opVars
<1>8. CASE SortTemplates
  BY <1>1, <1>8 DEF SortTemplates, opVars
<1>9. ASSUME NEW i \in DOMAIN templates,
             \/ \E ph \in Placeholders, length \in Lengths : CreateRequest(ph, i, length)
             \/ CreateRequestFails(i)
      PROVE  ParsedInv'
  BY <1>1, <1>9 DEF CreateRequest, CreateRequestFails, opVars
<1> QED BY <1>2, <1>3, <1>4, <1>5, <1>6, <1>7, <1>8, <1>9, TemplateAdded
        DEF Next, Terminated

\* At first there are no operations and no templates.
LEMMA ParsedInit == Init => ParsedInv
<1>1. <<>> \in Seq({})
  OBVIOUS
<1> QED BY <1>1 DEF Init, ParsedInv, ParamsOfOperation, TemplatesAreListed

-----------------------------------------------------------------------------
(* Types.                                                                  *)

\* parseParameters is only reached with an operation that is there.
OperationThere == params # None => Method \in DOMAIN doc[path]

TypeInv == ParsedInv /\ OperationThere /\ TypeOK

\* The template of an operation that was parsed is of that operation.
LEMMA TypeAdded ==
  ASSUME TypeInv, AddTemplate
  PROVE  TypeOK'
<1> USE DEF TypeInv, ParsedInv
<1>1. PICK t : /\ templates' = Append(templates, t)
               /\ t.path = path /\ t.method = Method
  BY NewTemplate
<1>2. /\ UNCHANGED <<doc, paths, path>>
      /\ path \in DOMAIN doc /\ Method \in DOMAIN doc[path]
  BY DEF AddTemplate, AtOperation, OperationThere, TypeOK
<1>3. PICK S : templates \in Seq(S)
  BY DEF TemplatesAreListed
<1>4. ASSUME NEW i \in DOMAIN templates'
      PROVE  templates'[i] = t \/ (i \in DOMAIN templates /\ templates'[i] = templates[i])
  BY <1>1, <1>3, <1>4
<1> QED BY <1>1, <1>2, <1>4 DEF TypeOK

\* Every step stays in the document.
LEMMA TypeStep ==
  ASSUME TypeInv, [Next]_vars
  PROVE  OperationThere' /\ TypeOK'
<1> USE DEF TypeInv
<1>1. ASSUME UNCHANGED <<doc, paths, path, methods, params, templates>>
      PROVE  OperationThere' /\ TypeOK'
  BY <1>1 DEF OperationThere, TypeOK, Method, NextMethod
<1>2. ASSUME NEW p \in paths, NextPath(p)
      PROVE  OperationThere' /\ TypeOK'
  <2>1. params = None /\ params' = None
    BY <1>2 DEF NextPath, opVars, ParsedInv, ParamsOfOperation
  <2> QED BY <1>2, <2>1 DEF NextPath, OperationThere, TypeOK
<1>3. CASE ParseParameters
  BY <1>3 DEF ParseParameters, Dies, opVars, OperationThere, TypeOK, Method, NextMethod
<1>4. CASE AddTemplate
  BY <1>4, TypeAdded DEF AddTemplate, OperationThere
<1>5. CASE PathDone
  <2>1. params = None /\ params' = None
    BY <1>5 DEF PathDone, opVars, ParsedInv, ParamsOfOperation
  <2> QED BY <1>5, <2>1 DEF PathDone, OperationThere, TypeOK
<1>6. CASE NilOperation \/ NilSchema \/ SortTemplates
  BY <1>1, <1>6 DEF NilOperation, NilSchema, SortTemplates, Dies, opVars
<1>7. ASSUME NEW ct \in contents, ParseBody(ct)
      PROVE  OperationThere' /\ TypeOK'
  BY <1>1, <1>7 DEF ParseBody, Dies, opVars
<1>8. ASSUME NEW i \in DOMAIN templates,
             \/ \E ph \in Placeholders, length \in Lengths : CreateRequest(ph, i, length)
             \/ CreateRequestFails(i)
      PROVE  OperationThere' /\ TypeOK'
  BY <1>1, <1>8 DEF CreateRequest, CreateRequestFails, opVars
<1>9. CASE UNCHANGED vars
  BY <1>1, <1>9 DEF vars, opVars
<1> QED BY <1>2, <1>3, <1>4, <1>5, <1>6, <1>7, <1>8, <1>9 DEF Next, Terminated

\* Every template, and so every request, is of an operation of the document.
THEOREM TypeCorrect == Spec => []TypeOK
<1>1. Init => ParsedInv /\ OperationThere /\ TypeOK
  <2>1. Init => ParsedInv
    BY ParsedInit
  <2> QED BY <2>1 DEF Init, OperationThere, TypeOK
<1>2. TypeInv /\ [Next]_vars => TypeInv'
  BY ParsedStep, TypeStep DEF TypeInv
<1>3. TypeInv => TypeOK
  BY DEF TypeInv
<1> QED BY <1>1, <1>2, <1>3, PTL DEF Spec, TypeInv

-----------------------------------------------------------------------------
(* The paths of the requests.                                              *)

\* A template has the path parameters of the operation it was made of.
PathParametersOf(t) ==
  \A n : <<"path", n>> \in DOMAIN t.params["path"] <=> Declares(doc[t.path][t.method], n)

TemplatesHaveParameters == \A i \in DOMAIN templates : PathParametersOf(templates[i])

FilledInv == ParsedInv /\ TemplatesHaveParameters /\ PathIsFilled

\* parseParameters' result has a field for every path parameter of the operation it
\* is given, and no other.
LEMMA ParametersInPath ==
  ASSUME params # None, ParamsOfOperation, NEW n
  PROVE  <<"path", n>> \in DOMAIN ParametersIn("path") <=> Declares(Operation, n)
<1> DEFINE at == {j \in DOMAIN params : Operation.params[j].in = "path"}
<1>1. DOMAIN ParametersIn("path") = {<<"path", Operation.params[j].name>> : j \in at}
  BY DEF ParametersIn
<1>2. Declares(Operation, n) <=> \E j \in at : Operation.params[j].name = n
  BY DEF Declares, ParamsOfOperation
<1> HIDE DEF at
<1> QED BY <1>1, <1>2

\* The template that is added is of the operation at hand.
LEMMA FilledAdded ==
  ASSUME FilledInv, AddTemplate
  PROVE  TemplatesHaveParameters'
<1> USE DEF FilledInv, ParsedInv
<1>1. PICK t : /\ templates' = Append(templates, t)
               /\ t.path = path /\ t.method = Method
               /\ t.params = [place \in Places \ {"cookie"} |-> ParametersIn(place)]
  BY NewTemplate
<1>2. doc' = doc /\ params # None
  BY DEF AddTemplate
<1>3. t.params["path"] = ParametersIn("path")
  BY <1>1 DEF Places
<1>4. PathParametersOf(t)
  BY <1>1, <1>2, <1>3, ParametersInPath DEF PathParametersOf, Operation
<1>5. PICK S : templates \in Seq(S)
  BY DEF TemplatesAreListed
<1>6. ASSUME NEW i \in DOMAIN templates'
      PROVE  templates'[i] = t \/ (i \in DOMAIN templates /\ templates'[i] = templates[i])
  BY <1>1, <1>5, <1>6
<1>7. \A i \in DOMAIN templates' : PathParametersOf(templates'[i])
  BY <1>4, <1>6 DEF TemplatesHaveParameters
<1> QED BY <1>2, <1>7 DEF TemplatesHaveParameters, PathParametersOf

\* Whichever the placeholder is, the template's path parameters have values.
LEMMA RequestCreated ==
  ASSUME FilledInv, NEW ph \in Placeholders, NEW i \in DOMAIN templates, NEW length,
         CreateRequest(ph, i, length)
  PROVE  PathIsFilled'
<1> DEFINE t == templates[i]
           values == IF ph = "URLPath" THEN Filled(FieldsFor(t, ph), length)
                     ELSE [f \in DOMAIN t.params["path"] |-> "value"]
<1>1. /\ doc' = doc
      /\ request'.path = t.path /\ request'.method = t.method
      /\ request'.url = Replaced(t, values)
  BY DEF CreateRequest
<1>2. /\ DOMAIN values = DOMAIN t.params["path"]
      /\ \A f \in DOMAIN values : values[f] # "braces"
  <2>1. CASE ph = "URLPath"
    BY <2>1 DEF Filled, FieldsFor
  <2>2. CASE ph # "URLPath"
    BY <2>2
  <2> QED BY <2>1, <2>2
<1>3. PathParametersOf(t)
  BY DEF FilledInv, TemplatesHaveParameters
<1> HIDE DEF values, t
<1>4. ASSUME NEW n \in DOMAIN request'.url
      PROVE  request'.url[n] = "braces" <=> ~(<<"path", n>> \in DOMAIN values)
  BY <1>1, <1>2, <1>4 DEF Replaced
<1> QED BY <1>1, <1>2, <1>3, <1>4 DEF PathIsFilled, PathParametersOf

\* Every other step leaves the document, the templates and the request alone.
LEMMA FilledStep ==
  ASSUME FilledInv, [Next]_vars
  PROVE  FilledInv'
<1>1. ParsedInv'
  BY ParsedStep DEF FilledInv
<1>2. ASSUME UNCHANGED <<doc, templates, request>>
      PROVE  FilledInv'
  BY <1>1, <1>2 DEF FilledInv, TemplatesHaveParameters, PathParametersOf, PathIsFilled
<1>3. CASE AddTemplate
  <2>1. UNCHANGED <<doc, request>>
    BY <1>3 DEF AddTemplate
  <2>2. PathIsFilled'
    BY <2>1 DEF FilledInv, PathIsFilled
  <2> QED BY <1>1, <1>3, <2>2, FilledAdded DEF FilledInv
<1>4. ASSUME NEW ph \in Placeholders, NEW i \in DOMAIN templates, NEW length \in Lengths,
             CreateRequest(ph, i, length)
      PROVE  FilledInv'
  <2>1. UNCHANGED <<doc, templates>>
    BY <1>4 DEF CreateRequest
  <2>2. TemplatesHaveParameters'
    BY <2>1 DEF FilledInv, TemplatesHaveParameters, PathParametersOf
  <2> QED BY <1>1, <1>4, <2>2, RequestCreated DEF FilledInv
<1>5. ASSUME NEW i \in DOMAIN templates, CreateRequestFails(i)
      PROVE  FilledInv'
  <2>1. UNCHANGED <<doc, templates>> /\ request' = None
    BY <1>5 DEF CreateRequestFails
  <2> QED BY <1>1, <2>1 DEF FilledInv, TemplatesHaveParameters, PathParametersOf, PathIsFilled
<1>6. ASSUME NEW p \in paths, NextPath(p)
      PROVE  FilledInv'
  BY <1>2, <1>6 DEF NextPath
<1>7. ASSUME NEW ct \in contents, ParseBody(ct)
      PROVE  FilledInv'
  BY <1>2, <1>7 DEF ParseBody, Dies
<1>8. CASE NilOperation \/ NilSchema \/ ParseParameters
  BY <1>2, <1>8 DEF NilOperation, NilSchema, ParseParameters, Dies
<1>9. CASE PathDone \/ SortTemplates \/ UNCHANGED vars
  BY <1>2, <1>9 DEF PathDone, SortTemplates, vars
<1> QED BY <1>3, <1>4, <1>5, <1>6, <1>7, <1>8, <1>9 DEF Next, Terminated

\* Whatever the document, its operations' own path parameters are filled in in each
\* request, whichever payload and placeholder it is for, and those declared for all
\* of a path in none.
THEOREM FilledPath == Spec => []PathIsFilled
<1>1. Init => FilledInv
  BY ParsedInit DEF Init, FilledInv, TemplatesHaveParameters, PathIsFilled
<1>2. FilledInv /\ [Next]_vars => FilledInv'
  BY FilledStep
<1>3. FilledInv => PathIsFilled
  BY DEF FilledInv
<1> QED BY <1>1, <1>2, <1>3, PTL DEF Spec

-----------------------------------------------------------------------------
(* Finite sets and the graph of the schemas.                               *)

\* Of some subsets of a finite set one is smallest.
LEMMA SmallestSubset ==
  ASSUME NEW S, IsFiniteSet(S), NEW P \in SUBSET (SUBSET S), P # {}
  PROVE  \E T \in P : \A U \in P : U \subseteq T => U = T
<1>1. IsWellFoundedOn(StrictSubsetOrdering(S), FiniteSubsetsOf(S))
  BY FS_StrictSubsetOrderingWellFounded
<1>2. P \subseteq FiniteSubsetsOf(S)
  BY FS_FiniteSubsetsOfFinite
<1>3. PICK T \in P : \A U \in P : ~(<<U, T>> \in StrictSubsetOrdering(S))
  BY <1>1, <1>2, WFMin
<1> QED BY <1>3 DEF StrictSubsetOrdering

\* A set of natural numbers with zero and the successor of each of its members has
\* them all.
LEMMA NatSets ==
  ASSUME NEW G, 0 \in G, \A k \in Nat : k \in G => k + 1 \in G
  PROVE  \A k \in Nat : k \in G
<1> SUFFICES ASSUME NEW n \in Nat, n \notin G
             PROVE  FALSE
  OBVIOUS
<1> DEFINE P == {0 .. m : m \in {i \in 0 .. n : i \notin G}}
<1>1. IsFiniteSet(0 .. n)
  BY FS_Interval
<1>2. P \subseteq SUBSET (0 .. n) /\ P # {}
  <2>1. 0 .. n \in P
    OBVIOUS
  <2>2. ASSUME NEW m \in 0 .. n
        PROVE  0 .. m \in SUBSET (0 .. n)
    OBVIOUS
  <2> QED BY <2>1, <2>2
<1>3. \E T \in P : \A U \in P : U \subseteq T => U = T
  <2> DEFINE S == 0 .. n
  <2>1. IsFiniteSet(S) /\ P \in SUBSET (SUBSET S) /\ P # {}
    BY <1>1, <1>2
  <2> HIDE DEF P, S
  <2> QED BY <2>1, SmallestSubset
<1>4. PICK m \in 0 .. n : m \notin G /\ \A U \in P : U \subseteq 0 .. m => U = 0 .. m
  BY <1>3
<1>5. m # 0 /\ m - 1 \in 0 .. n /\ m - 1 \notin G
  BY <1>4
<1>6. 0 .. m - 1 \in P
  BY <1>5
<1>7. 0 .. m - 1 \subseteq 0 .. m /\ m \in 0 .. m /\ m \notin 0 .. m - 1
  OBVIOUS
<1> QED BY <1>4, <1>6, <1>7

\* The nodes at most k references from each, as Within defines them.
Steps(f, k) ==
  [all \in BOOLEAN |-> [n \in Nodes |->
     IF k = 0 THEN {n} ELSE UNION {{m} \cup Links(m, all) : m \in f[k - 1][all][n]}]]

Bound == Cardinality(Nodes)

\* The nodes are finitely many.
LEMMA BoundIsNat == Bound \in Nat /\ IsFiniteSet(Nodes)
BY SchemaAssumption, FS_CardinalityType DEF Bound

\* There is a function Within is the CHOOSE of: the chains are defined by their length.
LEMMA WithinExists ==
  \E f : f = [k \in 0 .. Bound |-> Steps(f, k)]
<1> DEFINE Upto(j, f) ==
      f = [k \in 0 .. Bound |-> IF k < j THEN Steps(f, k) ELSE {}]
<1> DEFINE G == {j \in Nat : \E f : Upto(j, f)}
<1>1. 0 \in G
  <2> DEFINE f == [k \in 0 .. Bound |-> {}]
  <2>1. Upto(0, f)
    BY BoundIsNat
  <2> QED BY <2>1
<1>2. ASSUME NEW j \in Nat, j \in G
      PROVE  j + 1 \in G
  <2>1. PICK f : Upto(j, f)
    BY <1>2
  <2> DEFINE g == [k \in 0 .. Bound |->
                     IF k < j THEN f[k] ELSE IF k = j THEN Steps(f, k) ELSE {}]
  <2>2. ASSUME NEW k \in 0 .. Bound, k <= j
        PROVE  Steps(g, k) = Steps(f, k)
    <3>1. CASE k = 0
      BY <3>1 DEF Steps
    <3>2. CASE k # 0
      <4>1. k - 1 \in 0 .. Bound /\ k - 1 < j
        BY <2>2, <3>2, BoundIsNat
      <4>2. g[k - 1] = f[k - 1]
        BY <4>1
      <4> QED BY <4>2 DEF Steps
    <3> QED BY <3>1, <3>2
  <2>3. ASSUME NEW k \in 0 .. Bound
        PROVE  g[k] = IF k < j + 1 THEN Steps(g, k) ELSE {}
    <3>1. CASE k < j
      <4>1. g[k] = f[k] /\ f[k] = Steps(f, k)
        BY <2>1, <3>1
      <4> QED BY <2>2, <3>1, <4>1, BoundIsNat
    <3>2. CASE k = j
      <4>1. g[k] = Steps(f, k)
        BY <3>2
      <4> QED BY <2>2, <3>2, <4>1, BoundIsNat
    <3>3. CASE k > j
      BY <3>3, BoundIsNat
    <3> QED BY <3>1, <3>2, <3>3, BoundIsNat
  <2>4. g = [k \in 0 .. Bound |-> g[k]]
    OBVIOUS
  <2>5. Upto(j + 1, g)
    <3> HIDE DEF g
    <3> QED BY <2>3, <2>4
  <2> HIDE DEF g
  <2> QED BY <2>5
<1>3. Bound + 1 \in G
  <2> HIDE DEF G
  <2> QED BY <1>1, <1>2, NatSets, BoundIsNat
<1>4. PICK f : Upto(Bound + 1, f)
  BY <1>3
<1>5. f = [k \in 0 .. Bound |-> Steps(f, k)]
  BY <1>4, BoundIsNat
<1> QED BY <1>5

\* Within satisfies its own definition.
LEMMA WithinEquation ==
  Within = [k \in 0 .. Bound |-> Steps(Within, k)]
BY WithinExists DEF Within, Steps, Bound

\* One reference more.
LEMMA WithinStep ==
  ASSUME NEW all \in BOOLEAN, NEW n \in Nodes
  PROVE  /\ Within[0][all][n] = {n}
         /\ \A k \in 0 .. Bound : k + 1 \in 0 .. Bound =>
              Within[k + 1][all][n] = UNION {{m} \cup Links(m, all) : m \in Within[k][all][n]}
<1>1. Within[0] = Steps(Within, 0)
  BY WithinEquation, BoundIsNat
<1>2. ASSUME NEW k \in 0 .. Bound, k + 1 \in 0 .. Bound
      PROVE  Within[k + 1][all][n] = UNION {{m} \cup Links(m, all) : m \in Within[k][all][n]}
  <2>1. Within[k + 1] = Steps(Within, k + 1)
    BY <1>2, WithinEquation
  <2>2. k + 1 # 0 /\ (k + 1) - 1 = k
    OBVIOUS
  <2> QED BY <2>1, <2>2 DEF Steps
<1> QED BY <1>1, <1>2 DEF Steps

\* Schemas refer to schemas of the document.
LEMMA ReferencesAreNodes ==
  ASSUME NEW n \in Nodes
  PROVE  References(n) \subseteq Nodes /\ \A all \in BOOLEAN : Links(n, all) \subseteq References(n)
BY SchemaAssumption DEF References, Links

Closed(S, all) == \A m \in S : Links(m, all) \subseteq S

\* Chains of references stay among the nodes.
LEMMA WithinNodes ==
  ASSUME NEW all \in BOOLEAN, NEW n \in Nodes, NEW k \in 0 .. Bound
  PROVE  Within[k][all][n] \subseteq Nodes /\ n \in Within[k][all][n]
<1> DEFINE G == {j \in Nat : j \in 0 .. Bound =>
                   Within[j][all][n] \subseteq Nodes /\ n \in Within[j][all][n]}
<1>1. 0 \in G
  BY WithinStep
<1>2. ASSUME NEW j \in Nat, j \in G
      PROVE  j + 1 \in G
  <2> SUFFICES ASSUME j + 1 \in 0 .. Bound
               PROVE  Within[j + 1][all][n] \subseteq Nodes /\ n \in Within[j + 1][all][n]
    OBVIOUS
  <2>1. j \in 0 .. Bound
    BY BoundIsNat
  <2>2. Within[j + 1][all][n] = UNION {{m} \cup Links(m, all) : m \in Within[j][all][n]}
    BY <2>1, WithinStep
  <2> QED BY <1>2, <2>1, <2>2, ReferencesAreNodes
<1>3. \A j \in Nat : j \in G
  <2> HIDE DEF G
  <2> QED BY <1>1, <1>2, NatSets
<1> QED BY <1>3, BoundIsNat

\* The nodes within reach grow until there is nothing more to add.
LEMMA WithinGrows ==
  ASSUME NEW all \in BOOLEAN, NEW n \in Nodes, NEW k \in 0 .. Bound
  PROVE  Closed(Within[k][all][n], all) \/ Cardinality(Within[k][all][n]) > k
<1> DEFINE G == {j \in Nat : j \in 0 .. Bound =>
                   Closed(Within[j][all][n], all) \/ Cardinality(Within[j][all][n]) > j}
<1>1. 0 \in G
  <2>1. Cardinality({n}) = 1
    BY FS_Singleton
  <2>2. Cardinality(Within[0][all][n]) = 1
    BY <2>1, WithinStep
  <2> QED BY <2>2
<1>2. ASSUME NEW j \in Nat, j \in G
      PROVE  j + 1 \in G
  <2> SUFFICES ASSUME j + 1 \in 0 .. Bound
               PROVE  Closed(Within[j + 1][all][n], all) \/ Cardinality(Within[j + 1][all][n]) > j + 1
    OBVIOUS
  <2>1. j \in 0 .. Bound
    BY BoundIsNat
  <2> DEFINE S == Within[j][all][n]
             T == Within[j + 1][all][n]
  <2>2. T = UNION {{m} \cup Links(m, all) : m \in S}
    BY <2>1, WithinStep
  <2>3. IsFiniteSet(S) /\ IsFiniteSet(T)
    BY <2>1, WithinNodes, BoundIsNat, FS_Subset
  <2>4. Closed(S, all) \/ Cardinality(S) > j
    BY <1>2, <2>1
  <2> HIDE DEF S, T
  <2>5. S \subseteq T
    BY <2>2
  <2>6. CASE Closed(S, all)
    <3>1. T = S
      BY <2>2, <2>6 DEF Closed
    <3> QED BY <2>6, <3>1 DEF S, T
  <2>7. CASE ~Closed(S, all)
    <3>1. T # S
      BY <2>2, <2>7 DEF Closed
    <3>2. Cardinality(S) \in Nat /\ Cardinality(T) \in Nat
      BY <2>3, FS_CardinalityType
    <3>3. Cardinality(S) <= Cardinality(T) /\ Cardinality(S) # Cardinality(T)
      BY <2>3, <2>5, <3>1, FS_Subset
    <3> QED BY <2>4, <2>7, <3>2, <3>3 DEF T
  <2> QED BY <2>6, <2>7
<1>3. \A j \in Nat : j \in G
  <2> HIDE DEF G
  <2> QED BY <1>1, <1>2, NatSets
<1> QED BY <1>3, BoundIsNat

\* What is reached is closed under references, and has its start.
LEMMA ReachClosed ==
  ASSUME NEW all \in BOOLEAN, NEW n \in Nodes
  PROVE  /\ n \in Reachable[all][n] /\ Reachable[all][n] \subseteq Nodes
         /\ \A m \in Reachable[all][n] : Links(m, all) \subseteq Reachable[all][n]
<1> DEFINE R == Reachable[all][n]
<1>1. R = Within[Bound][all][n] /\ Bound \in 0 .. Bound
  BY BoundIsNat DEF Reachable, Bound
<1>2. R \subseteq Nodes /\ n \in R
  BY <1>1, WithinNodes
<1> HIDE DEF R
<1>3. Cardinality(R) <= Bound
  BY <1>2, BoundIsNat, FS_Subset DEF Bound
<1>4. IsFiniteSet(R)
  BY <1>2, BoundIsNat, FS_Subset
<1>5. Cardinality(R) \in Nat
  BY <1>4, FS_CardinalityType
<1>6. Closed(R, all)
  BY <1>1, <1>3, <1>5, BoundIsNat, WithinGrows
<1> QED BY <1>2, <1>6 DEF Closed, R

\* It is the least such set.
LEMMA ReachLeast ==
  ASSUME NEW all \in BOOLEAN, NEW n \in Nodes, NEW S, n \in S,
         \A m \in S : Links(m, all) \subseteq S
  PROVE  Reachable[all][n] \subseteq S
<1> DEFINE G == {j \in Nat : j \in 0 .. Bound => Within[j][all][n] \subseteq S}
<1>1. 0 \in G
  BY WithinStep
<1>2. ASSUME NEW j \in Nat, j \in G
      PROVE  j + 1 \in G
  <2> SUFFICES ASSUME j + 1 \in 0 .. Bound
               PROVE  Within[j + 1][all][n] \subseteq S
    OBVIOUS
  <2>1. j \in 0 .. Bound
    BY BoundIsNat
  <2>2. Within[j + 1][all][n] = UNION {{m} \cup Links(m, all) : m \in Within[j][all][n]}
    BY <2>1, WithinStep
  <2> QED BY <1>2, <2>1, <2>2
<1>3. \A j \in Nat : j \in G
  <2> HIDE DEF G
  <2> QED BY <1>1, <1>2, NatSets
<1> QED BY <1>3, BoundIsNat DEF Reachable, Bound

\* The same of ReachableFrom, which follows all references.
LEMMA ReachableClosed ==
  ASSUME NEW n \in Nodes
  PROVE  /\ n \in ReachableFrom(n) /\ ReachableFrom(n) \subseteq Nodes
         /\ \A m \in ReachableFrom(n) : References(m) \subseteq ReachableFrom(n)
BY ReachClosed DEF ReachableFrom, Links

\* What is reached is the least set with the start that is closed under references.
LEMMA ReachableLeast ==
  ASSUME NEW n \in Nodes, NEW S, n \in S, \A m \in S : References(m) \subseteq S
  PROVE  ReachableFrom(n) \subseteq S
<1>1. \A m \in S : Links(m, TRUE) \subseteq S
  BY DEF Links
<1> QED BY <1>1, ReachLeast DEF ReachableFrom

\* The leaves of a combination are those of its members, any other schema is its own.
LEMMA LeavesOf ==
  ASSUME NEW n \in Nodes
  PROVE  /\ Leaves(n) \subseteq Nodes
         /\ Schema[n].combine = "none" => n \in Leaves(n)
         /\ Schema[n].combine # "none" => \A m \in References(n) : Leaves(m) \subseteq Leaves(n)
<1>1. Leaves(n) \subseteq Nodes /\ (Schema[n].combine = "none" => n \in Leaves(n))
  BY ReachClosed DEF Leaves
<1>2. ASSUME Schema[n].combine # "none", NEW m \in References(n)
      PROVE  Leaves(m) \subseteq Leaves(n)
  <2>1. Links(n, FALSE) = References(n) /\ m \in Nodes
    BY <1>2, ReferencesAreNodes DEF Links
  <2>2. m \in Reachable[FALSE][n]
    BY <2>1, ReachClosed
  <2>3. Reachable[FALSE][m] \subseteq Reachable[FALSE][n]
    BY <2>1, <2>2, ReachClosed, ReachLeast
  <2> QED BY <2>3 DEF Leaves
<1> QED BY <1>1, <1>2

\* What is reached is the start, or reached from something it refers to.
LEMMA ReachableApart ==
  ASSUME NEW n \in Nodes, NEW x \in ReachableFrom(n)
  PROVE  x = n \/ \E m \in References(n) : x \in ReachableFrom(m)
<1> DEFINE S == {n} \cup UNION {ReachableFrom(m) : m \in References(n)}
<1>1. \A m \in References(n) : m \in ReachableFrom(m)
  BY ReferencesAreNodes, ReachableClosed
<1>2. \A m \in S : References(m) \subseteq S
  <2>1. ASSUME NEW y \in References(n), NEW m \in ReachableFrom(y)
        PROVE  References(m) \subseteq S
    <3>1. y \in Nodes
      BY ReferencesAreNodes
    <3>2. References(m) \subseteq ReachableFrom(y)
      BY <3>1, ReachableClosed
    <3> QED BY <3>2
  <2>2. References(n) \subseteq S
    BY <1>1
  <2> QED BY <2>1, <2>2
<1>3. n \in S
  OBVIOUS
<1>4. ReachableFrom(n) \subseteq S
  <2> HIDE DEF S
  <2> QED BY <1>2, <1>3, ReachableLeast
<1> QED BY <1>4

\* And what is reached from a reference is reached.
LEMMA ReachableThrough ==
  ASSUME NEW n \in Nodes, NEW m \in References(n), NEW x \in ReachableFrom(m)
  PROVE  x \in ReachableFrom(n)
<1>1. m \in ReachableFrom(n) /\ m \in Nodes
  BY ReachableClosed, ReferencesAreNodes
<1>2. ReachableFrom(m) \subseteq ReachableFrom(n)
  BY <1>1, ReachableClosed, ReachableLeast
<1> QED BY <1>2

-----------------------------------------------------------------------------
(* Visits.                                                                 *)

InnerOf(f, v) ==
  [i \in DOMAIN Schema[NodeOf(v)].inner |->
     f[To(v, Schema[NodeOf(v)].inner[i], InnerName(v))]]
FieldsOf(f, v) ==
  [p \in DOMAIN Schema[NodeOf(v)].props |-> f[To(v, Schema[NodeOf(v)].props[p], p)]]

Unseen(v) == Nodes \ {v.path[i] : i \in DOMAIN v.path}
Left(v) == Cardinality(Unseen(v))

\* The nodes not yet on the way of a visit are finitely many, no more than there are.
LEMMA LeftIsNat ==
  ASSUME NEW v \in Visits
  PROVE  Left(v) \in Nat /\ Left(v) <= Bound /\ IsFiniteSet(Unseen(v))
<1>1. Unseen(v) \subseteq Nodes
  BY DEF Unseen
<1>2. IsFiniteSet(Unseen(v)) /\ Cardinality(Unseen(v)) <= Cardinality(Nodes)
  BY <1>1, BoundIsNat, FS_Subset
<1> QED BY <1>2, FS_CardinalityType DEF Left, Bound

\* The names a visit may be under.
LEMMA NamesHas ==
  /\ "" \in Names
  /\ \A n \in Nodes : /\ Schema[n].xml \in Names
                      /\ \A p \in DOMAIN Schema[n].props : p \in Names
<1>1. "" \in Names
  BY DEF Names
<1>2. ASSUME NEW n \in Nodes
      PROVE  {Schema[n].xml} \cup DOMAIN Schema[n].props \subseteq Names
  BY DEF Names
<1> QED BY <1>1, <1>2

\* What a visit is made of.
LEMMA VisitFacts ==
  ASSUME NEW v \in Visits
  PROVE  /\ v.path \in Seq(Nodes) /\ Len(v.path) \in Nat \ {0}
         /\ v.name \in Names /\ v.isXML \in BOOLEAN
         /\ NodeOf(v) \in Nodes /\ InnerName(v) \in Names
<1>1. v.path \in Seq(Nodes) /\ v.path # <<>> /\ v.name \in Names /\ v.isXML \in BOOLEAN
  BY DEF Visits
<1>2. Len(v.path) \in Nat \ {0}
  BY <1>1
<1>3. NodeOf(v) \in Nodes
  BY <1>1, <1>2 DEF NodeOf, Last
<1>4. InnerName(v) \in Names
  BY <1>1, <1>3, NamesHas DEF InnerName, XmlName
<1> QED BY <1>1, <1>2, <1>3, <1>4

\* The visit of a schema the one at hand refers to.
LEMMA ToFacts ==
  ASSUME NEW v \in Visits, NEW n \in Nodes, NEW name \in Names
  PROVE  /\ To(v, n, name) \in Visits
         /\ To(v, n, name).path = Append(v.path, n)
         /\ To(v, n, name).name = name
         /\ To(v, n, name).isXML = v.isXML
         /\ NodeOf(To(v, n, name)) = n
<1>1. v \in [path : Seq(Nodes) \ {<<>>}, name : Names, isXML : BOOLEAN]
  BY DEF Visits
<1>2. v.path \in Seq(Nodes) /\ Append(v.path, n) \in Seq(Nodes) \ {<<>>}
  BY <1>1
<1>3. To(v, n, name) = [v EXCEPT !.path = Append(v.path, n), !.name = name]
  BY <1>1 DEF To
<1>4. To(v, n, name) \in [path : Seq(Nodes) \ {<<>>}, name : Names, isXML : BOOLEAN]
  BY <1>1, <1>2, <1>3
<1>5. To(v, n, name).path = Append(v.path, n)
  BY <1>1, <1>3
<1>6. To(v, n, name).name = name /\ To(v, n, name).isXML = v.isXML
  BY <1>1, <1>3
<1>7. NodeOf(To(v, n, name)) = n
  BY <1>2, <1>5 DEF NodeOf, Last
<1> QED BY <1>4, <1>5, <1>6, <1>7 DEF Visits

\* A visit leads to one of a node that is on the way already, or leaves fewer that
\* are not.
LEMMA FewerLeft ==
  ASSUME NEW v \in Visits, NEW n \in Nodes, NEW name \in Names,
         ~Repeats(To(v, n, name))
  PROVE  Left(To(v, n, name)) < Left(v)
<1> DEFINE w == To(v, n, name)
<1>1. w \in Visits /\ w.path = Append(v.path, n) /\ NodeOf(w) = n
  BY ToFacts
<1>2. v.path \in Seq(Nodes)
  BY VisitFacts
<1> HIDE DEF w
<1>3. Len(w.path) = Len(v.path) + 1 /\ Len(v.path) \in Nat
  BY <1>1, <1>2
<1>4. \A i \in 1 .. Len(v.path) : w.path[i] = v.path[i]
  BY <1>1, <1>2
<1>5. w.path[Len(v.path) + 1] = n
  BY <1>1, <1>2
<1>6. ~Repeats(w)
  BY DEF w
<1>7. \A i \in 1 .. Len(v.path) : v.path[i] # n
  BY <1>1, <1>3, <1>4, <1>6 DEF Repeats
<1>8. DOMAIN v.path = 1 .. Len(v.path) /\ DOMAIN w.path = 1 .. Len(v.path) + 1
  BY <1>1, <1>2
<1>9. n \in Unseen(v)
  BY <1>7, <1>8 DEF Unseen
<1>10. n \notin Unseen(w)
  BY <1>3, <1>5, <1>8 DEF Unseen
<1>11. Unseen(w) \subseteq Unseen(v)
  BY <1>3, <1>4, <1>8 DEF Unseen
<1>12. IsFiniteSet(Unseen(v)) /\ Left(v) \in Nat /\ Left(w) \in Nat
  BY <1>1, LeftIsNat
<1>13. Left(w) <= Left(v) /\ Left(w) # Left(v)
  BY <1>9, <1>10, <1>11, <1>12, FS_Subset DEF Left
<1>14. Left(w) < Left(v)
  BY <1>12, <1>13
<1> QED BY <1>14 DEF w

\* What holds of the visits that repeat a node, and of one when it does of those it
\* leads to, holds of all.
LEMMA VisitInduction ==
  ASSUME NEW G,
         \A v \in Visits : Repeats(v) => v \in G,
         \A v \in Visits :
           (\A n \in Nodes, name \in Names : To(v, n, name) \in G) => v \in G
  PROVE  \A v \in Visits : v \in G
<1> DEFINE H == {k \in Nat : \A v \in Visits : Left(v) < k => v \in G}
<1>1. 0 \in H
  BY LeftIsNat
<1>2. ASSUME NEW k \in Nat, k \in H
      PROVE  k + 1 \in H
  <2> SUFFICES ASSUME NEW v \in Visits, Left(v) < k + 1
               PROVE  v \in G
    OBVIOUS
  <2>1. ASSUME NEW n \in Nodes, NEW name \in Names
        PROVE  To(v, n, name) \in G
    <3>1. To(v, n, name) \in Visits
      BY ToFacts
    <3>2. CASE ~Repeats(To(v, n, name))
      <4> DEFINE w == To(v, n, name)
      <4>1. w \in Visits /\ Left(w) < Left(v)
        BY <3>1, <3>2, FewerLeft
      <4> HIDE DEF w
      <4>2. Left(v) \in Nat /\ Left(w) \in Nat
        BY <4>1, LeftIsNat
      <4>3. w \in G
        BY <1>2, <4>1, <4>2
      <4> QED BY <4>3 DEF w
    <3> QED BY <3>1, <3>2
  <2> QED BY <2>1
<1>3. Bound + 1 \in H
  <2> HIDE DEF H
  <2> QED BY <1>1, <1>2, NatSets, BoundIsNat
<1>4. ASSUME NEW v \in Visits
      PROVE  Left(v) < Bound + 1
  BY LeftIsNat, BoundIsNat
<1> QED BY <1>3, <1>4

\* A visit depends on those it leads to, and on nothing where it repeats a node.
LEMMA VisitDepends ==
  ASSUME NEW v \in Visits, NEW f, NEW g,
         \A n \in Nodes, name \in Names : f[To(v, n, name)] = g[To(v, n, name)]
  PROVE  InnerOf(f, v) = InnerOf(g, v) /\ FieldsOf(f, v) = FieldsOf(g, v)
<1> DEFINE s == Schema[NodeOf(v)]
<1>1. NodeOf(v) \in Nodes /\ InnerName(v) \in Names
  BY VisitFacts
<1>2. \A i \in DOMAIN s.inner : s.inner[i] \in Nodes
  BY <1>1, SchemaAssumption
<1>3. \A p \in DOMAIN s.props : s.props[p] \in Nodes /\ p \in Names
  BY <1>1, SchemaAssumption, NamesHas
<1>4. InnerOf(f, v) = InnerOf(g, v)
  BY <1>1, <1>2 DEF InnerOf
<1>5. FieldsOf(f, v) = FieldsOf(g, v)
  BY <1>3 DEF FieldsOf
<1> QED BY <1>4, <1>5

\* There is a function SchemaToMap is the CHOOSE of: a visit leads to visits with fewer
\* nodes left, and one that repeats a node leads to none.
LEMMA MapExists ==
  \E f : f = [v \in Visits |-> Visit(v, InnerOf(f, v), FieldsOf(f, v))]
<1> DEFINE Stop == Failed({"panic"})
           Upto(k, f) ==
             f = [v \in Visits |->
                    IF Repeats(v) THEN Stop
                    ELSE IF Left(v) < k THEN Visit(v, InnerOf(f, v), FieldsOf(f, v))
                    ELSE Stop]
           G == {k \in Nat : \E f : Upto(k, f)}
<1>0. ASSUME NEW v \in Visits, Repeats(v), NEW x, NEW y
      PROVE  Visit(v, x, y) = Stop
  BY <1>0 DEF Visit
<1> HIDE DEF Stop
<1>1. 0 \in G
  <2> DEFINE f == [v \in Visits |-> Stop]
  <2>1. \A v \in Visits : ~(Left(v) < 0)
    BY LeftIsNat
  <2>2. Upto(0, f)
    BY <2>1
  <2> QED BY <2>2
<1>2. ASSUME NEW k \in Nat, k \in G
      PROVE  k + 1 \in G
  <2>1. PICK f : Upto(k, f)
    BY <1>2
  <2> DEFINE g == [v \in Visits |->
                     IF Repeats(v) THEN Stop
                     ELSE IF Left(v) < k THEN f[v]
                     ELSE IF Left(v) = k THEN Visit(v, InnerOf(f, v), FieldsOf(f, v))
                     ELSE Stop]
  <2>2. ASSUME NEW v \in Visits, Left(v) <= k
        PROVE  InnerOf(f, v) = InnerOf(g, v) /\ FieldsOf(f, v) = FieldsOf(g, v)
    <3>1. ASSUME NEW n \in Nodes, NEW name \in Names
          PROVE  f[To(v, n, name)] = g[To(v, n, name)]
      <4> DEFINE w == To(v, n, name)
      <4>1. w \in Visits
        BY ToFacts
      <4>2. CASE Repeats(w)
        BY <2>1, <4>1, <4>2
      <4>3. CASE ~Repeats(w)
        <5>1. Left(w) < Left(v)
          BY <4>3, FewerLeft
        <5> HIDE DEF w, g
        <5>2. Left(v) \in Nat /\ Left(w) \in Nat
          BY <4>1, LeftIsNat
        <5>3. Left(w) < k
          BY <2>2, <5>1, <5>2
        <5> USE DEF g
        <5>4. g[w] = f[w]
          BY <4>1, <4>3, <5>3
        <5> QED BY <5>4 DEF w
      <4> QED BY <4>2, <4>3
    <3> HIDE DEF g
    <3> QED BY <3>1, VisitDepends
  <2>3. ASSUME NEW v \in Visits
        PROVE  g[v] = IF Repeats(v) THEN Stop
                      ELSE IF Left(v) < k + 1 THEN Visit(v, InnerOf(g, v), FieldsOf(g, v))
                      ELSE Stop
    <3>1. Left(v) \in Nat
      BY LeftIsNat
    <3>2. CASE Repeats(v)
      BY <3>2
    <3>3. CASE ~Repeats(v) /\ Left(v) < k
      <4>1. g[v] = f[v]
        BY <3>3
      <4>2. f[v] = Visit(v, InnerOf(f, v), FieldsOf(f, v))
        BY <2>1, <3>3
      <4>3. Visit(v, InnerOf(f, v), FieldsOf(f, v)) = Visit(v, InnerOf(g, v), FieldsOf(g, v))
        BY <2>2, <3>1, <3>3
      <4> HIDE DEF g
      <4> QED BY <3>1, <3>3, <4>1, <4>2, <4>3
    <3>4. CASE ~Repeats(v) /\ Left(v) = k
      <4>1. g[v] = Visit(v, InnerOf(f, v), FieldsOf(f, v))
        BY <3>4
      <4>2. Visit(v, InnerOf(f, v), FieldsOf(f, v)) = Visit(v, InnerOf(g, v), FieldsOf(g, v))
        BY <2>2, <3>1, <3>4
      <4> HIDE DEF g
      <4> QED BY <3>1, <3>4, <4>1, <4>2
    <3>5. CASE ~Repeats(v) /\ Left(v) > k
      BY <3>1, <3>5
    <3> QED BY <3>1, <3>2, <3>3, <3>4, <3>5
  <2>4. g = [v \in Visits |-> g[v]]
    OBVIOUS
  <2>5. Upto(k + 1, g)
    <3> HIDE DEF g
    <3> QED BY <2>3, <2>4
  <2> HIDE DEF g
  <2> QED BY <2>5
<1>3. Bound + 1 \in G
  <2> HIDE DEF G
  <2> QED BY <1>1, <1>2, NatSets, BoundIsNat
<1>4. PICK f : Upto(Bound + 1, f)
  BY <1>3
<1>5. ASSUME NEW v \in Visits
      PROVE  f[v] = Visit(v, InnerOf(f, v), FieldsOf(f, v))
  <2>1. Left(v) < Bound + 1
    BY LeftIsNat, BoundIsNat
  <2> QED BY <1>0, <1>4, <2>1
<1>6. f = [v \in Visits |-> f[v]]
  BY <1>4
<1>7. f = [v \in Visits |-> Visit(v, InnerOf(f, v), FieldsOf(f, v))]
  BY <1>5, <1>6
<1> QED BY <1>7

\* SchemaToMap satisfies its own definition.
LEMMA MapEquation ==
  \A v \in Visits :
    SchemaToMap[v] = Visit(v, InnerOf(SchemaToMap, v), FieldsOf(SchemaToMap, v))
<1> DEFINE Is(f) == f = [v \in Visits |-> Visit(v, InnerOf(f, v), FieldsOf(f, v))]
<1>1. SchemaToMap = CHOOSE f : Is(f)
  BY DEF SchemaToMap, InnerOf, FieldsOf
<1>2. \E f : Is(f)
  BY MapExists
<1>3. Is(SchemaToMap)
  BY <1>1, <1>2
<1> QED BY <1>3

-----------------------------------------------------------------------------
(* What a visit returns.                                                   *)

\* Of some natural numbers one is least.
LEMMA LeastOf ==
  ASSUME NEW S, S \subseteq Nat, S # {}
  PROVE  \E i \in S : \A j \in S : i <= j
<1> SUFFICES ASSUME \A i \in S : \E j \in S : j < i
             PROVE  FALSE
  OBVIOUS
<1> DEFINE G == {k \in Nat : \A i \in S : k <= i}
<1>1. 0 \in G
  OBVIOUS
<1>2. ASSUME NEW k \in Nat, k \in G
      PROVE  k + 1 \in G
  <2>1. k \notin S
    BY <1>2
  <2>2. \A i \in S : k <= i /\ i # k
    BY <1>2, <2>1
  <2> QED BY <2>2
<1>3. \A k \in Nat : k \in G
  <2> HIDE DEF G
  <2> QED BY <1>1, <1>2, NatSets
<1>4. PICK i \in S : TRUE
  OBVIOUS
<1>5. i + 1 \in G
  BY <1>3, <1>4
<1> QED BY <1>4, <1>5

\* The list is failed by one of its members, or is of maps.
LEMMA FirstFailureOf ==
  ASSUME NEW rs, DOMAIN rs \subseteq Nat
  PROVE  /\ FirstFailure(rs) = {} =>
              \A i \in DOMAIN rs : rs[i].fails = {} /\ rs[i].kind = "map"
         /\ \A x \in FirstFailure(rs) :
              x # "error" => \E i \in DOMAIN rs : x \in rs[i].fails
<1> DEFINE bad == {i \in DOMAIN rs : rs[i].fails # {} \/ rs[i].kind # "map"}
           first == CHOOSE i \in bad : \A j \in bad : i <= j
<1>1. FirstFailure(rs) =
        IF bad = {} THEN {} ELSE IF rs[first].fails # {} THEN rs[first].fails ELSE {"error"}
  BY DEF FirstFailure
<1>2. ASSUME bad # {}
      PROVE  first \in DOMAIN rs
  <2>1. bad \subseteq Nat /\ bad \subseteq DOMAIN rs
    OBVIOUS
  <2> HIDE DEF bad
  <2>2. \E i \in bad : \A j \in bad : i <= j
    BY <1>2, <2>1, LeastOf
  <2> QED BY <2>1, <2>2
<1>3. ASSUME FirstFailure(rs) = {}
      PROVE  bad = {}
  <2> HIDE DEF bad, first
  <2> QED BY <1>1, <1>3
<1>4. ASSUME NEW x \in FirstFailure(rs), x # "error"
      PROVE  x \in rs[first].fails /\ bad # {}
  <2> HIDE DEF bad, first
  <2> QED BY <1>1, <1>4
<1> HIDE DEF first
<1> QED BY <1>2, <1>3, <1>4

\* Wrapping a value for XML never fails.
LEMMA WrappedFails ==
  ASSUME NEW r, NEW name
  PROVE  XmlWrapped(r, name).fails = r.fails
BY DEF XmlWrapped, Result

\* allOf fails as the first of its members that does.
LEMMA CombinationFails ==
  ASSUME NEW rs, DOMAIN rs \subseteq Nat
  PROVE  /\ AllOf(rs).fails \subseteq FirstFailure(rs)
         /\ AllOf(rs).fails = {} => FirstFailure(rs) = {}
<1>1. CASE FirstFailure(rs) = {}
  BY <1>1 DEF AllOf, Result
<1>2. CASE FirstFailure(rs) # {}
  <2>1. AllOf(rs) = Failed(FirstFailure(rs))
    BY <1>2 DEF AllOf
  <2> QED BY <1>2, <2>1 DEF Failed
<1> QED BY <1>1, <1>2

\* Of some lengths one is greatest.
LEMMA GreatestOf ==
  ASSUME NEW n \in Nat, NEW f, n # 0, \A i \in 1 .. n : f[i] \in Nat
  PROVE  \E i \in 1 .. n : \A j \in 1 .. n : f[j] <= f[i]
<1> DEFINE G == {k \in Nat : k \in 1 .. n =>
                   \E i \in 1 .. k : \A j \in 1 .. k : f[j] <= f[i]}
<1>1. 0 \in G
  OBVIOUS
<1>2. ASSUME NEW k \in Nat, k \in G
      PROVE  k + 1 \in G
  <2> SUFFICES ASSUME k + 1 \in 1 .. n
               PROVE  \E i \in 1 .. k + 1 : \A j \in 1 .. k + 1 : f[j] <= f[i]
    OBVIOUS
  <2>1. CASE k = 0
    <3>1. \A j \in 1 .. k + 1 : j = 1
      BY <2>1
    <3>2. 1 \in 1 .. k + 1 /\ f[1] \in Nat
      BY <2>1
    <3> QED BY <3>1, <3>2
  <2>2. CASE k # 0
    <3>1. PICK i \in 1 .. k : \A j \in 1 .. k : f[j] <= f[i]
      BY <1>2, <2>2
    <3>2. i \in 1 .. n /\ f[i] \in Nat /\ f[k + 1] \in Nat
      OBVIOUS
    <3>3. \A j \in 1 .. k + 1 : j \in 1 .. k \/ j = k + 1
      OBVIOUS
    <3>4. \A j \in 1 .. k + 1 : f[j] \in Nat
      OBVIOUS
    <3>5. CASE f[k + 1] <= f[i]
      BY <3>1, <3>3, <3>5
    <3>6. CASE f[k + 1] > f[i]
      <4>1. \A j \in 1 .. k + 1 : f[j] <= f[k + 1]
        BY <3>1, <3>2, <3>3, <3>4, <3>6
      <4> QED BY <4>1
    <3> QED BY <3>2, <3>5, <3>6
  <2> QED BY <2>1, <2>2
<1>3. \A k \in Nat : k \in G
  <2> HIDE DEF G
  <2> QED BY <1>1, <1>2, NatSets
<1> QED BY <1>3

\* oneOf takes a member with strings, when any has some.
LEMMA OneOfIs ==
  ASSUME NEW n \in Nat, NEW rs, DOMAIN rs = 1 .. n,
         \A i \in 1 .. n : rs[i].fails = {} => IsFiniteSet(DOMAIN rs[i].spec)
  PROVE  /\ OneOf(rs).fails \subseteq FirstFailure(rs)
         /\ OneOf(rs).fails = {} =>
              /\ FirstFailure(rs) = {}
              /\ \/ /\ OneOf(rs) = Result("nil", <<>>, <<>>)
                    /\ \A i \in 1 .. n : DOMAIN rs[i].spec = {}
                 \/ \E i \in 1 .. n : OneOf(rs) = rs[i] /\ DOMAIN rs[i].spec # {}
<1> DEFINE size(i) == Cardinality(DOMAIN rs[i].spec)
           best == {i \in DOMAIN rs : size(i) > 0 /\ \A j \in DOMAIN rs : size(j) <= size(i)}
           first == CHOOSE i \in best : \A j \in best : i <= j
<1>1. CASE FirstFailure(rs) # {}
  <2>1. OneOf(rs) = Failed(FirstFailure(rs))
    BY <1>1 DEF OneOf
  <2> QED BY <1>1, <2>1 DEF Failed
<1>2. CASE FirstFailure(rs) = {}
  <2>1. OneOf(rs) = IF best = {} THEN Result("nil", <<>>, <<>>) ELSE rs[first]
    BY <1>2 DEF OneOf
  <2>2. \A i \in 1 .. n : rs[i].fails = {}
    BY <1>2, FirstFailureOf
  <2>3. ASSUME NEW i \in 1 .. n
        PROVE  size(i) \in Nat /\ (size(i) = 0 <=> DOMAIN rs[i].spec = {})
    BY <2>2, FS_CardinalityType, FS_EmptySet
  <2>4. CASE best = {}
    <3>1. OneOf(rs) = Result("nil", <<>>, <<>>)
      BY <2>1, <2>4
    <3>2. ASSUME NEW i \in 1 .. n, DOMAIN rs[i].spec # {}
          PROVE  FALSE
      <4> DEFINE f == [j \in 1 .. n |-> size(j)]
      <4>1. \A j \in 1 .. n : f[j] \in Nat /\ f[j] = size(j)
        BY <2>3
      <4>2. n # 0
        OBVIOUS
      <4>3. PICK k \in 1 .. n : \A j \in 1 .. n : f[j] <= f[k]
        <5> HIDE DEF f
        <5> QED BY <4>1, <4>2, GreatestOf
      <4>4. \A j \in 1 .. n : size(j) <= size(k)
        <5> HIDE DEF f
        <5> QED BY <4>1, <4>3
      <4>5. size(i) > 0 /\ size(i) <= size(k) /\ size(k) \in Nat /\ size(i) \in Nat
        BY <2>3, <3>2, <4>4
      <4>6. k \in best
        <5> HIDE DEF size
        <5> QED BY <4>4, <4>5
      <4> QED BY <2>4, <4>6
    <3>3. Result("nil", <<>>, <<>>).fails = {}
      BY DEF Result
    <3> QED BY <1>2, <3>1, <3>2, <3>3
  <2>5. CASE best # {}
    <3>1. best \subseteq 1 .. n /\ best \subseteq Nat
      OBVIOUS
    <3>2. first \in best
      <4> HIDE DEF best
      <4>1. \E i \in best : \A j \in best : i <= j
        BY <2>5, <3>1, LeastOf
      <4> QED BY <4>1
    <3>3. OneOf(rs) = rs[first]
      BY <2>1, <2>5
    <3>4. first \in 1 .. n /\ size(first) > 0
      <4> HIDE DEF first, size
      <4> QED BY <3>2
    <3>5. DOMAIN rs[first].spec # {} /\ rs[first].fails = {}
      <4> HIDE DEF first
      <4> QED BY <2>2, <2>3, <3>4
    <3> HIDE DEF first, best
    <3> QED BY <1>2, <3>3, <3>4, <3>5
  <2> QED BY <2>4, <2>5
<1> QED BY <1>1, <1>2

\* An object fails as any of its properties may.
LEMMA ObjectFails ==
  ASSUME NEW rs, NEW isXML
  PROVE  Object(rs, isXML).fails = UNION {rs[p].fails : p \in DOMAIN rs}
<1> DEFINE fails == UNION {rs[p].fails : p \in DOMAIN rs}
<1>1. CASE fails = {}
  BY <1>1 DEF Object, Result
<1>2. CASE fails # {}
  BY <1>2 DEF Object, Failed
<1> QED BY <1>1, <1>2

\* A number the generators panic at has no value.
LEMMA NoNumber ==
  ASSUME NEW n \in Nodes, NumberPanics(Schema[n])
  PROVE  ~HasNumber(Schema[n])
<1> DEFINE s == Schema[n]
<1>1. s.min \in Nat /\ s.max \in Nat /\ s.exMin \in BOOLEAN /\ s.exMax \in BOOLEAN
  BY SchemaAssumption
<1>2. NumberPanics(s)
  OBVIOUS
<1> HIDE DEF s
<1>3. ASSUME HasNumber(s)
      PROVE  FALSE
  <2>1. PICK v \in 0 .. NoLimit : /\ IF s.exMin THEN s.min < v ELSE s.min <= v
                                 /\ IF s.exMax THEN v < s.max ELSE v <= s.max
    BY <1>3 DEF HasNumber
  <2>2. v \in Nat
    BY DEF NoLimit
  <2>3. s.max + (IF s.exMax THEN 0 ELSE 1) <= s.min + (IF s.exMin THEN 1 ELSE 0)
    BY <1>2 DEF NumberPanics
  <2> QED BY <1>1, <2>1, <2>2, <2>3
<1> QED BY <1>3 DEF s

\* Such a number cannot be filled in, nor a string genRandomString panics at.
LEMMA PanicsUnfillable ==
  ASSUME NEW n \in Nodes, Schema[n].combine = "none"
  PROVE  /\ Schema[n].type \in {"integer", "number"} /\ NumberPanics(Schema[n]) => Unfillable(n)
         /\ Schema[n].type = "string" /\ StringPanics(Schema[n].min, Schema[n].max) => Unfillable(n)
<1> DEFINE s == Schema[n]
<1>1. s.min \in Nat /\ s.max \in Nat /\ StringSize \in Nat
  BY SchemaAssumption
<1> HIDE DEF s
<1>2. ASSUME StringPanics(s.min, s.max)
      PROVE  s.max < StringSize \/ s.max < s.min
  BY <1>1, <1>2 DEF StringPanics
<1> QED BY <1>2, NoNumber DEF Unfillable, s

\* A visit that panics is of such a schema, or refers to one whose visit does; no visit
\* ends in any other way but an error.
LEMMA VisitPanics ==
  ASSUME NEW v \in Visits, ~Repeats(v), NEW inner, NEW fields,
         DOMAIN inner = DOMAIN Schema[NodeOf(v)].inner,
         DOMAIN fields = DOMAIN Schema[NodeOf(v)].props,
         \A i \in DOMAIN inner : inner[i].fails = {} => IsFiniteSet(DOMAIN inner[i].spec),
         NEW x \in Visit(v, inner, fields).fails, x # "error"
  PROVE  \/ x = "panic" /\ Unfillable(NodeOf(v))
         \/ \E i \in DOMAIN inner : /\ Schema[NodeOf(v)].inner[i] \in References(NodeOf(v))
                                    /\ x \in inner[i].fails
         \/ \E p \in DOMAIN fields : /\ Schema[NodeOf(v)].props[p] \in References(NodeOf(v))
                                     /\ x \in fields[p].fails
<1> DEFINE n == NodeOf(v)
           s == Schema[n]
<1>1. n \in Nodes
  BY VisitFacts
<1>2. /\ s.inner \in Seq(Nodes) /\ s.combine \in {"none", "allOf", "oneOf"}
      /\ s.type \in Types /\ (s.type = "array" => Len(s.inner) = 1)
  BY <1>1, SchemaAssumption
<1>3. Len(s.inner) \in Nat /\ DOMAIN inner = 1 .. Len(s.inner) /\ DOMAIN s.inner = 1 .. Len(s.inner)
  BY <1>2
<1>4. CASE s.combine # "none"
  <2>1. \A i \in DOMAIN inner : s.inner[i] \in References(n)
    BY <1>4 DEF References
  <2>2. x \in FirstFailure(inner)
    <3>1. CASE s.combine = "allOf"
      <4>1. Visit(v, inner, fields) = AllOf(inner)
        BY <3>1 DEF Visit
      <4> QED BY <1>3, <4>1, CombinationFails
    <3>2. CASE s.combine = "oneOf"
      <4>1. Visit(v, inner, fields) = OneOf(inner)
        BY <3>2 DEF Visit
      <4> QED BY <1>3, <4>1, OneOfIs
    <3> QED BY <1>2, <1>4, <3>1, <3>2
  <2>3. \E i \in DOMAIN inner : x \in inner[i].fails
    BY <1>3, <2>2, FirstFailureOf
  <2> QED BY <2>1, <2>3
<1>5. CASE s.combine = "none"
  <2>1. x \in Value(v, inner, fields).fails
    <3>1. CASE v.isXML
      <4>1. Visit(v, inner, fields) = XmlWrapped(Value(v, inner, fields), XmlName(n, v.name))
        BY <1>5, <3>1 DEF Visit
      <4> QED BY <4>1, WrappedFails
    <3>2. CASE ~v.isXML
      BY <1>5, <3>2 DEF Visit
    <3> QED BY <3>1, <3>2
  <2>2. CASE s.type = "string"
    <3>1. StringPanics(s.min, s.max) /\ x = "panic"
      BY <2>1, <2>2 DEF Value, Result, Failed
    <3> QED BY <1>1, <1>5, <2>2, <3>1, PanicsUnfillable
  <2>3. CASE s.type \in {"integer", "number"}
    <3>1. NumberPanics(s) /\ x = "panic"
      BY <2>1, <2>3 DEF Value, Result, Failed
    <3> QED BY <1>1, <1>5, <2>3, <3>1, PanicsUnfillable
  <2>4. CASE s.type = "boolean"
    BY <2>1, <2>4 DEF Value, Result
  <2>5. CASE s.type = "none"
    BY <2>1, <2>5 DEF Value, Failed
  <2>6. CASE s.type = "array"
    <3>0. 1 \in DOMAIN s.inner
      <4>1. Len(s.inner) = 1
        BY <1>2, <2>6
      <4> HIDE DEF s
      <4>2. DOMAIN s.inner = 1 .. 1
        BY <1>3, <4>1
      <4> QED BY <4>2
    <3>1. 1 \in DOMAIN inner /\ s.inner[1] \in References(n)
      BY <2>6, <3>0 DEF References
    <3>2. Value(v, inner, fields) =
            IF inner[1].fails # {} THEN inner[1]
            ELSE Result("list", Entry("", InBody(inner[1])), inner[1].spec)
      BY <2>6 DEF Value
    <3>3. Result("list", Entry("", InBody(inner[1])), inner[1].spec).fails = {}
      BY DEF Result
    <3>4. x \in inner[1].fails
      BY <2>1, <3>2, <3>3
    <3> QED BY <3>1, <3>4
  <2>7. CASE s.type = "object"
    <3>1. Value(v, inner, fields) = Object(fields, v.isXML)
      BY <2>7 DEF Value
    <3>2. PICK p \in DOMAIN fields : x \in fields[p].fails
      BY <2>1, <3>1, ObjectFails
    <3>3. s.props[p] \in References(n)
      BY <1>5, <2>7 DEF References
    <3> QED BY <3>2, <3>3
  <2> QED BY <1>2, <2>2, <2>3, <2>4, <2>5, <2>6, <2>7 DEF Types
<1> QED BY <1>4, <1>5

\* A string is among the schemas one leads to.
HasString(n) == \E m \in ReachableFrom(n) : IsString(m)

\* A schema leads to a string when it is one or refers to a schema that does.
LEMMA StringBelow ==
  ASSUME NEW n \in Nodes
  PROVE  HasString(n) <=> IsString(n) \/ \E m \in References(n) : HasString(m)
<1>1. ASSUME NEW x \in ReachableFrom(n), IsString(x)
      PROVE  IsString(n) \/ \E m \in References(n) : HasString(m)
  BY <1>1, ReachableApart DEF HasString
<1>2. IsString(n) => HasString(n)
  BY ReachableClosed DEF HasString
<1>3. ASSUME NEW m \in References(n), HasString(m)
      PROVE  HasString(n)
  BY <1>3, ReachableThrough DEF HasString
<1> QED BY <1>1, <1>2, <1>3 DEF HasString

\* A result has placeholders exactly when its schema leads to a string.
StringsFound(r, n) ==
  r.fails = {} =>
    IsFiniteSet(DOMAIN r.spec) /\ (DOMAIN r.spec # {} <=> HasString(n))

Members(rs) == {rs[i] : i \in DOMAIN rs}

\* The placeholders of several results together are finitely many, and there are some when
\* one of the results has some.
LEMMA SpecsUnited ==
  ASSUME NEW rs, IsFiniteSet(DOMAIN rs),
         \A i \in DOMAIN rs : IsFiniteSet(DOMAIN rs[i].spec)
  PROVE  /\ IsFiniteSet(DOMAIN SpecUnion(Members(rs)))
         /\ DOMAIN SpecUnion(Members(rs)) # {} <=> \E i \in DOMAIN rs : DOMAIN rs[i].spec # {}
<1> DEFINE I == DOMAIN rs
           D == {DOMAIN r.spec : r \in Members(rs)}
           f == [i \in I |-> DOMAIN rs[i].spec]
<1>1. f \in [I -> D]
  BY DEF Members
<1>2. \A d \in D : \E i \in I : f[i] = d
  BY DEF Members
<1>3. f \in Surjection(I, D)
  <2> HIDE DEF f, D, I
  <2> QED BY <1>1, <1>2 DEF Surjection
<1>4. IsFiniteSet(D)
  <2>1. IsFiniteSet(I)
    OBVIOUS
  <2> HIDE DEF f, D, I
  <2> QED BY <1>3, <2>1, FS_Surjection
<1>5. \A d \in D : IsFiniteSet(d)
  BY DEF Members
<1>6. IsFiniteSet(UNION D)
  <2> HIDE DEF D
  <2> QED BY <1>4, <1>5, FS_UNION
<1>7. DOMAIN SpecUnion(Members(rs)) = UNION D
  BY DEF SpecUnion
<1>8. UNION D # {} <=> \E i \in I : DOMAIN rs[i].spec # {}
  BY DEF Members
<1> QED BY <1>6, <1>7, <1>8

\* No two properties are the same node, so they are finitely many.
LEMMA PropertiesFinite ==
  ASSUME NEW n \in Nodes
  PROVE  IsFiniteSet(DOMAIN Schema[n].props)
<1> DEFINE P == DOMAIN Schema[n].props
           f == [p \in P |-> Schema[n].props[p]]
<1>1. f \in [P -> Nodes] /\ \A p, q \in P : f[p] = f[q] => p = q
  BY SchemaAssumption DEF IsInjective
<1>2. f \in Injection(P, Nodes)
  <2>1. DOMAIN f = P
    OBVIOUS
  <2> HIDE DEF f, P
  <2> QED BY <1>1, <2>1 DEF Injection, IsInjective
<1> HIDE DEF f
<1> QED BY <1>2, BoundIsNat, FS_Injection

\* Wrapping a value for XML keeps its placeholders.
LEMMA WrappedSpec ==
  ASSUME NEW r, NEW name, r.fails = {}
  PROVE  XmlWrapped(r, name).spec = r.spec
BY DEF XmlWrapped, Result

\* What StringsFound says of the schemas one refers to it says of that one.
LEMMA VisitFinds ==
  ASSUME NEW v \in Visits, NEW inner, NEW fields,
         DOMAIN inner = DOMAIN Schema[NodeOf(v)].inner,
         DOMAIN fields = DOMAIN Schema[NodeOf(v)].props,
         \A i \in DOMAIN inner : StringsFound(inner[i], Schema[NodeOf(v)].inner[i]),
         \A p \in DOMAIN fields : StringsFound(fields[p], Schema[NodeOf(v)].props[p])
  PROVE  StringsFound(Visit(v, inner, fields), NodeOf(v))
<1> DEFINE n == NodeOf(v)
           s == Schema[n]
           r == Visit(v, inner, fields)
<1> SUFFICES ASSUME r.fails = {}
             PROVE  IsFiniteSet(DOMAIN r.spec) /\ (DOMAIN r.spec # {} <=> HasString(n))
  BY DEF StringsFound
<1>1. n \in Nodes
  BY VisitFacts
<1>2. /\ s.inner \in Seq(Nodes) /\ s.combine \in {"none", "allOf", "oneOf"}
      /\ s.type \in Types /\ (s.type = "array" => Len(s.inner) = 1)
  BY <1>1, SchemaAssumption
<1>3. Len(s.inner) \in Nat /\ DOMAIN inner = 1 .. Len(s.inner) /\ DOMAIN s.inner = 1 .. Len(s.inner)
  BY <1>2
<1>4. ~Repeats(v)
  BY DEF Visit, Failed
<1>5. HasString(n) <=> IsString(n) \/ \E m \in References(n) : HasString(m)
  BY <1>1, StringBelow
<1>6. CASE s.combine # "none"
  <2>1. ~IsString(n) /\ References(n) = {s.inner[i] : i \in DOMAIN s.inner}
    BY <1>6 DEF IsString, References
  <2>2. \A i \in DOMAIN inner : inner[i].fails = {} => IsFiniteSet(DOMAIN inner[i].spec)
    BY DEF StringsFound
  <2>3. CASE s.combine = "allOf"
    <3>1. r = AllOf(inner)
      BY <1>4, <2>3 DEF Visit
    <3>2. FirstFailure(inner) = {}
      BY <1>3, <3>1, CombinationFails
    <3>3. \A i \in DOMAIN inner : inner[i].fails = {}
      BY <1>3, <3>2, FirstFailureOf
    <3>4. r.spec = SpecUnion(Members(inner))
      BY <3>1, <3>2 DEF AllOf, Result, Members
    <3>5. IsFiniteSet(DOMAIN inner)
      <4> DEFINE k == Len(s.inner)
      <4>1. k \in Nat /\ DOMAIN inner = 1 .. k
        BY <1>3
      <4> HIDE DEF s, k
      <4>2. IsFiniteSet(1 .. k)
        BY <4>1, FS_Interval
      <4> QED BY <4>1, <4>2
    <3>7. \A i \in DOMAIN inner : IsFiniteSet(DOMAIN inner[i].spec)
      BY <2>2, <3>3
    <3>8. /\ IsFiniteSet(DOMAIN SpecUnion(Members(inner)))
          /\ DOMAIN SpecUnion(Members(inner)) # {} <=> \E i \in DOMAIN inner : DOMAIN inner[i].spec # {}
      BY <3>5, <3>7, SpecsUnited
    <3>9. \A i \in DOMAIN inner : DOMAIN inner[i].spec # {} <=> HasString(s.inner[i])
      BY <3>3 DEF StringsFound
    <3> HIDE DEF r
    <3> QED BY <1>3, <1>5, <2>1, <3>4, <3>8, <3>9
  <2>4. CASE s.combine = "oneOf"
    <3>1. r = OneOf(inner)
      BY <1>4, <2>4 DEF Visit
    <3>2. /\ FirstFailure(inner) = {}
          /\ \/ /\ r = Result("nil", <<>>, <<>>)
                /\ \A i \in 1 .. Len(s.inner) : DOMAIN inner[i].spec = {}
             \/ \E i \in 1 .. Len(s.inner) : r = inner[i] /\ DOMAIN inner[i].spec # {}
      BY <1>3, <2>2, <3>1, OneOfIs
    <3>3. \A i \in DOMAIN inner : inner[i].fails = {}
      BY <1>3, <3>2, FirstFailureOf
    <3>4. \A i \in DOMAIN inner : DOMAIN inner[i].spec # {} <=> HasString(s.inner[i])
      BY <3>3 DEF StringsFound
    <3>5. CASE /\ r = Result("nil", <<>>, <<>>)
               /\ \A i \in 1 .. Len(s.inner) : DOMAIN inner[i].spec = {}
      <4>1. DOMAIN r.spec = {}
        BY <3>5 DEF Result
      <4>2. ~HasString(n)
        BY <1>3, <1>5, <2>1, <3>4, <3>5
      <4> QED BY <4>1, <4>2, FS_EmptySet
    <3>6. CASE \E i \in 1 .. Len(s.inner) : r = inner[i] /\ DOMAIN inner[i].spec # {}
      <4>1. PICK i \in 1 .. Len(s.inner) : r = inner[i] /\ DOMAIN inner[i].spec # {}
        BY <3>6
      <4> HIDE DEF r
      <4> QED BY <1>3, <1>5, <2>1, <2>2, <3>3, <3>4, <4>1
    <3> QED BY <3>2, <3>5, <3>6
  <2> QED BY <1>2, <1>6, <2>3, <2>4
<1>7. CASE s.combine = "none"
  <2> DEFINE w == Value(v, inner, fields)
  <2>1. w.fails = {} /\ r.spec = w.spec
    <3>1. CASE v.isXML
      <4>1. r = XmlWrapped(w, XmlName(n, v.name))
        BY <1>4, <1>7, <3>1 DEF Visit
      <4>2. w.fails = {}
        <5> HIDE DEF w
        <5> QED BY <4>1, WrappedFails
      <4> HIDE DEF w, r
      <4> QED BY <4>1, <4>2, WrappedSpec
    <3>2. CASE ~v.isXML
      <4>1. r = w
        BY <1>4, <1>7, <3>2 DEF Visit
      <4> HIDE DEF w, r
      <4> QED BY <4>1
    <3> QED BY <3>1, <3>2
  <2> SUFFICES IsFiniteSet(DOMAIN w.spec) /\ (DOMAIN w.spec # {} <=> HasString(n))
    <3> HIDE DEF w, r
    <3> QED BY <2>1
  <2>2. CASE s.type = "string"
    <3>1. w.spec = Entry(v.path, [min |-> s.min, max |-> s.max])
      BY <2>1, <2>2 DEF Value, Result, Failed
    <3>2. DOMAIN w.spec = {v.path}
      BY <3>1 DEF Entry
    <3>3. IsString(n)
      BY <1>7, <2>2 DEF IsString
    <3> HIDE DEF w
    <3> QED BY <1>5, <3>2, <3>3, FS_Singleton
  <2>3. CASE s.type \in {"integer", "number", "boolean", "none"}
    <3>1. w.spec = <<>>
      BY <2>1, <2>3 DEF Value, Result, Failed
    <3>2. ~IsString(n) /\ References(n) = {}
      BY <1>7, <2>3 DEF IsString, References
    <3>3. DOMAIN w.spec = {}
      BY <3>1
    <3> HIDE DEF w
    <3> QED BY <1>5, <3>2, <3>3, FS_EmptySet
  <2>4. CASE s.type = "array"
    <3>1. 1 \in DOMAIN inner /\ DOMAIN inner = {1}
      <4>1. Len(s.inner) = 1
        BY <1>2, <2>4
      <4> HIDE DEF s
      <4>2. DOMAIN inner = 1 .. 1
        BY <1>3, <4>1
      <4> QED BY <4>2
    <3>2. w = IF inner[1].fails # {} THEN inner[1]
              ELSE Result("list", Entry("", InBody(inner[1])), inner[1].spec)
      BY <2>4 DEF Value
    <3>3. inner[1].fails = {}
      <4> HIDE DEF w
      <4> QED BY <2>1, <3>2
    <3>4. w.spec = inner[1].spec
      <4>1. w = Result("list", Entry("", InBody(inner[1])), inner[1].spec)
        <5> HIDE DEF w
        <5> QED BY <3>2, <3>3
      <4> HIDE DEF w
      <4> QED BY <4>1 DEF Result
    <3>5. StringsFound(inner[1], s.inner[1])
      BY <3>1
    <3>6. ~IsString(n) /\ References(n) = {s.inner[i] : i \in DOMAIN s.inner}
      BY <1>7, <2>4 DEF IsString, References
    <3>7. \A m : m \in References(n) <=> m = s.inner[1]
      BY <1>3, <3>1, <3>6
    <3> HIDE DEF w
    <3> QED BY <1>5, <3>3, <3>4, <3>5, <3>6, <3>7 DEF StringsFound
  <2>5. CASE s.type = "object"
    <3>1. w = Object(fields, v.isXML)
      BY <2>5 DEF Value
    <3>2. UNION {fields[p].fails : p \in DOMAIN fields} = {}
      <4> HIDE DEF w
      <4> QED BY <2>1, <3>1, ObjectFails
    <3>3. \A p \in DOMAIN fields : fields[p].fails = {}
      BY <3>2
    <3>4. w.spec = SpecUnion(Members(fields))
      BY <3>1, <3>2 DEF Object, Result, Members
    <3>5. IsFiniteSet(DOMAIN fields)
      BY <1>1, PropertiesFinite
    <3>7. \A p \in DOMAIN fields : IsFiniteSet(DOMAIN fields[p].spec)
      BY <3>3 DEF StringsFound
    <3>8. /\ IsFiniteSet(DOMAIN SpecUnion(Members(fields)))
          /\ DOMAIN SpecUnion(Members(fields)) # {} <=> \E p \in DOMAIN fields : DOMAIN fields[p].spec # {}
      BY <3>5, <3>7, SpecsUnited
    <3>9. \A p \in DOMAIN fields : DOMAIN fields[p].spec # {} <=> HasString(s.props[p])
      BY <3>3 DEF StringsFound
    <3>10. ~IsString(n) /\ References(n) = {s.props[p] : p \in DOMAIN s.props}
      BY <1>7, <2>5 DEF IsString, References
    <3> HIDE DEF w
    <3> QED BY <1>5, <3>4, <3>8, <3>9, <3>10
  <2> QED BY <1>2, <2>2, <2>3, <2>4, <2>5 DEF Types
<1> QED BY <1>6, <1>7

\* The results of a visit's references are at hand.
LEMMA SubVisits ==
  ASSUME NEW v \in Visits
  PROVE  /\ DOMAIN InnerOf(SchemaToMap, v) = DOMAIN Schema[NodeOf(v)].inner
         /\ DOMAIN FieldsOf(SchemaToMap, v) = DOMAIN Schema[NodeOf(v)].props
         /\ \A i \in DOMAIN Schema[NodeOf(v)].inner :
              /\ InnerOf(SchemaToMap, v)[i] =
                   SchemaToMap[To(v, Schema[NodeOf(v)].inner[i], InnerName(v))]
              /\ Schema[NodeOf(v)].inner[i] \in Nodes
         /\ \A p \in DOMAIN Schema[NodeOf(v)].props :
              /\ FieldsOf(SchemaToMap, v)[p] =
                   SchemaToMap[To(v, Schema[NodeOf(v)].props[p], p)]
              /\ Schema[NodeOf(v)].props[p] \in Nodes
              /\ p \in Names
<1>1. NodeOf(v) \in Nodes
  BY VisitFacts
<1>2. \A i \in DOMAIN Schema[NodeOf(v)].inner : Schema[NodeOf(v)].inner[i] \in Nodes
  BY <1>1, SchemaAssumption
<1>3. \A p \in DOMAIN Schema[NodeOf(v)].props :
        Schema[NodeOf(v)].props[p] \in Nodes /\ p \in Names
  BY <1>1, SchemaAssumption, NamesHas
<1> QED BY <1>2, <1>3 DEF InnerOf, FieldsOf

\* A visit that ends with a result has found a placeholder exactly when its schema leads
\* to a string.
LEMMA MapFinds ==
  ASSUME NEW v \in Visits
  PROVE  StringsFound(SchemaToMap[v], NodeOf(v))
<1> DEFINE G == {w \in Visits : StringsFound(SchemaToMap[w], NodeOf(w))}
<1>1. ASSUME NEW w \in Visits, Repeats(w)
      PROVE  w \in G
  <2>1. SchemaToMap[w] = Failed({"panic"})
    BY <1>1, MapEquation DEF Visit
  <2>2. SchemaToMap[w].fails # {}
    BY <2>1 DEF Failed
  <2> QED BY <2>2 DEF StringsFound
<1>2. ASSUME NEW w \in Visits, \A n \in Nodes, name \in Names : To(w, n, name) \in G
      PROVE  w \in G
  <2> DEFINE inner == InnerOf(SchemaToMap, w)
             fields == FieldsOf(SchemaToMap, w)
  <2>1. ASSUME NEW n \in Nodes, NEW name \in Names
        PROVE  StringsFound(SchemaToMap[To(w, n, name)], n)
    <3>1. NodeOf(To(w, n, name)) = n
      BY ToFacts
    <3>2. To(w, n, name) \in G
      BY <1>2
    <3> QED BY <3>1, <3>2
  <2>2. InnerName(w) \in Names
    BY VisitFacts
  <2>3. \A i \in DOMAIN inner : StringsFound(inner[i], Schema[NodeOf(w)].inner[i])
    <3> HIDE DEF G
    <3> QED BY <2>1, <2>2, SubVisits
  <2>4. \A p \in DOMAIN fields : StringsFound(fields[p], Schema[NodeOf(w)].props[p])
    <3> HIDE DEF G
    <3> QED BY <2>1, SubVisits
  <2>5. /\ DOMAIN inner = DOMAIN Schema[NodeOf(w)].inner
        /\ DOMAIN fields = DOMAIN Schema[NodeOf(w)].props
    BY SubVisits
  <2>6. SchemaToMap[w] = Visit(w, inner, fields)
    BY MapEquation
  <2> HIDE DEF inner, fields
  <2> QED BY <2>3, <2>4, <2>5, <2>6, VisitFinds
<1> HIDE DEF G
<1>3. \A w \in Visits : w \in G
  BY <1>1, <1>2, VisitInduction
<1> QED BY <1>3 DEF G

\* On the way of a visit every node is reached from the first one, and from something
\* each node before it refers to.
OnTheWay(way) ==
  \A i \in DOMAIN way :
    /\ way[i] \in ReachableFrom(way[1])
    /\ \A j \in DOMAIN way :
         i < j => \E m \in References(way[i]) : way[j] \in ReachableFrom(m)

\* A way goes on along any reference of its last node.
LEMMA WayGoesOn ==
  ASSUME NEW way \in Seq(Nodes), way # <<>>, OnTheWay(way),
         NEW n \in References(Last(way)), n \in Nodes
  PROVE  OnTheWay(Append(way, n))
<1> DEFINE q == Append(way, n)
           k == Len(way)
<1>1. k \in Nat /\ k # 0 /\ Last(way) = way[k] /\ DOMAIN way = 1 .. k
  BY DEF Last
<1>2. DOMAIN q = 1 .. k + 1 /\ q[k + 1] = n /\ \A i \in 1 .. k : q[i] = way[i]
  BY <1>1
<1>3. \A i \in 1 .. k : way[i] \in Nodes
  BY <1>1
<1> HIDE DEF q, k
<1>4. 1 \in 1 .. k /\ k \in 1 .. k /\ q[1] = way[1] /\ way[1] \in Nodes /\ way[k] \in Nodes
  BY <1>1, <1>2, <1>3
<1>5. n \in ReachableFrom(n) /\ n \in References(way[k])
  BY <1>1, ReachableClosed
<1>6. way[k] \in ReachableFrom(way[1])
  BY <1>1, <1>4 DEF OnTheWay
<1>7. n \in ReachableFrom(way[1])
  BY <1>4, <1>5, <1>6, ReachableClosed
<1>8. ASSUME NEW i \in 1 .. k + 1
      PROVE  q[i] \in ReachableFrom(q[1])
  <2>1. i \in 1 .. k \/ i = k + 1
    BY <1>1
  <2> QED BY <1>1, <1>2, <1>4, <1>7, <2>1 DEF OnTheWay
<1>9. ASSUME NEW i \in 1 .. k + 1, NEW j \in 1 .. k + 1, i < j
      PROVE  \E m \in References(q[i]) : q[j] \in ReachableFrom(m)
  <2>1. i \in 1 .. k /\ (j \in 1 .. k \/ j = k + 1)
    BY <1>1, <1>9
  <2>2. CASE j \in 1 .. k
    BY <1>1, <1>2, <1>9, <2>1, <2>2 DEF OnTheWay
  <2>3. CASE j = k + 1 /\ i = k
    BY <1>2, <1>5, <2>1, <2>3
  <2>4. CASE j = k + 1 /\ i # k
    <3>1. i < k
      BY <1>1, <2>1, <2>4
    <3>2. PICK m \in References(way[i]) : way[k] \in ReachableFrom(m)
      BY <1>1, <1>4, <2>1, <3>1 DEF OnTheWay
    <3>3. m \in Nodes
      BY <1>3, <2>1, ReferencesAreNodes
    <3>4. n \in ReachableFrom(m)
      BY <1>5, <3>2, <3>3, ReachableClosed
    <3> QED BY <1>2, <2>1, <2>4, <3>4
  <2> QED BY <2>1, <2>2, <2>3, <2>4
<1>10. OnTheWay(q)
  BY <1>2, <1>8, <1>9 DEF OnTheWay
<1> QED BY <1>10 DEF q

Broken(n) == \E m \in ReachableFrom(n) : Unfillable(m) \/ Recursive(m)

PanicExplained(v) ==
  OnTheWay(v.path) /\ "panic" \in SchemaToMap[v].fails => Broken(v.path[1])

\* A visit that panics is explained by a schema its first one leads to.
LEMMA MapPanics ==
  ASSUME NEW v \in Visits
  PROVE  PanicExplained(v)
<1> DEFINE G == {w \in Visits : PanicExplained(w)}
<1>1. ASSUME NEW w \in Visits, Repeats(w)
      PROVE  w \in G
  <2> SUFFICES ASSUME OnTheWay(w.path)
               PROVE  Broken(w.path[1])
    BY DEF PanicExplained
  <2>1. w.path \in Seq(Nodes) /\ Len(w.path) \in Nat \ {0}
    BY VisitFacts
  <2>2. PICK i \in 1 .. Len(w.path) - 1 : w.path[i] = w.path[Len(w.path)]
    BY <1>1 DEF Repeats, NodeOf, Last
  <2>3. i \in DOMAIN w.path /\ Len(w.path) \in DOMAIN w.path /\ i < Len(w.path)
    BY <2>1, <2>2
  <2>4. Recursive(w.path[i]) /\ w.path[i] \in ReachableFrom(w.path[1])
    BY <2>2, <2>3 DEF OnTheWay, Recursive
  <2> QED BY <2>4 DEF Broken
<1>2. ASSUME NEW w \in Visits, \A n \in Nodes, name \in Names : To(w, n, name) \in G
      PROVE  w \in G
  <2>1. CASE Repeats(w)
    BY <1>1, <2>1
  <2>2. CASE ~Repeats(w)
    <3> SUFFICES ASSUME OnTheWay(w.path), "panic" \in SchemaToMap[w].fails
                 PROVE  Broken(w.path[1])
      BY DEF PanicExplained
    <3> DEFINE inner == InnerOf(SchemaToMap, w)
               fields == FieldsOf(SchemaToMap, w)
    <3>1. ASSUME NEW n \in Nodes, NEW name \in Names, n \in References(NodeOf(w)),
                 "panic" \in SchemaToMap[To(w, n, name)].fails
          PROVE  Broken(w.path[1])
      <4>1. To(w, n, name).path = Append(w.path, n)
        BY ToFacts
      <4>2. w.path \in Seq(Nodes) /\ w.path # <<>> /\ Len(w.path) \in Nat \ {0}
        BY VisitFacts
      <4>3. OnTheWay(Append(w.path, n))
        BY <3>1, <4>2, WayGoesOn DEF NodeOf
      <4>4. PanicExplained(To(w, n, name))
        BY <1>2
      <4>5. Append(w.path, n)[1] = w.path[1]
        BY <4>2
      <4> QED BY <3>1, <4>1, <4>3, <4>4, <4>5 DEF PanicExplained
    <3>2. InnerName(w) \in Names /\ NodeOf(w) \in Nodes
      BY VisitFacts
    <3>3. /\ DOMAIN inner = DOMAIN Schema[NodeOf(w)].inner
          /\ DOMAIN fields = DOMAIN Schema[NodeOf(w)].props
      BY SubVisits
    <3>4. \A i \in DOMAIN inner : inner[i].fails = {} => IsFiniteSet(DOMAIN inner[i].spec)
      <4> SUFFICES ASSUME NEW i \in DOMAIN inner
                   PROVE  inner[i].fails = {} => IsFiniteSet(DOMAIN inner[i].spec)
        OBVIOUS
      <4> DEFINE u == To(w, Schema[NodeOf(w)].inner[i], InnerName(w))
      <4>1. inner[i] = SchemaToMap[u] /\ Schema[NodeOf(w)].inner[i] \in Nodes
        BY <3>3, SubVisits
      <4>2. u \in Visits
        BY <3>2, <4>1, ToFacts
      <4> HIDE DEF u, inner
      <4> QED BY <4>1, <4>2, MapFinds DEF StringsFound
    <3>5. SchemaToMap[w] = Visit(w, inner, fields)
      BY MapEquation
    <3>6. \/ Unfillable(NodeOf(w))
          \/ \E i \in DOMAIN inner : /\ Schema[NodeOf(w)].inner[i] \in References(NodeOf(w))
                                     /\ "panic" \in inner[i].fails
          \/ \E p \in DOMAIN fields : /\ Schema[NodeOf(w)].props[p] \in References(NodeOf(w))
                                      /\ "panic" \in fields[p].fails
      <4> HIDE DEF inner, fields
      <4> QED BY <2>2, <3>3, <3>4, <3>5, VisitPanics
    <3>7. ASSUME Unfillable(NodeOf(w))
          PROVE  Broken(w.path[1])
      <4>1. Len(w.path) \in DOMAIN w.path
        BY VisitFacts
      <4>2. NodeOf(w) \in ReachableFrom(w.path[1])
        BY <4>1 DEF OnTheWay, NodeOf, Last
      <4> QED BY <3>7, <4>2 DEF Broken
    <3>8. ASSUME NEW i \in DOMAIN inner, "panic" \in inner[i].fails,
                 Schema[NodeOf(w)].inner[i] \in References(NodeOf(w))
          PROVE  Broken(w.path[1])
      <4> DEFINE n == Schema[NodeOf(w)].inner[i]
      <4>1. inner[i] = SchemaToMap[To(w, n, InnerName(w))] /\ n \in Nodes
        BY <3>3, SubVisits
      <4> HIDE DEF inner, n
      <4>2. n \in References(NodeOf(w)) /\ "panic" \in SchemaToMap[To(w, n, InnerName(w))].fails
        BY <3>8, <4>1 DEF n
      <4> QED BY <3>1, <3>2, <4>1, <4>2
    <3>9. ASSUME NEW p \in DOMAIN fields, "panic" \in fields[p].fails,
                 Schema[NodeOf(w)].props[p] \in References(NodeOf(w))
          PROVE  Broken(w.path[1])
      <4> DEFINE n == Schema[NodeOf(w)].props[p]
      <4>1. fields[p] = SchemaToMap[To(w, n, p)] /\ n \in Nodes /\ p \in Names
        BY <3>3, SubVisits
      <4> HIDE DEF fields, n
      <4>2. n \in References(NodeOf(w)) /\ "panic" \in SchemaToMap[To(w, n, p)].fails
        BY <3>9, <4>1 DEF n
      <4> QED BY <3>1, <4>1, <4>2
    <3> QED BY <3>6, <3>7, <3>8, <3>9
  <2> QED BY <2>1, <2>2
<1> HIDE DEF G
<1>3. \A w \in Visits : w \in G
  BY <1>1, <1>2, VisitInduction
<1> QED BY <1>3 DEF G

\* No visit ends but with a result, an error or a panic.
Endings == {"error", "panic"}

\* A visit fails in these ways only.
LEMMA MapEnds ==
  ASSUME NEW v \in Visits
  PROVE  SchemaToMap[v].fails \subseteq Endings
<1> DEFINE G == {w \in Visits : SchemaToMap[w].fails \subseteq Endings}
<1>1. ASSUME NEW w \in Visits, Repeats(w)
      PROVE  w \in G
  <2>1. SchemaToMap[w] = Failed({"panic"})
    BY <1>1, MapEquation DEF Visit
  <2> QED BY <2>1 DEF Failed, Endings
<1>2. ASSUME NEW w \in Visits, \A n \in Nodes, name \in Names : To(w, n, name) \in G
      PROVE  w \in G
  <2> SUFFICES ASSUME ~Repeats(w), NEW x \in SchemaToMap[w].fails, x \notin Endings
               PROVE  FALSE
    BY <1>1
  <2> DEFINE inner == InnerOf(SchemaToMap, w)
             fields == FieldsOf(SchemaToMap, w)
  <2>1. InnerName(w) \in Names
    BY VisitFacts
  <2>2. /\ DOMAIN inner = DOMAIN Schema[NodeOf(w)].inner
        /\ DOMAIN fields = DOMAIN Schema[NodeOf(w)].props
    BY SubVisits
  <2>3. ASSUME NEW i \in DOMAIN inner
        PROVE  /\ inner[i].fails = {} => IsFiniteSet(DOMAIN inner[i].spec)
               /\ x \notin inner[i].fails
    <3> DEFINE u == To(w, Schema[NodeOf(w)].inner[i], InnerName(w))
    <3>1. inner[i] = SchemaToMap[u] /\ Schema[NodeOf(w)].inner[i] \in Nodes
      BY <2>2, SubVisits
    <3>2. u \in G
      BY <1>2, <2>1, <3>1
    <3>3. u \in Visits /\ SchemaToMap[u].fails \subseteq Endings
      BY <3>2
    <3> HIDE DEF u, inner
    <3> QED BY <3>1, <3>3, MapFinds DEF StringsFound
  <2>4. ASSUME NEW p \in DOMAIN fields
        PROVE  x \notin fields[p].fails
    <3> DEFINE u == To(w, Schema[NodeOf(w)].props[p], p)
    <3>1. fields[p] = SchemaToMap[u] /\ Schema[NodeOf(w)].props[p] \in Nodes /\ p \in Names
      BY <2>2, SubVisits
    <3>2. u \in G
      BY <1>2, <3>1
    <3>3. SchemaToMap[u].fails \subseteq Endings
      BY <3>2
    <3> HIDE DEF u, fields
    <3> QED BY <3>1, <3>3
  <2>5. SchemaToMap[w] = Visit(w, inner, fields)
    BY MapEquation
  <2> HIDE DEF inner, fields
  <2> QED BY <2>2, <2>3, <2>4, <2>5, VisitPanics DEF Endings
<1> HIDE DEF G
<1>3. \A w \in Visits : w \in G
  BY <1>1, <1>2, VisitInduction
<1> QED BY <1>3 DEF G

\* What the parser learns of a schema.
LEMMA Visiting ==
  ASSUME NEW n \in Nodes, NEW isXML \in BOOLEAN
  PROVE  /\ StringsFound(Visited(n, isXML), n)
         /\ "panic" \in Visited(n, isXML).fails => Broken(n)
         /\ Visited(n, isXML).fails \subseteq Endings
<1> DEFINE v == Start(n, isXML)
<1>1. v.path = <<n>> /\ v \in Visits
  <2>1. <<n>> \in Seq(Nodes) \ {<<>>}
    OBVIOUS
  <2>2. "" \in Names
    BY NamesHas
  <2> QED BY <2>1, <2>2 DEF Start, Visits
<1>2. Visited(n, isXML) = SchemaToMap[v]
  BY DEF Visited, SchemaMaps
<1> HIDE DEF v
<1>3. NodeOf(v) = n /\ v.path[1] = n
  BY <1>1 DEF NodeOf, Last
<1>4. OnTheWay(v.path)
  <2>1. n \in ReachableFrom(n)
    BY ReachableClosed
  <2>2. DOMAIN v.path = {1}
    BY <1>1
  <2> QED BY <1>3, <2>1, <2>2 DEF OnTheWay
<1> QED BY <1>1, <1>2, <1>3, <1>4, MapFinds, MapPanics, MapEnds DEF PanicExplained

-----------------------------------------------------------------------------
(* Faults.                                                                 *)

\* The loops are over what the document has.
InsideDocument ==
  /\ path # None => methods \subseteq DOMAIN doc[path]
  /\ params # None => contents \subseteq DOMAIN Operation.bodies

CrashInv == TypeInv /\ InsideDocument /\ CrashOnlyOnFaults

\* The method pathTemplates looks at next is one of those left.
LEMMA NextIsLeft ==
  ASSUME methods # {}, methods \subseteq {Methods[i] : i \in DOMAIN Methods}
  PROVE  NextMethod \in methods
<1> DEFINE S == {i \in DOMAIN Methods : Methods[i] \in methods}
<1>1. DOMAIN Methods = 1 .. 9
  BY DEF Methods
<1>2. S \subseteq Nat /\ S # {}
  BY <1>1
<1>3. PICK i \in S : \A j \in S : i <= j
  <2> HIDE DEF S
  <2> QED BY <1>2, LeastOf
<1>4. Methods[i] \in methods /\ \A j \in 1 .. i - 1 : Methods[j] \notin methods
  <2>1. \A j \in 1 .. i - 1 : j \in DOMAIN Methods /\ ~(i <= j)
    BY <1>1, <1>3
  <2> QED BY <1>3, <2>1
<1> QED BY <1>3, <1>4 DEF NextMethod

\* Where an operation is parsed its path and the method looked at are in the document.
LEMMA AtOperationIs ==
  ASSUME TypeInv, InsideDocument, AtOperation
  PROVE  /\ path \in DOMAIN doc /\ NextMethod \in methods /\ NextMethod \in DOMAIN doc[path]
         /\ Method # "HEAD"
         /\ Method = NextMethod \/ (NextMethod = "HEAD" /\ Method = "GET")
<1>1. path \in DOMAIN doc /\ doc \in Documents
  BY DEF AtOperation, TypeInv, TypeOK
<1>2. methods # {} /\ methods \subseteq DOMAIN doc[path]
  BY DEF AtOperation, InsideDocument
<1>3. \A m \in DOMAIN doc[path] : m \in {Methods[i] : i \in DOMAIN Methods}
  BY <1>1, DocumentsAssumption
<1>4. NextMethod \in methods
  BY <1>2, <1>3, NextIsLeft
<1> QED BY <1>1, <1>2, <1>4 DEF Method, OperationFor

\* What DocumentsAssumption says of an operation.
LEMMA OperationIs ==
  ASSUME NEW d \in Documents, NEW p \in DOMAIN d, NEW m \in DOMAIN d[p]
  PROVE  /\ DOMAIN d[p][m].bodies \subseteq ContentTypes
         /\ \A ct \in DOMAIN d[p][m].bodies : d[p][m].bodies[ct] \in Nodes \cup {None}
         /\ \A i \in DOMAIN d[p][m].params :
              /\ d[p][m].params[i].in \in Places
              /\ d[p][m].params[i].node \in Nodes
<1> DEFINE op == d[p][m]
           R == [name : STRING, in : Places, badStyle : BOOLEAN,
                 from : {"schema", "json", "other"}, node : Nodes]
<1>1. /\ DOMAIN op.bodies \subseteq ContentTypes
      /\ \A ct \in DOMAIN op.bodies : op.bodies[ct] \in Nodes \cup {None}
  BY DocumentsAssumption
<1>2. op.params \in Seq(R)
  BY DocumentsAssumption DEF Parameters
<1>3. ASSUME NEW i \in DOMAIN op.params
      PROVE  op.params[i].in \in Places /\ op.params[i].node \in Nodes
  <2>1. op.params[i] \in R
    <3> HIDE DEF R, op
    <3> QED BY <1>2
  <2> QED BY <2>1
<1> QED BY <1>1, <1>3

\* A parameter the parser panics at is one Faulty names.
LEMMA ParameterPanics ==
  ASSUME NEW p, p.in \in Places, p.node \in Nodes, "panic" \in Parameter(p).fails
  PROVE  \/ p.in = "path" /\ p.from # "schema"
         \/ /\ \/ Schema[p.node].type \in Numbers
               \/ p.in = "query" /\ Schema[p.node].type = "array"
                  /\ Schema[Schema[p.node].inner[1]].type \in Numbers
            /\ ~HasNumber(Schema[p.node])
         \/ p.in = "query" /\ Schema[p.node].type = "array"
            /\ Schema[Schema[p.node].inner[1]].type = "none"
         \/ p.in \in {"query", "header"} /\ Schema[p.node].type = "object" /\ Broken(p.node)
<1> DEFINE n == p.node
           type == Schema[n].type
<1>1. \A t : "panic" \in Scalar(n, t).fails => t \in Numbers /\ ~HasNumber(Schema[n])
  <2> SUFFICES ASSUME NEW t, "panic" \in Scalar(n, t).fails
               PROVE  t \in Numbers /\ ~HasNumber(Schema[n])
    OBVIOUS
  <2>1. t \in Numbers /\ NumberPanics(Schema[n])
    BY DEF Scalar, Spec_
  <2> QED BY <2>1, NoNumber
<1>2. "panic" \notin Unsupported(n).fails
  BY DEF Unsupported, Spec_
<1>3. "panic" \in ObjectParameter(n).fails => Broken(n)
  BY Visiting DEF ObjectParameter, Spec_
<1>4. type \in Types
  BY SchemaAssumption
<1>5. CASE p.in = "path"
  <2>1. Parameter(p) = PathParameter(p)
    BY <1>5 DEF Parameter
  <2> QED BY <1>1, <1>2, <1>5, <2>1 DEF PathParameter
<1>6. CASE p.in = "query"
  <2>1. "panic" \in QueryParameter(p).fails
    BY <1>6 DEF Parameter
  <2>2. ~(p.badStyle \/ p.from = "other")
    BY <1>2, <2>1 DEF QueryParameter
  <2>3. CASE type \in Scalars
    <3>1. QueryParameter(p) = Scalar(n, type)
      BY <2>2, <2>3 DEF QueryParameter, Scalars, Numbers
    <3>2. type \in Numbers /\ ~HasNumber(Schema[n])
      BY <1>1, <2>1, <3>1
    <3> QED BY <3>2
  <2>4. CASE type = "array"
    <3>1. "panic" \in ArrayParameter(n).fails
      BY <2>1, <2>2, <2>4 DEF QueryParameter, Scalars, Numbers
    <3> QED BY <1>1, <1>2, <1>6, <2>4, <3>1 DEF ArrayParameter
  <2>5. CASE type = "object"
    BY <1>3, <1>6, <2>1, <2>2, <2>5 DEF QueryParameter, Scalars, Numbers
  <2>6. CASE type = "boolean"
    BY <2>1, <2>2, <2>6 DEF QueryParameter, Scalars, Numbers, Spec_
  <2>7. CASE type = "none"
    BY <1>2, <2>1, <2>2, <2>7 DEF QueryParameter, Scalars, Numbers
  <2> QED BY <1>4, <2>3, <2>4, <2>5, <2>6, <2>7 DEF Types, Scalars, Numbers
<1>7. CASE p.in = "header"
  <2>1. "panic" \in HeaderParameter(p).fails
    BY <1>7 DEF Parameter
  <2>2. ~(p.badStyle \/ p.from = "other")
    BY <1>2, <2>1 DEF HeaderParameter
  <2>3. CASE type \in Scalars
    <3>1. HeaderParameter(p) = Scalar(n, type)
      BY <2>2, <2>3 DEF HeaderParameter, Scalars, Numbers
    <3>2. type \in Numbers /\ ~HasNumber(Schema[n])
      BY <1>1, <2>1, <3>1
    <3> QED BY <3>2
  <2>4. CASE type = "object"
    <3>1. HeaderParameter(p) =
            [ObjectParameter(n) EXCEPT
               !.fails = IF @ = {} /\ p.from = "schema" THEN {"error"} ELSE @]
      BY <2>2, <2>4 DEF HeaderParameter, Scalars, Numbers
    <3>2. "panic" \in ObjectParameter(n).fails
      <4> DEFINE r == ObjectParameter(n)
                 fails == IF r.fails = {} /\ p.from = "schema" THEN {"error"} ELSE r.fails
      <4>1. [r EXCEPT !.fails = fails].fails = fails
        <5>1. "fails" \in DOMAIN r
          BY DEF ObjectParameter, Spec_
        <5> HIDE DEF r, fails
        <5> QED BY <5>1
      <4>2. HeaderParameter(p) = [r EXCEPT !.fails = fails]
        BY <3>1
      <4>3. "panic" \in fails
        <5> HIDE DEF r, fails
        <5> QED BY <2>1, <4>1, <4>2
      <4> HIDE DEF r
      <4>4. "panic" \in r.fails
        BY <4>3
      <4> QED BY <4>4 DEF r
    <3> QED BY <1>3, <1>7, <2>4, <3>2
  <2>5. CASE type \in {"array", "boolean", "none"}
    BY <1>2, <2>1, <2>2, <2>5 DEF HeaderParameter, Scalars, Numbers
  <2> QED BY <1>4, <2>3, <2>4, <2>5 DEF Types, Scalars, Numbers
<1>8. CASE p.in = "cookie"
  BY <1>2, <1>8 DEF Parameter
<1> QED BY <1>5, <1>6, <1>7, <1>8 DEF Places

\* What an operation with such a parameter or body is.
LEMMA OperationFaulty ==
  ASSUME NEW item, NEW method, method # "HEAD"
  PROVE  /\ \A ct \in DOMAIN item[method].bodies :
              item[method].bodies[ct] = None \/ Broken(item[method].bodies[ct])
                => Faulty(item, method)
         /\ \A i \in DOMAIN item[method].params :
              LET p == item[method].params[i]
              IN  /\ p.in \in Places /\ p.node \in Nodes
                  /\ "panic" \in Parameter(p).fails
                  => Faulty(item, method)
<1> DEFINE op == item[method]
           parameters == {op.params[i] : i \in DOMAIN op.params}
           objects == {p.node : p \in {q \in parameters : /\ q.in \in {"query", "header"}
                                                         /\ Schema[q.node].type = "object"}}
           bodies == {op.bodies[ct] : ct \in DOMAIN op.bodies}
<1>1. Faulty(item, method) <=>
        \/ None \in bodies
        \/ \E n \in objects \cup (bodies \ {None}) : Broken(n)
        \/ \E p \in parameters :
             \/ p.in = "path" /\ p.from # "schema"
             \/ /\ \/ Schema[p.node].type \in Numbers
                   \/ p.in = "query" /\ Schema[p.node].type = "array"
                      /\ Schema[Schema[p.node].inner[1]].type \in Numbers
                /\ ~HasNumber(Schema[p.node])
             \/ p.in = "query" /\ Schema[p.node].type = "array"
                /\ Schema[Schema[p.node].inner[1]].type = "none"
  BY DEF Faulty, Broken
<1>2. ASSUME NEW ct \in DOMAIN op.bodies, op.bodies[ct] = None \/ Broken(op.bodies[ct])
      PROVE  Faulty(item, method)
  BY <1>1, <1>2
<1>3. ASSUME NEW i \in DOMAIN op.params, op.params[i].in \in Places,
             op.params[i].node \in Nodes, "panic" \in Parameter(op.params[i]).fails
      PROVE  Faulty(item, method)
  <2> DEFINE p == op.params[i]
  <2>1. p \in parameters
    OBVIOUS
  <2>2. p.in \in {"query", "header"} /\ Schema[p.node].type = "object" => p.node \in objects
    BY <2>1
  <2>3. \/ p.in = "path" /\ p.from # "schema"
        \/ /\ \/ Schema[p.node].type \in Numbers
              \/ p.in = "query" /\ Schema[p.node].type = "array"
                 /\ Schema[Schema[p.node].inner[1]].type \in Numbers
           /\ ~HasNumber(Schema[p.node])
        \/ p.in = "query" /\ Schema[p.node].type = "array"
           /\ Schema[Schema[p.node].inner[1]].type = "none"
        \/ p.in \in {"query", "header"} /\ Schema[p.node].type = "object" /\ Broken(p.node)
    <3> HIDE DEF p
    <3> QED BY <1>3, ParameterPanics DEF p
  <2> HIDE DEF p, parameters, objects, bodies
  <2> QED BY <1>1, <2>1, <2>2, <2>3
<1> QED BY <1>2, <1>3

\* Operations are parsed where the document has them.
LEMMA InsideStays ==
  ASSUME TypeInv, InsideDocument, [Next]_vars
  PROVE  InsideDocument'
<1>1. ASSUME UNCHANGED <<doc, path, methods, params>>, contents' \subseteq contents
      PROVE  InsideDocument'
  BY <1>1 DEF InsideDocument, Operation, Method, NextMethod
<1>2. params # None => path # None /\ methods # {}
  BY DEF TypeInv, ParsedInv, ParamsOfOperation
<1>3. ASSUME NEW p \in paths, NextPath(p)
      PROVE  InsideDocument'
  <2>1. params = None /\ params' = None
    BY <1>2, <1>3 DEF NextPath, opVars
  <2> QED BY <1>3, <2>1 DEF NextPath, InsideDocument
<1>4. CASE ParseParameters
  <2>1. CASE contents' = DOMAIN Operation.bodies /\ UNCHANGED <<doc, path, methods>>
    BY <2>1 DEF InsideDocument, Operation, Method, NextMethod
  <2>2. CASE UNCHANGED <<doc, path, methods, params, contents>>
    BY <1>1, <2>2
  <2> QED BY <1>4, <2>1, <2>2 DEF ParseParameters, Dies, opVars
<1>5. CASE AddTemplate
  BY <1>5 DEF AddTemplate, InsideDocument
<1>6. CASE PathDone
  BY <1>2, <1>6 DEF PathDone, InsideDocument, opVars
<1>7. CASE NilOperation \/ NilSchema \/ SortTemplates
  BY <1>1, <1>7 DEF NilOperation, NilSchema, SortTemplates, Dies, opVars
<1>8. ASSUME NEW ct \in contents, ParseBody(ct)
      PROVE  InsideDocument'
  <2>1. UNCHANGED <<doc, path, methods, params>> /\ contents' \subseteq contents
    BY <1>8 DEF ParseBody, Dies, opVars
  <2> QED BY <1>1, <2>1
<1>9. ASSUME NEW i \in DOMAIN templates,
             \/ \E ph \in Placeholders, length \in Lengths : CreateRequest(ph, i, length)
             \/ CreateRequestFails(i)
      PROVE  InsideDocument'
  BY <1>1, <1>9 DEF CreateRequest, CreateRequestFails, opVars
<1>10. CASE UNCHANGED vars
  BY <1>1, <1>10 DEF vars, opVars
<1> QED BY <1>3, <1>4, <1>5, <1>6, <1>7, <1>8, <1>9, <1>10 DEF Next, Terminated

\* Whatever makes a step end in a panic is a fault of the operation it is at.
LEMMA PanicIsFault ==
  ASSUME TypeInv, InsideDocument, [Next]_vars, state # "panic", state' = "panic"
  PROVE  doc' = doc /\ \E p \in DOMAIN doc : \E m \in DOMAIN doc[p] : Faulty(doc[p], m)
<1> DEFINE Fault == doc' = doc /\ \E p \in DOMAIN doc : \E m \in DOMAIN doc[p] : Faulty(doc[p], m)
<1>1. CASE NilOperation
  <2>1. /\ path \in DOMAIN doc /\ NextMethod \in DOMAIN doc[path]
        /\ Method = NextMethod \/ (NextMethod = "HEAD" /\ Method = "GET")
        /\ Method \notin DOMAIN doc[path] /\ doc' = doc
    BY <1>1, AtOperationIs DEF NilOperation, Dies
  <2>2. Faulty(doc[path], "HEAD") /\ "HEAD" \in DOMAIN doc[path]
    BY <2>1 DEF Faulty
  <2> QED BY <2>1, <2>2
<1>2. ASSUME AtOperation, Method \in DOMAIN doc[path]
      PROVE  /\ path \in DOMAIN doc /\ Method # "HEAD"
             /\ DOMAIN Operation.bodies \subseteq ContentTypes
             /\ \A ct \in DOMAIN Operation.bodies : Operation.bodies[ct] \in Nodes \cup {None}
             /\ \A i \in DOMAIN Operation.params :
                  Operation.params[i].in \in Places /\ Operation.params[i].node \in Nodes
  <2>1. path \in DOMAIN doc /\ Method # "HEAD" /\ doc \in Documents
    BY <1>2, AtOperationIs DEF TypeInv, TypeOK
  <2> QED BY <1>2, <2>1, OperationIs DEF Operation
<1>3. ASSUME AtOperation, Method \in DOMAIN doc[path], doc' = doc,
             Faulty(doc[path], Method)
      PROVE  Fault
  BY <1>2, <1>3
<1>4. CASE ParseParameters
  <2>1. PICK i \in DOMAIN Operation.params :
          "panic" \in Parameter(Operation.params[i]).fails /\ doc' = doc
    BY <1>4 DEF ParseParameters, Dies
  <2>2. AtOperation /\ Method \in DOMAIN doc[path]
    BY <1>4 DEF ParseParameters
  <2>3. Operation.params[i].in \in Places /\ Operation.params[i].node \in Nodes /\ Method # "HEAD"
    BY <1>2, <2>2
  <2>4. Faulty(doc[path], Method)
    BY <2>1, <2>3, OperationFaulty DEF Operation
  <2> QED BY <1>3, <2>1, <2>2, <2>4
<1>5. params # None => Method \in DOMAIN doc[path]
  BY DEF TypeInv, OperationThere
<1>6. ASSUME NEW ct \in contents, ParseBody(ct)
      PROVE  Fault
  <2> DEFINE n == Operation.bodies[ct]
  <2>1. AtOperation /\ Method \in DOMAIN doc[path] /\ n # None /\ ct \in DOMAIN Operation.bodies
    BY <1>5, <1>6 DEF ParseBody, InsideDocument
  <2>2. n \in Nodes /\ Method # "HEAD"
    BY <1>2, <2>1
  <2>3. "panic" \in BodyFails(ct, Visited(n, FALSE), Visited(n, TRUE)) /\ doc' = doc
    BY <1>6 DEF ParseBody, Dies
  <2>4. "panic" \in Visited(n, FALSE).fails \/ "panic" \in Visited(n, TRUE).fails
    BY <2>3 DEF BodyFails
  <2>5. Broken(n)
    BY <2>2, <2>4, Visiting
  <2>6. Faulty(doc[path], Method)
    BY <2>1, <2>2, <2>5, OperationFaulty DEF Operation
  <2> QED BY <1>3, <2>1, <2>3, <2>6
<1>7. CASE NilSchema
  <2>1. PICK ct \in contents : Operation.bodies[ct] = None
    BY <1>7 DEF NilSchema
  <2>2. /\ AtOperation /\ Method \in DOMAIN doc[path] /\ ct \in DOMAIN Operation.bodies
        /\ doc' = doc
    BY <1>5, <1>7 DEF NilSchema, InsideDocument, Dies
  <2>3. Faulty(doc[path], Method)
    BY <1>2, <2>1, <2>2, OperationFaulty DEF Operation
  <2> QED BY <1>3, <2>2, <2>3
<1>8. ASSUME state' = state \/ state' = "ready"
      PROVE  FALSE
  BY <1>8
<1>9. ASSUME NEW p \in paths, NextPath(p)
      PROVE  FALSE
  BY <1>8, <1>9 DEF NextPath
<1>10. CASE AddTemplate \/ PathDone \/ SortTemplates \/ UNCHANGED vars
  BY <1>8, <1>10 DEF AddTemplate, PathDone, SortTemplates, vars
<1>11. ASSUME NEW i \in DOMAIN templates,
              \/ \E ph \in Placeholders, length \in Lengths : CreateRequest(ph, i, length)
              \/ CreateRequestFails(i)
       PROVE  FALSE
  BY <1>8, <1>11 DEF CreateRequest, CreateRequestFails
<1> QED BY <1>1, <1>4, <1>6, <1>7, <1>9, <1>10, <1>11 DEF Next, Terminated

\* The parser dies of a fault of the document only.
LEMMA CrashStep ==
  ASSUME CrashInv, [Next]_vars
  PROVE  CrashOnlyOnFaults'
<1> SUFFICES ASSUME state' = "panic"
             PROVE  \E p \in DOMAIN doc' : \E m \in DOMAIN doc'[p] : Faulty(doc'[p], m)
  BY DEF CrashOnlyOnFaults, Faulty, HasNumber, Recursive, Unfillable, References
<1>1. CASE state = "panic"
  <2>1. doc' = doc
    BY DEF Next, Terminated, vars, NextPath, NilOperation, ParseParameters, ParseBody, NilSchema,
           AddTemplate, PathDone, SortTemplates, CreateRequest, CreateRequestFails, Dies
  <2> QED BY <1>1, <2>1 DEF CrashInv, CrashOnlyOnFaults
<1>2. CASE state # "panic"
  BY <1>2, PanicIsFault DEF CrashInv
<1> QED BY <1>1, <1>2

\* Whatever the document, the parser panics only if it has a HEAD without a GET, a schema
\* that contains itself, a string or number without values, or a schema that is missing.
THEOREM FaultsOnly == Spec => []CrashOnlyOnFaults
<1>1. Init => CrashInv
  <2>1. Init => ParsedInv
    BY ParsedInit
  <2> QED BY <2>1 DEF Init, CrashInv, TypeInv, OperationThere, TypeOK, InsideDocument, CrashOnlyOnFaults
<1>2. CrashInv /\ [Next]_vars => CrashInv'
  BY ParsedStep, TypeStep, InsideStays, CrashStep DEF CrashInv, TypeInv
<1>3. CrashInv => CrashOnlyOnFaults
  BY DEF CrashInv
<1> QED BY <1>1, <1>2, <1>3, PTL DEF Spec

-----------------------------------------------------------------------------
(* Templates are offered where strings are.                                *)

\* What is known of the operation that is parsed: its parameters, and for which of
\* the contents read so far there are limits.
ParsedSoFar ==
  IF params = None THEN limits = <<>>
  ELSE /\ params = [i \in DOMAIN Operation.params |-> Parameter(Operation.params[i])]
       /\ \A i \in DOMAIN params : params[i].fails = {}
       /\ \A f \in DOMAIN limits : f[1] \in DOMAIN Operation.bodies \ contents
       /\ \A ct \in DOMAIN Operation.bodies \ contents :
            (\E f \in DOMAIN limits : f[1] = ct) <=> HasString(Operation.bodies[ct])

\* A template serves the placeholders its operation has strings for.
Serves(t, op) ==
  \A ph \in Placeholders : ph \in t.placeholders <=> StringsFor(op, ph) # {}

TemplatesServe ==
  \A i \in DOMAIN templates :
    Serves(templates[i], doc[templates[i].path][templates[i].method])

\* Every operation is still to come or has its template.
Covered(p, m) ==
  \/ p \in paths
  \/ p = path /\ m \in methods
  \/ \E i \in DOMAIN templates : templates[i].path = p /\ templates[i].method = m

AllCovered == \A p \in DOMAIN doc : \A m \in DOMAIN doc[p] \ {"HEAD"} : Covered(p, m)

OfferInv ==
  /\ TypeInv /\ InsideDocument /\ ParsedSoFar /\ TemplatesServe /\ AllCovered
  /\ state = "ready" => paths = {} /\ path = None

\* When all paths are done the invariant is the property.
LEMMA OfferedByInv == OfferInv => OfferedWhereStringsAre
<1> SUFFICES ASSUME OfferInv, state = "ready",
                    NEW p \in DOMAIN doc, NEW m \in DOMAIN doc[p] \ {"HEAD"},
                    NEW ph \in Placeholders
             PROVE  (StringsFor(doc[p][m], ph) # {}) <=>
                       \E i \in TemplatesFor(ph) : templates[i].path = p /\ templates[i].method = m
  BY DEF OfferedWhereStringsAre
<1>1. doc \in Documents
  BY DEF OfferInv, TypeInv, TypeOK
<1>2. p # None
  BY <1>1, DocumentsAssumption
<1>3. \E i \in DOMAIN templates : templates[i].path = p /\ templates[i].method = m
  BY <1>2 DEF OfferInv, AllCovered, Covered
<1>4. \A i \in DOMAIN templates : templates[i].path = p /\ templates[i].method = m =>
        (ph \in templates[i].placeholders <=> StringsFor(doc[p][m], ph) # {})
  BY DEF OfferInv, TemplatesServe, Serves
<1> QED BY <1>3, <1>4 DEF TemplatesFor

\* A parameter that was parsed is kept as a string where it is one.
LEMMA StringParameters ==
  ASSUME NEW p, p.in \in Places, p.node \in Nodes, Parameter(p).fails = {}
  PROVE  /\ p.in # "cookie"
         /\ Parameter(p).type = "string" <=>
              \/ Schema[p.node].type = "string"
              \/ Schema[p.node].type = "array" /\ Schema[Schema[p.node].inner[1]].type = "string"
<1> DEFINE n == p.node
           type == Schema[n].type
<1>1. \A t : Scalar(n, t).type = t
  BY DEF Scalar, Spec_
<1>2. Unsupported(n).fails # {}
  BY DEF Unsupported, Spec_
<1>3. ObjectParameter(n).type = "object"
  BY DEF ObjectParameter, Spec_
<1>4. type \in Types
  BY SchemaAssumption
<1>9. Spec_(n, "", {"panic"}).fails # {}
  BY DEF Spec_
<1>10. Unsupported(n) = Unsupported(p.node)
  OBVIOUS
<1>5. CASE p.in = "path"
  <2>1. Parameter(p) = PathParameter(p)
    BY <1>5 DEF Parameter
  <2>2. type \in Scalars /\ Parameter(p) = Scalar(n, type)
    <3>1. ~p.badStyle
      BY <1>2, <2>1 DEF PathParameter
    <3>2. p.from = "schema"
      BY <1>9, <2>1, <3>1 DEF PathParameter
    <3>3. type \in Scalars
      BY <1>2, <2>1, <3>1, <3>2 DEF PathParameter
    <3> QED BY <2>1, <3>1, <3>2, <3>3 DEF PathParameter
  <2> QED BY <1>1, <1>5, <2>2 DEF Scalars, Numbers
<1>6. CASE p.in = "query"
  <2>1. Parameter(p) = QueryParameter(p)
    BY <1>6 DEF Parameter
  <2>2. ~(p.badStyle \/ p.from = "other")
    BY <1>2, <2>1 DEF QueryParameter
  <2>3. CASE type \in Scalars
    <3>1. QueryParameter(p) = Scalar(n, type)
      BY <2>2, <2>3 DEF QueryParameter, Scalars, Numbers
    <3> QED BY <1>1, <1>6, <2>1, <2>3, <3>1 DEF Scalars, Numbers
  <2>4. CASE type = "array"
    <3>1. Parameter(p) = ArrayParameter(n)
      BY <2>1, <2>2, <2>4 DEF QueryParameter, Scalars, Numbers
    <3>2. /\ Schema[Schema[n].inner[1]].type \in Scalars
          /\ Parameter(p) = Scalar(n, Schema[Schema[n].inner[1]].type)
      <4>1. Schema[Schema[n].inner[1]].type # "none"
        BY <1>9, <3>1 DEF ArrayParameter
      <4>2. Schema[Schema[n].inner[1]].type \in Scalars
        BY <1>2, <3>1, <4>1 DEF ArrayParameter
      <4> QED BY <3>1, <4>1, <4>2 DEF ArrayParameter
    <3> QED BY <1>1, <1>6, <2>4, <3>2
  <2>5. CASE type = "object"
    <3>1. Parameter(p) = ObjectParameter(n)
      BY <2>1, <2>2, <2>5 DEF QueryParameter, Scalars, Numbers
    <3> QED BY <1>3, <1>6, <2>5, <3>1
  <2>6. CASE type = "boolean"
    <3>1. Parameter(p) = Spec_(n, type, {})
      BY <2>1, <2>2, <2>6 DEF QueryParameter, Scalars, Numbers
    <3> QED BY <1>6, <2>6, <3>1 DEF Spec_
  <2>7. CASE type = "none"
    BY <1>2, <2>1, <2>2, <2>7 DEF QueryParameter, Scalars, Numbers
  <2> QED BY <1>4, <2>3, <2>4, <2>5, <2>6, <2>7 DEF Types, Scalars, Numbers
<1>7. CASE p.in = "header"
  <2>1. Parameter(p) = HeaderParameter(p)
    BY <1>7 DEF Parameter
  <2>2. ~(p.badStyle \/ p.from = "other")
    BY <1>2, <2>1 DEF HeaderParameter
  <2>3. CASE type \in Scalars
    <3>1. HeaderParameter(p) = Scalar(n, type)
      BY <2>2, <2>3 DEF HeaderParameter, Scalars, Numbers
    <3> QED BY <1>1, <1>7, <2>1, <2>3, <3>1 DEF Scalars, Numbers
  <2>4. CASE type = "object"
    <3>1. HeaderParameter(p) =
            [ObjectParameter(n) EXCEPT
               !.fails = IF @ = {} /\ p.from = "schema" THEN {"error"} ELSE @]
      BY <2>2, <2>4 DEF HeaderParameter, Scalars, Numbers
    <3>2. HeaderParameter(p).type = "object"
      BY <1>3, <3>1 DEF ObjectParameter, Spec_
    <3> QED BY <1>7, <2>1, <2>4, <3>2
  <2>5. CASE type \in {"array", "boolean", "none"}
    BY <1>2, <2>1, <2>2, <2>5 DEF HeaderParameter, Scalars, Numbers
  <2> QED BY <1>4, <2>3, <2>4, <2>5 DEF Types, Scalars, Numbers
<1>8. CASE p.in = "cookie"
  <2>1. Parameter(p) = Unsupported(n)
    BY <1>8 DEF Parameter
  <2> QED BY <1>2, <2>1
<1> QED BY <1>5, <1>6, <1>7, <1>8 DEF Places

ParameterPlaceholders == {"URLPath", "URLParam", "Header"}

\* Where the strings of an operation are.
LEMMA StringsAre ==
  ASSUME NEW op, NEW ph \in Placeholders,
         \A i \in DOMAIN op.params : op.params[i].in \in Places
  PROVE  /\ ph \in ParameterPlaceholders =>
              (StringsFor(op, ph) # {} <=>
                 \E i \in DOMAIN op.params :
                   LET p == op.params[i]
                       s == Schema[p.node]
                   IN  /\ p.in # "cookie" /\ PlaceholderOf(p.in) = ph
                       /\ \/ s.type = "string"
                          \/ s.type = "array" /\ Schema[s.inner[1]].type = "string")
         /\ ph \notin ParameterPlaceholders =>
              (StringsFor(op, ph) # {} <=>
                 \E ct \in DOMAIN op.bodies :
                   ct \in ContentTypes /\ ph \in BodyPlaceholders(ct) /\ HasString(op.bodies[ct]))
<1>1. (\E place \in Places \ {"cookie"} : PlaceholderOf(place) = ph)
         <=> ph \in ParameterPlaceholders
  BY DEF Places, PlaceholderOf, ParameterPlaceholders
<1>2. CASE ph \in ParameterPlaceholders
  <2> DEFINE J == {j \in DOMAIN op.params :
                     LET p == op.params[j]
                         s == Schema[p.node]
                     IN  /\ p.in # "cookie" /\ PlaceholderOf(p.in) = ph
                         /\ \/ s.type = "string"
                            \/ s.type = "array" /\ Schema[s.inner[1]].type = "string"}
  <2>1. StringsFor(op, ph) = {p.node : p \in {op.params[i] : i \in J}}
    BY <1>1, <1>2 DEF StringsFor
  <2>2. StringsFor(op, ph) # {} <=> J # {}
    <3> HIDE DEF J
    <3> QED BY <2>1
  <2>3. J # {} <=> \E i \in DOMAIN op.params :
                     LET p == op.params[i]
                         s == Schema[p.node]
                     IN  /\ p.in # "cookie" /\ PlaceholderOf(p.in) = ph
                         /\ \/ s.type = "string"
                            \/ s.type = "array" /\ Schema[s.inner[1]].type = "string"
    OBVIOUS
  <2> HIDE DEF J
  <2> QED BY <1>2, <2>2, <2>3
<1>3. CASE ph \notin ParameterPlaceholders
  <2>1. StringsFor(op, ph) =
          {n \in UNION {ReachableFrom(op.bodies[ct]) :
                          ct \in ContentTypeOf(ph) \cap DOMAIN op.bodies} : IsString(n)}
    BY <1>1, <1>3 DEF StringsFor
  <2>2. StringsFor(op, ph) # {} <=>
          \E ct \in ContentTypeOf(ph) \cap DOMAIN op.bodies : HasString(op.bodies[ct])
    BY <2>1 DEF HasString
  <2>3. \A ct : ct \in ContentTypeOf(ph) <=> ct \in ContentTypes /\ ph \in BodyPlaceholders(ct)
    BY DEF ContentTypeOf
  <2> QED BY <1>3, <2>2, <2>3
<1> QED BY <1>2, <1>3

\* The placeholders a parsed operation is offered for.
LEMMA SupportedAre ==
  ASSUME TypeInv, InsideDocument, ParsedSoFar, AtOperation, params # None, contents = {},
         NEW ph \in Placeholders
  PROVE  ph \in SupportedPlaceholders <=> StringsFor(Operation, ph) # {}
<1> DEFINE op == Operation
<1>1. path \in DOMAIN doc /\ Method \in DOMAIN doc[path] /\ doc \in Documents
  BY AtOperationIs DEF TypeInv, OperationThere, TypeOK
<1>2. /\ DOMAIN op.bodies \subseteq ContentTypes
      /\ \A i \in DOMAIN op.params : op.params[i].in \in Places /\ op.params[i].node \in Nodes
  BY <1>1, OperationIs DEF Operation
<1>3. /\ DOMAIN params = DOMAIN op.params
      /\ \A i \in DOMAIN op.params : params[i] = Parameter(op.params[i]) /\ params[i].fails = {}
      /\ \A f \in DOMAIN limits : f[1] \in DOMAIN op.bodies
      /\ \A ct \in DOMAIN op.bodies :
            (\E f \in DOMAIN limits : f[1] = ct) <=> HasString(op.bodies[ct])
  BY DEF ParsedSoFar
<1> HIDE DEF op
<1>4. \A i \in DOMAIN op.params :
        /\ op.params[i].in \in Places \ {"cookie"}
        /\ params[i].type = "string" <=>
             \/ Schema[op.params[i].node].type = "string"
             \/ Schema[op.params[i].node].type = "array"
                /\ Schema[Schema[op.params[i].node].inner[1]].type = "string"
  BY <1>2, <1>3, StringParameters
<1>5. \A i \in DOMAIN op.params : PlaceholderOf(op.params[i].in) \in ParameterPlaceholders
  BY <1>4 DEF Places, PlaceholderOf, ParameterPlaceholders
<1>6. \A ct \in ContentTypes : \A x \in BodyPlaceholders(ct) : x \notin ParameterPlaceholders
  BY DEF ContentTypes, BodyPlaceholders, ParameterPlaceholders
<1>7. ph \in SupportedPlaceholders <=>
        \/ \E i \in DOMAIN params : params[i].type = "string" /\ PlaceholderOf(op.params[i].in) = ph
        \/ \E f \in DOMAIN limits : ph \in BodyPlaceholders(f[1])
  BY DEF SupportedPlaceholders, op
<1>8. CASE ph \in ParameterPlaceholders
  <2>1. \A f \in DOMAIN limits : ph \notin BodyPlaceholders(f[1])
    BY <1>2, <1>3, <1>6, <1>8
  <2>2. ph \in SupportedPlaceholders <=>
          \E i \in DOMAIN op.params : /\ PlaceholderOf(op.params[i].in) = ph
                                      /\ params[i].type = "string"
    BY <1>3, <1>7, <2>1
  <2>3. StringsFor(op, ph) # {} <=>
          \E i \in DOMAIN op.params :
            LET p == op.params[i]
                s == Schema[p.node]
            IN  /\ p.in # "cookie" /\ PlaceholderOf(p.in) = ph
                /\ \/ s.type = "string"
                   \/ s.type = "array" /\ Schema[s.inner[1]].type = "string"
    BY <1>2, <1>8, StringsAre
  <2> QED BY <1>4, <2>2, <2>3 DEF op
<1>9. CASE ph \notin ParameterPlaceholders
  <2>1. ph \in SupportedPlaceholders <=> \E f \in DOMAIN limits : ph \in BodyPlaceholders(f[1])
    BY <1>3, <1>5, <1>7, <1>9
  <2>2. ph \in SupportedPlaceholders <=>
          \E ct \in DOMAIN op.bodies : ph \in BodyPlaceholders(ct) /\ HasString(op.bodies[ct])
    BY <1>3, <2>1
  <2>3. StringsFor(op, ph) # {} <=>
          \E ct \in DOMAIN op.bodies :
            ct \in ContentTypes /\ ph \in BodyPlaceholders(ct) /\ HasString(op.bodies[ct])
    BY <1>2, <1>9, StringsAre
  <2> QED BY <1>2, <2>2, <2>3 DEF op
<1> QED BY <1>8, <1>9

\* A step that leaves what is parsed alone leaves what is known of it alone.
LEMMA OfferStays ==
  ASSUME OfferInv, UNCHANGED <<doc, paths, path, methods, opVars, templates>>,
         TypeInv', InsideDocument', state' = "ready" => paths = {} /\ path = None
  PROVE  OfferInv'
<1>1. ParsedSoFar'
  <2>1. Operation' = Operation
    BY DEF Operation, Method, NextMethod
  <2> QED BY <2>1 DEF OfferInv, ParsedSoFar, opVars
<1>2. TemplatesServe'
  BY DEF OfferInv, TemplatesServe
<1>3. AllCovered'
  BY DEF OfferInv, AllCovered, Covered
<1> QED BY <1>1, <1>2, <1>3 DEF OfferInv

\* The loop over the paths takes one more.
LEMMA OfferPath ==
  ASSUME OfferInv, NEW q \in paths, NextPath(q), TypeInv', InsideDocument'
  PROVE  OfferInv'
<1>1. /\ paths' = paths \ {q} /\ path' = q /\ methods' = DOMAIN doc[q] /\ path = None
      /\ UNCHANGED <<doc, params, limits, templates, state>> /\ state = "parsing"
  BY DEF NextPath, opVars
<1>2. params = None /\ limits = <<>>
  BY <1>1 DEF OfferInv, TypeInv, ParsedInv, ParamsOfOperation, ParsedSoFar
<1>3. ParsedSoFar'
  BY <1>1, <1>2 DEF ParsedSoFar
<1>4. TemplatesServe'
  BY <1>1 DEF OfferInv, TemplatesServe
<1>5. ASSUME NEW p \in DOMAIN doc, NEW m \in DOMAIN doc[p] \ {"HEAD"}
      PROVE  Covered(p, m)'
  <2>1. Covered(p, m)
    BY DEF OfferInv, AllCovered
  <2>2. p # None
    BY DocumentsAssumption DEF OfferInv, TypeInv, TypeOK
  <2> QED BY <1>1, <2>1, <2>2 DEF Covered
<1>6. AllCovered'
  BY <1>1, <1>5 DEF AllCovered
<1> QED BY <1>1, <1>3, <1>4, <1>6 DEF OfferInv

\* NewTemplates never ends as ready while it parses.
LEMMA ParameterEnds ==
  ASSUME NEW p, p.in \in Places, p.node \in Nodes
  PROVE  Parameter(p).fails \subseteq Endings
<1> DEFINE n == p.node
           type == Schema[n].type
<1>1. \A t : Scalar(n, t).fails \subseteq Endings
  BY DEF Scalar, Spec_, Endings
<1>2. Unsupported(n).fails \subseteq Endings
  BY DEF Unsupported, Spec_, Endings
<1>3. ObjectParameter(n).fails \subseteq Endings
  BY Visiting DEF ObjectParameter, Spec_
<1>4. type \in Types
  BY SchemaAssumption
<1>5. Spec_(n, "", {"panic"}).fails \subseteq Endings /\ Spec_(n, type, {}).fails \subseteq Endings
  BY DEF Spec_, Endings
<1>6. ArrayParameter(n).fails \subseteq Endings
  BY <1>1, <1>2, <1>5 DEF ArrayParameter
<1>7. CASE p.in = "path"
  <2>1. Parameter(p) = PathParameter(p)
    BY <1>7 DEF Parameter
  <2> QED BY <1>1, <1>2, <1>5, <2>1 DEF PathParameter
<1>8. CASE p.in = "query"
  <2>1. Parameter(p) = QueryParameter(p)
    BY <1>8 DEF Parameter
  <2>2. CASE p.badStyle \/ p.from = "other"
    BY <1>2, <2>1, <2>2 DEF QueryParameter
  <2>3. CASE ~(p.badStyle \/ p.from = "other")
    <3>1. CASE type \in Scalars
      <4>1. QueryParameter(p) = Scalar(n, type)
        BY <2>3, <3>1 DEF QueryParameter, Scalars, Numbers
      <4> QED BY <1>1, <2>1, <4>1
    <3>2. CASE type = "array"
      BY <1>6, <2>1, <2>3, <3>2 DEF QueryParameter, Scalars, Numbers
    <3>3. CASE type = "object"
      BY <1>3, <2>1, <2>3, <3>3 DEF QueryParameter, Scalars, Numbers
    <3>4. CASE type = "boolean"
      BY <1>5, <2>1, <2>3, <3>4 DEF QueryParameter, Scalars, Numbers
    <3>5. CASE type = "none"
      BY <1>2, <2>1, <2>3, <3>5 DEF QueryParameter, Scalars, Numbers
    <3> QED BY <1>4, <3>1, <3>2, <3>3, <3>4, <3>5 DEF Types, Scalars, Numbers
  <2> QED BY <2>2, <2>3
<1>9. CASE p.in = "header"
  <2>1. Parameter(p) = HeaderParameter(p)
    BY <1>9 DEF Parameter
  <2>2. CASE p.badStyle \/ p.from = "other"
    BY <1>2, <2>1, <2>2 DEF HeaderParameter
  <2>3. CASE ~(p.badStyle \/ p.from = "other")
    <3>1. CASE type \in Scalars
      <4>1. HeaderParameter(p) = Scalar(n, type)
        BY <2>3, <3>1 DEF HeaderParameter, Scalars, Numbers
      <4> QED BY <1>1, <2>1, <4>1
    <3>2. CASE type = "object"
      <4> DEFINE r == ObjectParameter(n)
                 fails == IF r.fails = {} /\ p.from = "schema" THEN {"error"} ELSE r.fails
      <4>1. [r EXCEPT !.fails = fails].fails = fails
        <5>1. "fails" \in DOMAIN r
          BY DEF ObjectParameter, Spec_
        <5> HIDE DEF r, fails
        <5> QED BY <5>1
      <4>2. HeaderParameter(p) = [r EXCEPT !.fails = fails]
        BY <2>3, <3>2 DEF HeaderParameter, Scalars, Numbers
      <4>3. r.fails \subseteq Endings
        BY <1>3
      <4>4. fails \subseteq Endings
        <5> HIDE DEF r
        <5> QED BY <4>3 DEF Endings
      <4> HIDE DEF r, fails
      <4> QED BY <2>1, <4>1, <4>2, <4>4
    <3>3. CASE type \in {"array", "boolean", "none"}
      BY <1>2, <2>1, <2>3, <3>3 DEF HeaderParameter, Scalars, Numbers
    <3> QED BY <1>4, <3>1, <3>2, <3>3 DEF Types, Scalars, Numbers
  <2> QED BY <2>2, <2>3
<1>10. CASE p.in = "cookie"
  BY <1>2, <1>10 DEF Parameter
<1> QED BY <1>7, <1>8, <1>9, <1>10 DEF Places

\* The schemas of the operation that is parsed are nodes, or missing from a body.
LEMMA OperationAt ==
  ASSUME TypeInv, InsideDocument, AtOperation, Method \in DOMAIN doc[path]
  PROVE  /\ \A ct \in DOMAIN Operation.bodies : Operation.bodies[ct] \in Nodes \cup {None}
         /\ \A i \in DOMAIN Operation.params :
              Operation.params[i].in \in Places /\ Operation.params[i].node \in Nodes
<1>1. path \in DOMAIN doc /\ doc \in Documents
  BY AtOperationIs DEF TypeInv, TypeOK
<1> QED BY <1>1, OperationIs DEF Operation

\* The parameters are parsed, the bodies are still to come.
LEMMA OfferParameters ==
  ASSUME OfferInv, ParseParameters, TypeInv', InsideDocument'
  PROVE  OfferInv'
<1>1. /\ AtOperation /\ Method \in DOMAIN doc[path] /\ params = None /\ state = "parsing"
      /\ TypeInv /\ InsideDocument
  BY DEF ParseParameters, AtOperation, OfferInv
<1>2. CASE \E i \in DOMAIN Operation.params : Dies(Parameter(Operation.params[i]).fails)
  <2>1. PICK i \in DOMAIN Operation.params : Dies(Parameter(Operation.params[i]).fails)
    BY <1>2
  <2>2. Operation.params[i].in \in Places /\ Operation.params[i].node \in Nodes
    BY <1>1, OperationAt
  <2>3. state' \in Endings
    BY <2>1, <2>2, ParameterEnds DEF Dies
  <2>4. UNCHANGED <<doc, paths, path, methods, opVars, templates>> /\ state' # "ready"
    BY <2>1, <2>3 DEF Dies, Endings
  <2> QED BY <2>4, OfferStays
<1>3. CASE /\ params' = [i \in DOMAIN Operation.params |-> Parameter(Operation.params[i])]
           /\ \A i \in DOMAIN params' : params'[i].fails = {}
           /\ contents' = DOMAIN Operation.bodies
           /\ UNCHANGED <<doc, paths, path, methods, limits, templates, state>>
  <2>1. limits = <<>>
    BY <1>1 DEF OfferInv, ParsedSoFar
  <2>2. Operation' = Operation
    BY <1>3 DEF Operation, Method, NextMethod
  <2>3. ParsedSoFar'
    <3>1. \A f : f \notin DOMAIN <<>>
      OBVIOUS
    <3> QED BY <1>3, <2>1, <2>2, <3>1 DEF ParsedSoFar
  <2>4. TemplatesServe'
    BY <1>3 DEF OfferInv, TemplatesServe
  <2>5. AllCovered'
    BY <1>3 DEF OfferInv, AllCovered, Covered
  <2> QED BY <1>1, <1>3, <2>3, <2>4, <2>5 DEF OfferInv
<1> QED BY <1>2, <1>3 DEF ParseParameters

\* One more content type is visited: there are limits for it exactly when its
\* schema leads to a string.
LEMMA OfferBody ==
  ASSUME OfferInv, NEW ct \in contents, ParseBody(ct), TypeInv', InsideDocument'
  PROVE  OfferInv'
<1> DEFINE n == Operation.bodies[ct]
           plain == Visited(n, FALSE)
           xml == Visited(n, TRUE)
           r == IF ct = "xml" THEN xml ELSE plain
           F == {<<ct, ph>> : ph \in DOMAIN r.spec}
<1>1. /\ AtOperation /\ params # None /\ n # None /\ state = "parsing"
      /\ TypeInv /\ InsideDocument /\ ct \in DOMAIN Operation.bodies
  BY DEF ParseBody, AtOperation, OfferInv, InsideDocument
<1>2. n \in Nodes
  <2>1. Method \in DOMAIN doc[path]
    BY <1>1 DEF TypeInv, OperationThere
  <2> QED BY <1>1, <2>1, OperationAt
<1>3. /\ StringsFound(plain, n) /\ StringsFound(xml, n)
      /\ plain.fails \subseteq Endings /\ xml.fails \subseteq Endings
  BY <1>2, Visiting
<1>4. CASE Dies(BodyFails(ct, plain, xml))
  <2>1. BodyFails(ct, plain, xml) \subseteq Endings
    <3> HIDE DEF plain, xml
    <3> QED BY <1>3 DEF BodyFails, Endings
  <2>2. UNCHANGED <<doc, paths, path, methods, opVars, templates>> /\ state' # "ready"
    <3> HIDE DEF plain, xml
    <3> QED BY <1>4, <2>1 DEF Dies, Endings
  <2> QED BY <2>2, OfferStays
<1>5. CASE /\ BodyFails(ct, plain, xml) = {}
           /\ DOMAIN limits' = F \cup DOMAIN limits
           /\ contents' = contents \ {ct}
           /\ UNCHANGED <<doc, paths, path, methods, params, templates, state>>
  <2>1. r.fails = {} /\ StringsFound(r, n)
    <3> HIDE DEF plain, xml, n
    <3> QED BY <1>3, <1>5 DEF BodyFails
  <2>2. F # {} <=> HasString(n)
    <3>1. DOMAIN r.spec # {} <=> HasString(n)
      BY <2>1 DEF StringsFound
    <3> HIDE DEF r, n
    <3> QED BY <3>1
  <2>3. \A f \in F : f[1] = ct
    <3> SUFFICES ASSUME NEW ph, NEW f, f = <<ct, ph>>
                 PROVE  f[1] = ct
      <4> HIDE DEF r
      <4> QED OBVIOUS
    <3> QED OBVIOUS
  <2>4. Operation' = Operation
    BY <1>5 DEF Operation, Method, NextMethod
  <2> HIDE DEF F, plain, xml, r
  <2>5. /\ params = [i \in DOMAIN Operation.params |-> Parameter(Operation.params[i])]
        /\ \A i \in DOMAIN params : params[i].fails = {}
        /\ \A f \in DOMAIN limits : f[1] \in DOMAIN Operation.bodies \ contents
        /\ \A c \in DOMAIN Operation.bodies \ contents :
             (\E f \in DOMAIN limits : f[1] = c) <=> HasString(Operation.bodies[c])
    BY <1>1 DEF OfferInv, ParsedSoFar
  <2>6. \A f \in DOMAIN limits' : f[1] \in DOMAIN Operation.bodies \ contents'
    BY <1>1, <1>5, <2>3, <2>5
  <2>7. ASSUME NEW c \in DOMAIN Operation.bodies \ contents'
        PROVE  (\E f \in DOMAIN limits' : f[1] = c) <=> HasString(Operation.bodies[c])
    <3>1. CASE c = ct
      <4>1. \A f \in DOMAIN limits : f[1] # ct
        BY <2>5
      <4> QED BY <1>5, <2>2, <2>3, <3>1, <4>1
    <3>2. CASE c # ct
      <4>1. c \in DOMAIN Operation.bodies \ contents
        BY <1>5, <3>2
      <4>2. \A f \in DOMAIN limits' : f[1] = c => f \in DOMAIN limits
        BY <1>5, <2>3, <3>2
      <4> QED BY <1>5, <2>5, <4>1, <4>2
    <3> QED BY <3>1, <3>2
  <2>8. ParsedSoFar'
    BY <1>1, <1>5, <2>4, <2>5, <2>6, <2>7 DEF ParsedSoFar
  <2>9. TemplatesServe'
    BY <1>5 DEF OfferInv, TemplatesServe
  <2>10. AllCovered'
    BY <1>5 DEF OfferInv, AllCovered, Covered
  <2> QED BY <1>1, <1>5, <2>8, <2>9, <2>10 DEF OfferInv
<1>6. ASSUME ~Dies(BodyFails(ct, plain, xml))
      PROVE  /\ BodyFails(ct, plain, xml) = {}
             /\ DOMAIN limits' = F \cup DOMAIN limits
             /\ contents' = contents \ {ct}
             /\ UNCHANGED <<doc, paths, path, methods, params, templates, state>>
  <2>1. /\ BodyFails(ct, plain, xml) = {}
        /\ limits' =
             Over([f \in {<<ct, ph>> : ph \in DOMAIN r.spec} |->
                     [type |-> "string", min |-> r.spec[f[2]].min,
                      max |-> r.spec[f[2]].max]], limits)
        /\ contents' = contents \ {ct}
        /\ UNCHANGED <<doc, paths, path, methods, params, templates, state>>
    BY <1>6 DEF ParseBody
  <2>2. DOMAIN limits' = F \cup DOMAIN limits
    <3> HIDE DEF r
    <3> QED BY <2>1 DEF Over
  <2> QED BY <2>1, <2>2
<1> HIDE DEF plain, xml, F
<1> QED BY <1>4, <1>5, <1>6

\* The template that is added serves its operation; those of the others stay.
LEMMA OfferTemplate ==
  ASSUME OfferInv, AddTemplate, TypeInv', InsideDocument'
  PROVE  OfferInv'
<1>1. /\ AtOperation /\ params # None /\ contents = {} /\ state = "parsing"
      /\ methods' = methods \ {NextMethod} /\ params' = None /\ limits' = <<>>
      /\ UNCHANGED <<doc, paths, path, state>>
      /\ TypeInv /\ InsideDocument /\ ParsedSoFar
  BY DEF AddTemplate, AtOperation, OfferInv
<1>2. PICK t : /\ templates' = Append(templates, t)
               /\ t.path = path /\ t.method = Method /\ t.placeholders = SupportedPlaceholders
  BY NewTemplate
<1>3. PICK S : templates \in Seq(S)
  BY <1>1 DEF TypeInv, ParsedInv, TemplatesAreListed
<1>4. /\ \A i \in DOMAIN templates' :
            templates'[i] = t \/ (i \in DOMAIN templates /\ templates'[i] = templates[i])
      /\ \A i \in DOMAIN templates : i \in DOMAIN templates' /\ templates'[i] = templates[i]
      /\ \E i \in DOMAIN templates' : templates'[i] = t
  <2>1. Len(templates) \in Nat /\ DOMAIN templates = 1 .. Len(templates)
    BY <1>3
  <2>2. DOMAIN templates' = 1 .. Len(templates) + 1 /\ templates'[Len(templates) + 1] = t
    BY <1>2, <1>3
  <2>3. \A i \in 1 .. Len(templates) : templates'[i] = templates[i]
    BY <1>2, <1>3
  <2> QED BY <2>1, <2>2, <2>3
<1>5. Serves(t, doc[t.path][t.method])
  BY <1>1, <1>2, SupportedAre DEF Serves, Operation
<1>6. TemplatesServe'
  BY <1>1, <1>4, <1>5 DEF OfferInv, TemplatesServe
<1>7. ASSUME NEW p \in DOMAIN doc, NEW m \in DOMAIN doc[p] \ {"HEAD"}
      PROVE  Covered(p, m)'
  <2>1. Covered(p, m)
    BY DEF OfferInv, AllCovered
  <2>2. CASE p = path /\ m = NextMethod
    <3>1. Method = m
      BY <1>1, <2>2, AtOperationIs
    <3> QED BY <1>2, <1>4, <2>2, <3>1 DEF Covered
  <2>3. CASE ~(p = path /\ m = NextMethod)
    BY <1>1, <1>4, <2>1, <2>3 DEF Covered
  <2> QED BY <2>2, <2>3
<1>8. AllCovered'
  BY <1>1, <1>7 DEF AllCovered
<1>9. ParsedSoFar'
  BY <1>1 DEF ParsedSoFar
<1> QED BY <1>1, <1>6, <1>8, <1>9 DEF OfferInv

\* A path is done when all of its methods are, and the document when all paths are.
LEMMA OfferDone ==
  ASSUME OfferInv, PathDone, TypeInv', InsideDocument'
  PROVE  OfferInv'
<1>1. /\ state = "parsing" /\ path' = None /\ methods = {}
      /\ UNCHANGED <<doc, paths, methods, params, limits, templates, state>>
  BY DEF PathDone, opVars
<1>2. params = None /\ limits = <<>>
  BY <1>1 DEF OfferInv, TypeInv, ParsedInv, ParamsOfOperation, ParsedSoFar
<1>3. ParsedSoFar'
  BY <1>1, <1>2 DEF ParsedSoFar
<1>4. TemplatesServe'
  BY <1>1 DEF OfferInv, TemplatesServe
<1>5. AllCovered'
  BY <1>1 DEF OfferInv, AllCovered, Covered
<1> QED BY <1>1, <1>3, <1>4, <1>5 DEF OfferInv

\* Every step keeps the invariant.
LEMMA OfferStep ==
  ASSUME OfferInv, [Next]_vars
  PROVE  OfferInv'
<1>1. TypeInv' /\ InsideDocument'
  BY ParsedStep, TypeStep, InsideStays DEF OfferInv, TypeInv
<1>2. ASSUME UNCHANGED <<doc, paths, path, methods, opVars, templates, state>>
      PROVE  OfferInv'
  BY <1>1, <1>2, OfferStays DEF OfferInv
<1>3. CASE NilOperation \/ NilSchema
  <2>1. UNCHANGED <<doc, paths, path, methods, opVars, templates>> /\ state' # "ready"
    BY <1>3 DEF NilOperation, NilSchema, Dies
  <2> QED BY <1>1, <2>1, OfferStays
<1>4. CASE SortTemplates
  <2>1. /\ UNCHANGED <<doc, paths, path, methods, opVars, templates>>
        /\ paths = {} /\ path = None
    BY <1>4 DEF SortTemplates
  <2> QED BY <1>1, <2>1, OfferStays
<1>5. ASSUME NEW i \in DOMAIN templates,
             \/ \E ph \in Placeholders, length \in Lengths : CreateRequest(ph, i, length)
             \/ CreateRequestFails(i)
      PROVE  OfferInv'
  BY <1>2, <1>5 DEF CreateRequest, CreateRequestFails
<1>6. CASE UNCHANGED vars
  BY <1>2, <1>6 DEF vars
<1> QED BY <1>1, <1>3, <1>4, <1>5, <1>6, OfferPath, OfferParameters, OfferBody, OfferTemplate,
        OfferDone DEF Next, Terminated

\* At first there is nothing to offer.
LEMMA OfferInit == Init => OfferInv
<1> SUFFICES ASSUME Init
             PROVE  OfferInv
  OBVIOUS
<1>1. TypeInv /\ InsideDocument /\ ParsedSoFar
  BY ParsedInit DEF Init, TypeInv, OperationThere, TypeOK, InsideDocument, ParsedSoFar
<1>2. DOMAIN templates = {}
  <2>1. templates = <<>>
    BY DEF Init
  <2> QED BY <2>1
<1>3. TemplatesServe /\ AllCovered
  BY <1>2 DEF Init, TemplatesServe, AllCovered, Covered
<1> QED BY <1>1, <1>3 DEF Init, OfferInv

\* Whatever the document, when it is parsed every operation but HEAD's has a template
\* for the placeholders of the places it has strings in, its own parameters and its
\* bodies, under its own method, and for no others.
THEOREM Offered == Spec => []OfferedWhereStringsAre
<1>1. Init => OfferInv
  BY OfferInit
<1>2. OfferInv /\ [Next]_vars => OfferInv'
  BY OfferStep
<1>3. OfferInv => OfferedWhereStringsAre
  BY OfferedByInv
<1> QED BY <1>1, <1>2, <1>3, PTL DEF Spec

-----------------------------------------------------------------------------
(* What a visit keeps of the strings it finds.                             *)

\* The keys a schema's value may have are among those of the combination it is in.
LEMMA KeysOf ==
  ASSUME NEW n \in Nodes, NEW name \in Names, NEW isXML \in BOOLEAN
  PROVE  /\ Keys(n, name, isXML) \subseteq AnyKey
         /\ Schema[n].combine = "none" => LeafKeys(n, name, isXML) \subseteq Keys(n, name, isXML)
         /\ Schema[n].combine # "none" =>
              \A m \in References(n) : Keys(m, name, isXML) \subseteq Keys(n, name, isXML)
<1>1. ASSUME NEW m \in Nodes
      PROVE  LeafKeys(m, name, isXML) \subseteq AnyKey
  <2>1. XmlName(m, name) \in AnyKey
    BY NamesHas DEF XmlName, AnyKey
  <2>2. DOMAIN Schema[m].props \subseteq AnyKey
    BY NamesHas DEF AnyKey
  <2>3. ASSUME NEW p \in DOMAIN Schema[m].props
        PROVE  PropertyKeys(m, p) \subseteq AnyKey
    <3>1. Schema[m].props[p] \in Nodes
      BY SchemaAssumption
    <3>2. \A x \in Leaves(Schema[m].props[p]) : XmlName(x, p) \in AnyKey
      BY <3>1, LeavesOf, NamesHas DEF XmlName, AnyKey
    <3> QED BY <2>2, <3>2 DEF PropertyKeys
  <2>4. {"", "#text"} \subseteq AnyKey
    BY DEF AnyKey
  <2> HIDE DEF AnyKey
  <2>5. UNION {PropertyKeys(m, p) : p \in DOMAIN Schema[m].props} \subseteq AnyKey
    BY <2>3
  <2> QED BY <2>1, <2>2, <2>4, <2>5 DEF LeafKeys
<1>2. Keys(n, name, isXML) \subseteq AnyKey
  BY <1>1, LeavesOf DEF Keys
<1>3. Schema[n].combine = "none" => LeafKeys(n, name, isXML) \subseteq Keys(n, name, isXML)
  BY LeavesOf DEF Keys
<1>4. Schema[n].combine # "none" =>
        \A m \in References(n) : Keys(m, name, isXML) \subseteq Keys(n, name, isXML)
  BY LeavesOf DEF Keys
<1> QED BY <1>2, <1>3, <1>4

\* What a property adds to its object.
PropertyAt(r, p, isXML) ==
  IF isXML /\ r.kind = "map" THEN r.at ELSE Entry(p, InBody(r))

\* The value of an object that did not fail: its keys are those its properties add.
LEMMA ObjectIs ==
  ASSUME NEW rs, NEW isXML, Object(rs, isXML).fails = {}
  PROVE  /\ \A p \in DOMAIN rs : rs[p].fails = {}
         /\ Object(rs, isXML).kind = "map"
         /\ Object(rs, isXML).spec = SpecUnion(Members(rs))
         /\ DOMAIN Object(rs, isXML).at =
              UNION {DOMAIN PropertyAt(rs[p], p, isXML) : p \in DOMAIN rs}
         /\ \A k \in DOMAIN Object(rs, isXML).at :
              \E p \in DOMAIN rs :
                /\ k \in DOMAIN PropertyAt(rs[p], p, isXML)
                /\ Object(rs, isXML).at[k] = PropertyAt(rs[p], p, isXML)[k]
<1> DEFINE fails == UNION {rs[p].fails : p \in DOMAIN rs}
           keys == UNION {DOMAIN PropertyAt(rs[p], p, isXML) : p \in DOMAIN rs}
           of(k) == CHOOSE p \in DOMAIN rs : k \in DOMAIN PropertyAt(rs[p], p, isXML)
           at == [k \in keys |-> PropertyAt(rs[of(k)], of(k), isXML)[k]]
<1>1. fails = {}
  BY ObjectFails
<1>2. Object(rs, isXML) = Result("map", at, SpecUnion(Members(rs)))
  BY <1>1 DEF Object, PropertyAt, Members
<1>3. /\ Object(rs, isXML).kind = "map" /\ Object(rs, isXML).at = at
      /\ Object(rs, isXML).spec = SpecUnion(Members(rs))
  <2> HIDE DEF at
  <2> QED BY <1>2 DEF Result
<1>4. ASSUME NEW k \in keys
      PROVE  of(k) \in DOMAIN rs /\ k \in DOMAIN PropertyAt(rs[of(k)], of(k), isXML)
  OBVIOUS
<1>5. DOMAIN at = keys
  OBVIOUS
<1>6. \A k \in keys : at[k] = PropertyAt(rs[of(k)], of(k), isXML)[k]
  OBVIOUS
<1>7. \A p \in DOMAIN rs : rs[p].fails = {}
  BY <1>1
<1> HIDE DEF at, keys, of
<1> QED BY <1>3, <1>4, <1>5, <1>6, <1>7 DEF keys

\* What a result may be: its keys are among those the schema allows, and each
\* placeholder has the limits of a string the schema leads to.
IsOrigin(m, limit) ==
  IsString(m) /\ limit = [min |-> Schema[m].min, max |-> Schema[m].max]

Origins(r, n) ==
  \A ph \in DOMAIN r.spec : \E m \in ReachableFrom(n) : IsOrigin(m, r.spec[ph])

Allowed(r, n, name, isXML) ==
  r.fails = {} => DOMAIN r.at \subseteq Keys(n, name, isXML) /\ Origins(r, n)

\* The strings several results have come from are those one of them has.
LEMMA OriginsUnited ==
  ASSUME NEW rs, NEW n \in Nodes,
         \A i \in DOMAIN rs : \E m \in References(n) : Origins(rs[i], m)
  PROVE  \A ph \in DOMAIN SpecUnion(Members(rs)) :
           \E m \in ReachableFrom(n) : IsOrigin(m, SpecUnion(Members(rs))[ph])
<1> SUFFICES ASSUME NEW ph \in DOMAIN SpecUnion(Members(rs))
             PROVE  \E m \in ReachableFrom(n) : IsOrigin(m, SpecUnion(Members(rs))[ph])
  OBVIOUS
<1> DEFINE r == CHOOSE r \in Members(rs) : ph \in DOMAIN r.spec
<1>1. r \in Members(rs) /\ ph \in DOMAIN r.spec
  BY DEF SpecUnion
<1>2. SpecUnion(Members(rs))[ph] = r.spec[ph]
  BY DEF SpecUnion
<1> HIDE DEF r
<1>3. PICK i \in DOMAIN rs : r = rs[i]
  BY <1>1 DEF Members
<1>4. PICK m \in References(n) : Origins(r, m)
  BY <1>3
<1>5. PICK x \in ReachableFrom(m) : IsOrigin(x, r.spec[ph])
  BY <1>1, <1>4 DEF Origins
<1>6. x \in ReachableFrom(n)
  BY ReachableThrough
<1> QED BY <1>2, <1>5, <1>6

\* Maps without a common key are merged without a loss.
LEMMA MergedIs ==
  ASSUME NEW n \in Nat, NEW maps, DOMAIN maps = 1 .. n,
         \A i, j \in 1 .. n : i < j => DOMAIN maps[i] \cap DOMAIN maps[j] = {}
  PROVE  \A i \in 1 .. n : \A k \in DOMAIN maps[i] :
           k \in DOMAIN Merged(maps) /\ Merged(maps)[k] = maps[i][k]
<1> SUFFICES ASSUME NEW i \in 1 .. n, NEW k \in DOMAIN maps[i]
             PROVE  k \in DOMAIN Merged(maps) /\ Merged(maps)[k] = maps[i][k]
  OBVIOUS
<1> DEFINE last == CHOOSE x \in DOMAIN maps :
                     /\ k \in DOMAIN maps[x]
                     /\ \A j \in DOMAIN maps : k \in DOMAIN maps[j] => j <= x
<1>1. \A j \in 1 .. n : k \in DOMAIN maps[j] => j = i
  <2> SUFFICES ASSUME NEW j \in 1 .. n, k \in DOMAIN maps[j], j # i
               PROVE  FALSE
    OBVIOUS
  <2>1. i < j \/ j < i
    OBVIOUS
  <2> QED BY <2>1
<1>2. last = i
  BY <1>1
<1>3. k \in DOMAIN Merged(maps) /\ Merged(maps)[k] = maps[last][k]
  BY DEF Merged
<1> HIDE DEF last
<1> QED BY <1>2, <1>3

\* The keys a property adds to its object are among those PropertyKeys says.
LEMMA PropertyAllowed ==
  ASSUME NEW n \in Nodes, NEW p \in DOMAIN Schema[n].props, NEW isXML \in BOOLEAN, NEW r,
         r.fails = {}, Allowed(r, Schema[n].props[p], p, isXML)
  PROVE  DOMAIN PropertyAt(r, p, isXML) \subseteq IF isXML THEN PropertyKeys(n, p) ELSE {p}
<1> DEFINE s == Schema[n]
<1>1. s.props[p] \in Nodes /\ p \in Names
  BY SchemaAssumption, NamesHas
<1>2. CASE isXML /\ r.kind = "map"
  <2>1. PropertyAt(r, p, isXML) = r.at
    BY <1>2 DEF PropertyAt
  <2>2. DOMAIN r.at \subseteq Keys(s.props[p], p, TRUE)
    BY <1>2 DEF Allowed
  <2>3. CASE p = ""
    <3>1. Keys(s.props[p], p, TRUE) \subseteq AnyKey
      BY <1>1, KeysOf
    <3> QED BY <1>2, <2>1, <2>2, <2>3, <3>1 DEF PropertyKeys
  <2>4. CASE p # ""
    <3>1. \A m \in Leaves(s.props[p]) : LeafKeys(m, p, TRUE) = {XmlName(m, p)}
      BY <2>4 DEF LeafKeys, XmlName
    <3>2. ASSUME NEW k \in Keys(s.props[p], p, TRUE)
          PROVE  \E m \in Leaves(s.props[p]) : k = XmlName(m, p)
      <4>1. PICK m \in Leaves(s.props[p]) : k \in LeafKeys(m, p, TRUE)
        BY DEF Keys
      <4> QED BY <3>1, <4>1
    <3> QED BY <1>2, <2>1, <2>2, <2>4, <3>2 DEF PropertyKeys
  <2> QED BY <2>3, <2>4
<1>3. CASE ~(isXML /\ r.kind = "map")
  <2>1. DOMAIN PropertyAt(r, p, isXML) = {p}
    BY <1>3 DEF PropertyAt, Entry
  <2>2. p \in PropertyKeys(n, p)
    BY <1>1 DEF PropertyKeys, AnyKey
  <2> QED BY <2>1, <2>2
<1> QED BY <1>2, <1>3

\* The value of a schema that is no combination has the keys and strings it allows.
LEMMA ValueAllowed ==
  ASSUME NEW v \in Visits, Schema[NodeOf(v)].combine = "none", NEW inner, NEW fields,
         DOMAIN inner = DOMAIN Schema[NodeOf(v)].inner,
         DOMAIN fields = DOMAIN Schema[NodeOf(v)].props,
         \A i \in DOMAIN inner :
           Allowed(inner[i], Schema[NodeOf(v)].inner[i], InnerName(v), v.isXML),
         \A p \in DOMAIN fields : Allowed(fields[p], Schema[NodeOf(v)].props[p], p, v.isXML),
         Value(v, inner, fields).fails = {}
  PROVE  LET w == Value(v, inner, fields)
             s == Schema[NodeOf(v)]
         IN  /\ s.type # "object" => w.kind # "map" /\ DOMAIN w.at \subseteq {""}
             /\ s.type = "object" =>
                  /\ w.kind = "map"
                  /\ DOMAIN w.at \subseteq
                       IF v.isXML THEN UNION {PropertyKeys(NodeOf(v), p) : p \in DOMAIN s.props}
                       ELSE DOMAIN s.props
             /\ Origins(w, NodeOf(v))
<1> DEFINE n == NodeOf(v)
           s == Schema[n]
           w == Value(v, inner, fields)
<1>1. n \in Nodes /\ InnerName(v) \in Names /\ v.isXML \in BOOLEAN
  BY VisitFacts
<1>2. /\ s.inner \in Seq(Nodes) /\ s.type \in Types /\ (s.type = "array" => Len(s.inner) = 1)
  BY <1>1, SchemaAssumption
<1>3. DOMAIN inner = 1 .. Len(s.inner) /\ DOMAIN s.inner = 1 .. Len(s.inner)
  BY <1>2
<1>4. CASE s.type = "string"
  <2>1. w = Result("text", Entry("", {v.path}), Entry(v.path, [min |-> s.min, max |-> s.max]))
    BY <1>4 DEF Value, Failed
  <2>2. /\ w.kind = "text" /\ w.at = Entry("", {v.path})
        /\ w.spec = Entry(v.path, [min |-> s.min, max |-> s.max])
    <3> HIDE DEF w
    <3> QED BY <2>1 DEF Result
  <2> HIDE DEF w
  <2>3. DOMAIN w.at \subseteq {""} /\ w.kind # "map"
    BY <2>2 DEF Entry
  <2>4. \A ph \in DOMAIN w.spec : w.spec[ph] = [min |-> s.min, max |-> s.max]
    BY <2>2 DEF Entry
  <2>5. IsString(n) /\ n \in ReachableFrom(n)
    BY <1>1, <1>4, ReachableClosed DEF IsString
  <2>6. Origins(w, n)
    BY <2>4, <2>5 DEF Origins, IsOrigin
  <2> QED BY <1>4, <2>3, <2>6 DEF w
<1>5. CASE s.type \in {"integer", "number", "boolean"}
  <2>1. w = Result("text", <<>>, <<>>)
    BY <1>5 DEF Value, Failed
  <2>2. w.kind = "text" /\ w.at = <<>> /\ w.spec = <<>>
    <3> HIDE DEF w
    <3> QED BY <2>1 DEF Result
  <2>3. \A k : k \notin DOMAIN <<>>
    OBVIOUS
  <2> HIDE DEF w
  <2>4. DOMAIN w.at \subseteq {""} /\ w.kind # "map" /\ Origins(w, n)
    BY <2>2, <2>3 DEF Origins
  <2> QED BY <1>5, <2>4 DEF w
<1>6. CASE s.type = "none"
  <2>1. w = Failed({"error"})
    BY <1>6 DEF Value
  <2> QED BY <2>1 DEF Failed
<1>7. CASE s.type = "array"
  <2>1. 1 \in DOMAIN inner /\ s.inner[1] \in References(n)
    <3>1. Len(s.inner) = 1
      BY <1>2, <1>7
    <3> HIDE DEF s
    <3>2. DOMAIN inner = 1 .. 1 /\ DOMAIN s.inner = 1 .. 1
      BY <1>3, <3>1
    <3> QED BY <1>7, <3>2 DEF s, References
  <2>2. w = IF inner[1].fails # {} THEN inner[1]
            ELSE Result("list", Entry("", InBody(inner[1])), inner[1].spec)
    BY <1>7 DEF Value
  <2>3. inner[1].fails = {}
    <3> HIDE DEF w
    <3> QED BY <2>2 DEF w
  <2>4. w.kind = "list" /\ w.at = Entry("", InBody(inner[1])) /\ w.spec = inner[1].spec
    <3>1. w = Result("list", Entry("", InBody(inner[1])), inner[1].spec)
      <4> HIDE DEF w
      <4> QED BY <2>2, <2>3
    <3> HIDE DEF w
    <3> QED BY <3>1 DEF Result
  <2>5. Origins(inner[1], s.inner[1])
    BY <2>1, <2>3 DEF Allowed
  <2> HIDE DEF w
  <2>6. Origins(w, n)
    BY <1>1, <2>1, <2>4, <2>5, ReachableThrough DEF Origins
  <2>7. DOMAIN w.at \subseteq {""} /\ w.kind # "map"
    BY <2>4 DEF Entry
  <2> QED BY <1>7, <2>6, <2>7 DEF w
<1>8. CASE s.type = "object"
  <2>1. w = Object(fields, v.isXML)
    BY <1>8 DEF Value
  <2>2. /\ \A p \in DOMAIN fields : fields[p].fails = {}
        /\ w.kind = "map" /\ w.spec = SpecUnion(Members(fields))
        /\ DOMAIN w.at = UNION {DOMAIN PropertyAt(fields[p], p, v.isXML) : p \in DOMAIN fields}
    BY <2>1, ObjectIs
  <2>3. \A p \in DOMAIN fields : s.props[p] \in References(n) /\ s.props[p] \in Nodes /\ p \in Names
    BY <1>1, <1>8, SchemaAssumption, NamesHas DEF References
  <2>4. Origins(w, n)
    <3>1. \A p \in DOMAIN fields : Origins(fields[p], s.props[p])
      BY <2>2 DEF Allowed
    <3> HIDE DEF w
    <3> QED BY <1>1, <2>2, <2>3, <3>1, OriginsUnited DEF Origins
  <2>5. ASSUME NEW p \in DOMAIN fields
        PROVE  DOMAIN PropertyAt(fields[p], p, v.isXML) \subseteq
                 IF v.isXML THEN PropertyKeys(n, p) ELSE {p}
    <3> HIDE DEF w
    <3> QED BY <1>1, <2>2, PropertyAllowed
  <2>6. v.isXML => DOMAIN w.at \subseteq UNION {PropertyKeys(n, p) : p \in DOMAIN s.props}
    <3> HIDE DEF w
    <3> QED BY <2>2, <2>5
  <2>7. ~v.isXML => DOMAIN w.at \subseteq DOMAIN s.props
    <3> SUFFICES ASSUME ~v.isXML, NEW k \in DOMAIN w.at
                 PROVE  k \in DOMAIN s.props
      OBVIOUS
    <3>1. PICK p \in DOMAIN fields : k \in DOMAIN PropertyAt(fields[p], p, v.isXML)
      <4> HIDE DEF w
      <4> QED BY <2>2
    <3>2. DOMAIN PropertyAt(fields[p], p, v.isXML) \subseteq {p}
      BY <2>5
    <3> QED BY <3>1, <3>2
  <2> HIDE DEF w
  <2> QED BY <1>8, <2>2, <2>4, <2>6, <2>7 DEF w
<1> QED BY <1>2, <1>4, <1>5, <1>6, <1>7, <1>8 DEF Types

\* So for what a visit returns, if it is for what the visits it leads to return.
LEMMA VisitAllowed ==
  ASSUME NEW v \in Visits, NEW inner, NEW fields,
         DOMAIN inner = DOMAIN Schema[NodeOf(v)].inner,
         DOMAIN fields = DOMAIN Schema[NodeOf(v)].props,
         \A i \in DOMAIN inner : inner[i].fails = {} => IsFiniteSet(DOMAIN inner[i].spec),
         \A i \in DOMAIN inner :
           Allowed(inner[i], Schema[NodeOf(v)].inner[i], InnerName(v), v.isXML),
         \A p \in DOMAIN fields : Allowed(fields[p], Schema[NodeOf(v)].props[p], p, v.isXML)
  PROVE  Allowed(Visit(v, inner, fields), NodeOf(v), v.name, v.isXML)
<1> DEFINE n == NodeOf(v)
           s == Schema[n]
           r == Visit(v, inner, fields)
<1> SUFFICES ASSUME r.fails = {}
             PROVE  DOMAIN r.at \subseteq Keys(n, v.name, v.isXML) /\ Origins(r, n)
  BY DEF Allowed
<1>1. n \in Nodes /\ v.name \in Names /\ v.isXML \in BOOLEAN
  BY VisitFacts
<1>2. s.inner \in Seq(Nodes) /\ s.combine \in {"none", "allOf", "oneOf"}
  BY <1>1, SchemaAssumption
<1>3. Len(s.inner) \in Nat /\ DOMAIN inner = 1 .. Len(s.inner)
  BY <1>2
<1>4. ~Repeats(v)
  BY DEF Visit, Failed
<1>5. \A k : k \notin DOMAIN <<>>
  OBVIOUS
<1>6. CASE s.combine # "none"
  <2>1. InnerName(v) = v.name
    BY <1>6 DEF InnerName
  <2>2. \A i \in DOMAIN inner : s.inner[i] \in References(n)
    BY <1>6 DEF References
  <2>3. \A i \in DOMAIN inner : inner[i].fails = {} =>
          DOMAIN inner[i].at \subseteq Keys(n, v.name, v.isXML) /\ Origins(inner[i], s.inner[i])
    BY <1>1, <1>6, <2>1, <2>2, KeysOf DEF Allowed
  <2>4. CASE s.combine = "allOf"
    <3>1. r = AllOf(inner)
      BY <1>4, <2>4 DEF Visit
    <3>2. FirstFailure(inner) = {}
      BY <1>3, <3>1, CombinationFails
    <3>3. \A i \in DOMAIN inner : inner[i].fails = {}
      BY <1>3, <3>2, FirstFailureOf
    <3>4. /\ r.spec = SpecUnion(Members(inner))
          /\ r.at = Merged([i \in DOMAIN inner |-> inner[i].at])
      BY <3>1, <3>2 DEF AllOf, Result, Members
    <3>5. DOMAIN r.at \subseteq UNION {DOMAIN inner[i].at : i \in DOMAIN inner}
      <4> SUFFICES ASSUME NEW k \in DOMAIN r.at
                   PROVE  \E i \in DOMAIN inner : k \in DOMAIN inner[i].at
        OBVIOUS
      <4> DEFINE maps == [i \in DOMAIN inner |-> inner[i].at]
      <4>1. DOMAIN maps = DOMAIN inner /\ \A i \in DOMAIN inner : maps[i] = inner[i].at
        OBVIOUS
      <4>2. r.at = Merged(maps)
        BY <3>4
      <4> HIDE DEF r, maps
      <4>3. PICK i \in DOMAIN maps : k \in DOMAIN maps[i]
        BY <4>2 DEF Merged
      <4> QED BY <4>1, <4>3
    <3> HIDE DEF r
    <3>6. DOMAIN r.at \subseteq Keys(n, v.name, v.isXML)
      BY <2>3, <3>3, <3>5
    <3>7. Origins(r, n)
      BY <1>1, <2>2, <2>3, <3>3, <3>4, OriginsUnited DEF Origins
    <3> QED BY <3>6, <3>7
  <2>5. CASE s.combine = "oneOf"
    <3>1. r = OneOf(inner)
      BY <1>4, <2>5 DEF Visit
    <3>2. /\ FirstFailure(inner) = {}
          /\ \/ r = Result("nil", <<>>, <<>>)
             \/ \E i \in 1 .. Len(s.inner) : r = inner[i] /\ DOMAIN inner[i].spec # {}
      BY <1>3, <3>1, OneOfIs
    <3>3. CASE r = Result("nil", <<>>, <<>>)
      <4>1. r.at = <<>> /\ r.spec = <<>>
        <5> HIDE DEF r
        <5> QED BY <3>3 DEF Result
      <4> HIDE DEF r
      <4> QED BY <1>5, <4>1 DEF Origins
    <3>4. CASE \E i \in 1 .. Len(s.inner) : r = inner[i] /\ DOMAIN inner[i].spec # {}
      <4>1. PICK i \in 1 .. Len(s.inner) : r = inner[i]
        BY <3>4
      <4>2. inner[i].fails = {} /\ i \in DOMAIN inner
        BY <1>3, <3>2, FirstFailureOf
      <4> HIDE DEF r
      <4>3. Origins(r, n)
        BY <1>1, <2>2, <2>3, <4>1, <4>2, ReachableThrough DEF Origins
      <4> QED BY <2>3, <4>1, <4>2, <4>3
    <3> QED BY <3>2, <3>3, <3>4
  <2> QED BY <1>2, <1>6, <2>4, <2>5
<1>7. CASE s.combine = "none"
  <2> DEFINE w == Value(v, inner, fields)
             name == XmlName(n, v.name)
  <2>1. LeafKeys(n, v.name, v.isXML) \subseteq Keys(n, v.name, v.isXML)
    BY <1>1, <1>7, KeysOf
  <2>2. r = IF v.isXML THEN XmlWrapped(w, name) ELSE w
    BY <1>4, <1>7 DEF Visit
  <2>3. w.fails = {}
    <3> HIDE DEF w, r
    <3> QED BY <2>2, WrappedFails DEF r
  <2>4. /\ s.type # "object" => w.kind # "map" /\ DOMAIN w.at \subseteq {""}
        /\ s.type = "object" =>
             /\ w.kind = "map"
             /\ DOMAIN w.at \subseteq
                  IF v.isXML THEN UNION {PropertyKeys(n, p) : p \in DOMAIN s.props}
                  ELSE DOMAIN s.props
        /\ Origins(w, n)
    BY <1>7, <2>3, ValueAllowed
  <2> HIDE DEF w, r
  <2>5. CASE v.isXML
    <3>1. r = Result("map",
                IF name # "" THEN Entry(name, InBody(w))
                ELSE IF w.kind = "map" THEN w.at ELSE Entry("#text", InBody(w)),
                w.spec)
      BY <2>2, <2>3, <2>5 DEF XmlWrapped
    <3>2. /\ r.spec = w.spec
          /\ r.at = IF name # "" THEN Entry(name, InBody(w))
                    ELSE IF w.kind = "map" THEN w.at ELSE Entry("#text", InBody(w))
      BY <3>1 DEF Result
    <3>3. Origins(r, n)
      BY <2>4, <3>2 DEF Origins
    <3>4. DOMAIN r.at \subseteq LeafKeys(n, v.name, v.isXML)
      <4>1. CASE name # ""
        <5>1. DOMAIN r.at = {name}
          BY <3>2, <4>1 DEF Entry
        <5> QED BY <2>5, <4>1, <5>1 DEF LeafKeys
      <4>2. CASE name = "" /\ s.type = "object"
        <5>1. r.at = w.at
          BY <2>4, <3>2, <4>2
        <5> QED BY <2>4, <2>5, <4>2, <5>1 DEF LeafKeys
      <4>3. CASE name = "" /\ s.type # "object"
        <5>1. DOMAIN r.at = {"#text"}
          BY <2>4, <3>2, <4>3 DEF Entry
        <5> QED BY <4>3, <5>1 DEF LeafKeys
      <4> QED BY <4>1, <4>2, <4>3
    <3> QED BY <2>1, <3>3, <3>4 DEF r
  <2>6. CASE ~v.isXML
    <3>1. r = w
      BY <2>2, <2>6
    <3>2. DOMAIN w.at \subseteq LeafKeys(n, v.name, v.isXML)
      BY <2>4, <2>6 DEF LeafKeys
    <3> QED BY <2>1, <2>4, <3>1, <3>2 DEF r
  <2> QED BY <2>5, <2>6
<1> QED BY <1>6, <1>7

\* Every visit returns what its schema allows.
LEMMA MapAllowed ==
  ASSUME NEW v \in Visits
  PROVE  Allowed(SchemaToMap[v], NodeOf(v), v.name, v.isXML)
<1> DEFINE G == {w \in Visits : Allowed(SchemaToMap[w], NodeOf(w), w.name, w.isXML)}
<1>1. ASSUME NEW w \in Visits, Repeats(w)
      PROVE  w \in G
  <2>1. SchemaToMap[w] = Failed({"panic"})
    BY <1>1, MapEquation DEF Visit
  <2>2. SchemaToMap[w].fails # {}
    BY <2>1 DEF Failed
  <2> QED BY <2>2 DEF Allowed
<1>2. ASSUME NEW w \in Visits, \A n \in Nodes, name \in Names : To(w, n, name) \in G
      PROVE  w \in G
  <2> DEFINE inner == InnerOf(SchemaToMap, w)
             fields == FieldsOf(SchemaToMap, w)
  <2>1. ASSUME NEW n \in Nodes, NEW name \in Names
        PROVE  Allowed(SchemaToMap[To(w, n, name)], n, name, w.isXML)
    <3> DEFINE u == To(w, n, name)
    <3>1. NodeOf(u) = n /\ u.name = name /\ u.isXML = w.isXML
      BY ToFacts
    <3>2. u \in G
      BY <1>2
    <3>3. Allowed(SchemaToMap[u], NodeOf(u), u.name, u.isXML)
      BY <3>2
    <3> HIDE DEF u
    <3>4. Allowed(SchemaToMap[u], n, name, w.isXML)
      BY <3>1, <3>3
    <3> QED BY <3>4 DEF u
  <2>2. InnerName(w) \in Names
    BY VisitFacts
  <2>3. \A i \in DOMAIN inner :
          Allowed(inner[i], Schema[NodeOf(w)].inner[i], InnerName(w), w.isXML)
    <3> HIDE DEF G
    <3> QED BY <2>1, <2>2, SubVisits
  <2>4. \A p \in DOMAIN fields : Allowed(fields[p], Schema[NodeOf(w)].props[p], p, w.isXML)
    <3> HIDE DEF G
    <3> QED BY <2>1, SubVisits
  <2>5. /\ DOMAIN inner = DOMAIN Schema[NodeOf(w)].inner
        /\ DOMAIN fields = DOMAIN Schema[NodeOf(w)].props
    BY SubVisits
  <2>6. ASSUME NEW i \in DOMAIN inner
        PROVE  inner[i].fails = {} => IsFiniteSet(DOMAIN inner[i].spec)
    <3> DEFINE u == To(w, Schema[NodeOf(w)].inner[i], InnerName(w))
    <3>1. inner[i] = SchemaToMap[u] /\ Schema[NodeOf(w)].inner[i] \in Nodes
      BY <2>5, SubVisits
    <3>2. u \in Visits
      BY <2>2, <3>1, ToFacts
    <3> HIDE DEF u, inner
    <3> QED BY <3>1, <3>2, MapFinds DEF StringsFound
  <2>7. SchemaToMap[w] = Visit(w, inner, fields)
    BY MapEquation
  <2> HIDE DEF inner, fields
  <2>8. Allowed(SchemaToMap[w], NodeOf(w), w.name, w.isXML)
    BY <2>3, <2>4, <2>5, <2>6, <2>7, VisitAllowed
  <2> QED BY <2>8
<1> HIDE DEF G
<1>3. \A w \in Visits : w \in G
  BY <1>1, <1>2, VisitInduction
<1> QED BY <1>3 DEF G

-----------------------------------------------------------------------------
(* Where nothing is written twice, the body has every string.              *)

Kept(r) == r.fails = {} => DOMAIN r.spec \subseteq InBody(r)

\* The results a visit puts together have no key in common.
Apart(v, inner, fields) ==
  LET s == Schema[NodeOf(v)]
  IN  /\ s.combine = "allOf" =>
           \A i, j \in DOMAIN inner :
             i < j => DOMAIN inner[i].at \cap DOMAIN inner[j].at = {}
      /\ v.isXML /\ s.combine = "none" /\ s.type = "object" =>
           \A p, q \in DOMAIN fields :
             p # q => DOMAIN PropertyAt(fields[p], p, TRUE)
                        \cap DOMAIN PropertyAt(fields[q], q, TRUE) = {}

\* The placeholders of a body are those below its keys.
LEMMA InBodyIs ==
  ASSUME NEW r
  PROVE  \A ph : ph \in InBody(r) <=> \E k \in DOMAIN r.at : ph \in r.at[k]
BY DEF InBody

\* The value of a schema that is no combination has every string that was found.
LEMMA ValueKeeps ==
  ASSUME NEW v \in Visits, Schema[NodeOf(v)].combine = "none", NEW inner, NEW fields,
         DOMAIN inner = DOMAIN Schema[NodeOf(v)].inner,
         DOMAIN fields = DOMAIN Schema[NodeOf(v)].props,
         \A i \in DOMAIN inner :
           Schema[NodeOf(v)].inner[i] \in References(NodeOf(v)) => Kept(inner[i]),
         \A p \in DOMAIN fields :
           Schema[NodeOf(v)].props[p] \in References(NodeOf(v)) => Kept(fields[p]),
         Value(v, inner, fields).fails = {} => Apart(v, inner, fields)
  PROVE  Kept(Value(v, inner, fields))
<1> DEFINE n == NodeOf(v)
           s == Schema[n]
           w == Value(v, inner, fields)
<1> SUFFICES ASSUME w.fails = {}, NEW ph \in DOMAIN w.spec
             PROVE  \E k \in DOMAIN w.at : ph \in w.at[k]
  <2> HIDE DEF w
  <2> QED BY InBodyIs DEF Kept, w
<1>1. n \in Nodes
  BY VisitFacts
<1>2. /\ s.inner \in Seq(Nodes) /\ s.type \in Types /\ (s.type = "array" => Len(s.inner) = 1)
  BY <1>1, SchemaAssumption
<1>3. DOMAIN inner = 1 .. Len(s.inner)
  BY <1>2
<1>4. CASE s.type = "string"
  <2>1. w = Result("text", Entry("", {v.path}), Entry(v.path, [min |-> s.min, max |-> s.max]))
    BY <1>4 DEF Value, Failed
  <2>2. /\ w.at = Entry("", {v.path})
        /\ w.spec = Entry(v.path, [min |-> s.min, max |-> s.max])
    <3> HIDE DEF w
    <3> QED BY <2>1 DEF Result
  <2> HIDE DEF w
  <2>3. ph = v.path
    BY <2>2 DEF Entry
  <2>4. "" \in DOMAIN w.at /\ w.at[""] = {v.path}
    BY <2>2 DEF Entry
  <2> QED BY <2>3, <2>4
<1>5. CASE s.type \in {"integer", "number", "boolean"}
  <2>1. w = Result("text", <<>>, <<>>)
    BY <1>5 DEF Value, Failed
  <2>2. w.spec = <<>>
    <3> HIDE DEF w
    <3> QED BY <2>1 DEF Result
  <2> HIDE DEF w
  <2> QED BY <2>2
<1>6. CASE s.type = "none"
  <2>1. w = Failed({"error"})
    BY <1>6 DEF Value
  <2> QED BY <2>1 DEF Failed
<1>7. CASE s.type = "array"
  <2>1. 1 \in DOMAIN inner /\ s.inner[1] \in References(n)
    <3>1. Len(s.inner) = 1
      BY <1>2, <1>7
    <3> HIDE DEF s
    <3>2. DOMAIN inner = 1 .. 1 /\ DOMAIN s.inner = 1 .. 1
      BY <1>2, <1>3, <3>1
    <3> QED BY <1>7, <3>2 DEF s, References
  <2>2. w = IF inner[1].fails # {} THEN inner[1]
            ELSE Result("list", Entry("", InBody(inner[1])), inner[1].spec)
    BY <1>7 DEF Value
  <2>3. inner[1].fails = {}
    <3> HIDE DEF w
    <3> QED BY <2>2 DEF w
  <2>4. w.at = Entry("", InBody(inner[1])) /\ w.spec = inner[1].spec
    <3>1. w = Result("list", Entry("", InBody(inner[1])), inner[1].spec)
      <4> HIDE DEF w
      <4> QED BY <2>2, <2>3
    <3> HIDE DEF w
    <3> QED BY <3>1 DEF Result
  <2> HIDE DEF w
  <2>5. ph \in InBody(inner[1])
    BY <2>1, <2>3, <2>4 DEF Kept
  <2>6. "" \in DOMAIN w.at /\ w.at[""] = InBody(inner[1])
    BY <2>4 DEF Entry
  <2> QED BY <2>5, <2>6
<1>8. CASE s.type = "object"
  <2>1. w = Object(fields, v.isXML)
    BY <1>8 DEF Value
  <2>2. /\ \A p \in DOMAIN fields : fields[p].fails = {}
        /\ w.spec = SpecUnion(Members(fields))
        /\ DOMAIN w.at = UNION {DOMAIN PropertyAt(fields[p], p, v.isXML) : p \in DOMAIN fields}
        /\ \A k \in DOMAIN w.at :
             \E p \in DOMAIN fields :
               /\ k \in DOMAIN PropertyAt(fields[p], p, v.isXML)
               /\ w.at[k] = PropertyAt(fields[p], p, v.isXML)[k]
    BY <2>1, ObjectIs
  <2>3. PICK p \in DOMAIN fields : ph \in DOMAIN fields[p].spec
    <3> HIDE DEF w
    <3> QED BY <2>2 DEF SpecUnion, Members
  <2>4. ph \in InBody(fields[p])
    <3>1. s.props[p] \in References(n)
      BY <1>8 DEF References
    <3> HIDE DEF w
    <3> QED BY <2>2, <2>3, <3>1 DEF Kept
  <2>5. PICK k \in DOMAIN PropertyAt(fields[p], p, v.isXML) :
          ph \in PropertyAt(fields[p], p, v.isXML)[k]
    <3>1. CASE v.isXML /\ fields[p].kind = "map"
      <4>1. PropertyAt(fields[p], p, v.isXML) = fields[p].at
        BY <3>1 DEF PropertyAt
      <4> QED BY <2>4, <4>1, InBodyIs
    <3>2. CASE ~(v.isXML /\ fields[p].kind = "map")
      <4>1. PropertyAt(fields[p], p, v.isXML) = Entry(p, InBody(fields[p]))
        BY <3>2 DEF PropertyAt
      <4>2. p \in DOMAIN Entry(p, InBody(fields[p])) /\ Entry(p, InBody(fields[p]))[p] = InBody(fields[p])
        BY DEF Entry
      <4> HIDE DEF w
      <4> QED BY <2>4, <4>1, <4>2
    <3> QED BY <3>1, <3>2
  <2>6. k \in DOMAIN w.at
    <3> HIDE DEF w
    <3> QED BY <2>2, <2>5
  <2>7. PICK q \in DOMAIN fields :
          /\ k \in DOMAIN PropertyAt(fields[q], q, v.isXML)
          /\ w.at[k] = PropertyAt(fields[q], q, v.isXML)[k]
    <3> HIDE DEF w
    <3> QED BY <2>2, <2>6
  <2>8. p = q
    <3>1. CASE v.isXML
      <4>1. v.isXML = TRUE
        BY <3>1, VisitFacts
      <4>2. Apart(v, inner, fields)
        OBVIOUS
      <4> HIDE DEF w
      <4> QED BY <1>8, <2>5, <2>7, <4>1, <4>2 DEF Apart
    <3>2. CASE ~v.isXML
      <4>1. /\ DOMAIN PropertyAt(fields[p], p, v.isXML) = {p}
            /\ DOMAIN PropertyAt(fields[q], q, v.isXML) = {q}
        BY <3>2 DEF PropertyAt, Entry
      <4> QED BY <2>5, <2>7, <4>1
    <3> QED BY <3>1, <3>2
  <2> HIDE DEF w
  <2> QED BY <2>5, <2>6, <2>7, <2>8
<1> QED BY <1>2, <1>4, <1>5, <1>6, <1>7, <1>8 DEF Types

\* So for any visit of a schema, wrapped for XML or put together from several.
LEMMA VisitKeeps ==
  ASSUME NEW v \in Visits, NEW inner, NEW fields,
         DOMAIN inner = DOMAIN Schema[NodeOf(v)].inner,
         DOMAIN fields = DOMAIN Schema[NodeOf(v)].props,
         \A i \in DOMAIN inner : inner[i].fails = {} => IsFiniteSet(DOMAIN inner[i].spec),
         \A i \in DOMAIN inner :
           Schema[NodeOf(v)].inner[i] \in References(NodeOf(v)) => Kept(inner[i]),
         \A p \in DOMAIN fields :
           Schema[NodeOf(v)].props[p] \in References(NodeOf(v)) => Kept(fields[p]),
         Visit(v, inner, fields).fails = {} => Apart(v, inner, fields)
  PROVE  Kept(Visit(v, inner, fields))
<1> DEFINE n == NodeOf(v)
           s == Schema[n]
           r == Visit(v, inner, fields)
<1> SUFFICES ASSUME r.fails = {}, NEW ph \in DOMAIN r.spec
             PROVE  \E k \in DOMAIN r.at : ph \in r.at[k]
  <2> HIDE DEF r
  <2> QED BY InBodyIs DEF Kept, r
<1>1. n \in Nodes /\ v.isXML \in BOOLEAN
  BY VisitFacts
<1>2. s.inner \in Seq(Nodes) /\ s.combine \in {"none", "allOf", "oneOf"}
  BY <1>1, SchemaAssumption
<1>3. Len(s.inner) \in Nat /\ DOMAIN inner = 1 .. Len(s.inner)
  BY <1>2
<1>4. ~Repeats(v)
  BY DEF Visit, Failed
<1>5. \A k : k \notin DOMAIN <<>>
  OBVIOUS
<1>6. s.combine # "none" => \A i \in DOMAIN inner : Kept(inner[i])
  BY DEF References
<1>7. CASE s.combine = "allOf"
  <2> DEFINE maps == [i \in DOMAIN inner |-> inner[i].at]
  <2>1. r = AllOf(inner)
    BY <1>4, <1>7 DEF Visit
  <2>2. FirstFailure(inner) = {}
    BY <1>3, <2>1, CombinationFails
  <2>3. \A i \in DOMAIN inner : inner[i].fails = {}
    BY <1>3, <2>2, FirstFailureOf
  <2>4. r.spec = SpecUnion(Members(inner)) /\ r.at = Merged(maps)
    BY <2>1, <2>2 DEF AllOf, Result, Members
  <2>5. DOMAIN maps = 1 .. Len(s.inner) /\ \A i \in DOMAIN maps : maps[i] = inner[i].at
    BY <1>3
  <2>6. Apart(v, inner, fields)
    OBVIOUS
  <2> HIDE DEF r, maps
  <2>7. \A i, j \in 1 .. Len(s.inner) : i < j => DOMAIN maps[i] \cap DOMAIN maps[j] = {}
    BY <1>3, <1>7, <2>5, <2>6 DEF Apart
  <2>8. PICK i \in DOMAIN inner : ph \in DOMAIN inner[i].spec
    BY <2>4 DEF SpecUnion, Members
  <2>9. PICK k \in DOMAIN inner[i].at : ph \in inner[i].at[k]
    BY <1>6, <1>7, <2>3, <2>8, InBodyIs DEF Kept
  <2>10. k \in DOMAIN Merged(maps) /\ Merged(maps)[k] = maps[i][k]
    <3>1. i \in 1 .. Len(s.inner) /\ k \in DOMAIN maps[i] /\ DOMAIN maps = 1 .. Len(s.inner)
      BY <1>3, <2>5, <2>9
    <3> HIDE DEF s
    <3> QED BY <1>3, <2>7, <3>1, MergedIs
  <2> QED BY <2>4, <2>5, <2>9, <2>10, <1>3
<1>8. CASE s.combine = "oneOf"
  <2>1. r = OneOf(inner)
    BY <1>4, <1>8 DEF Visit
  <2>2. /\ FirstFailure(inner) = {}
        /\ \/ r = Result("nil", <<>>, <<>>)
           \/ \E i \in 1 .. Len(s.inner) : r = inner[i] /\ DOMAIN inner[i].spec # {}
    BY <1>3, <2>1, OneOfIs
  <2>3. CASE r = Result("nil", <<>>, <<>>)
    <3>1. r.spec = <<>>
      <4> HIDE DEF r
      <4> QED BY <2>3 DEF Result
    <3> HIDE DEF r
    <3> QED BY <1>5, <3>1
  <2>4. CASE \E i \in 1 .. Len(s.inner) : r = inner[i] /\ DOMAIN inner[i].spec # {}
    <3>1. PICK i \in 1 .. Len(s.inner) : r = inner[i]
      BY <2>4
    <3> HIDE DEF r
    <3> QED BY <1>3, <1>6, <1>8, <3>1, InBodyIs DEF Kept, r
  <2> QED BY <2>2, <2>3, <2>4
<1>9. CASE s.combine = "none"
  <2> DEFINE w == Value(v, inner, fields)
             name == XmlName(n, v.name)
  <2>1. r = IF v.isXML THEN XmlWrapped(w, name) ELSE w
    BY <1>4, <1>9 DEF Visit
  <2>2. w.fails = {}
    <3> HIDE DEF w, r
    <3> QED BY <2>1, WrappedFails DEF r
  <2>3. Apart(v, inner, fields)
    OBVIOUS
  <2>4. Kept(w)
    BY <1>9, <2>3, ValueKeeps
  <2> HIDE DEF w, r
  <2>5. CASE v.isXML
    <3> DEFINE at == IF name # "" THEN Entry(name, InBody(w))
                     ELSE IF w.kind = "map" THEN w.at ELSE Entry("#text", InBody(w))
    <3>1. r = Result("map", at, w.spec)
      BY <2>1, <2>2, <2>5 DEF XmlWrapped
    <3>2. r.spec = w.spec /\ r.at = at
      BY <3>1 DEF Result
    <3>3. ph \in InBody(w)
      BY <2>2, <2>4, <3>2 DEF Kept
    <3>4. \E k \in DOMAIN at : ph \in at[k]
      <4>1. CASE name # ""
        <5>1. at = Entry(name, InBody(w))
          BY <4>1
        <5> HIDE DEF at
        <5>2. name \in DOMAIN at /\ at[name] = InBody(w)
          BY <5>1 DEF Entry
        <5> QED BY <3>3, <5>2
      <4>2. CASE name = "" /\ w.kind = "map"
        <5>1. at = w.at
          BY <4>2
        <5> HIDE DEF at
        <5> QED BY <3>3, <5>1, InBodyIs
      <4>3. CASE name = "" /\ w.kind # "map"
        <5>1. at = Entry("#text", InBody(w))
          BY <4>3
        <5> HIDE DEF at
        <5>2. "#text" \in DOMAIN at /\ at["#text"] = InBody(w)
          BY <5>1 DEF Entry
        <5> QED BY <3>3, <5>2
      <4> QED BY <4>1, <4>2, <4>3
    <3> HIDE DEF at
    <3> QED BY <3>2, <3>4
  <2>6. CASE ~v.isXML
    BY <2>1, <2>2, <2>4, <2>6, InBodyIs DEF Kept
  <2> QED BY <2>5, <2>6
<1> QED BY <1>2, <1>7, <1>8, <1>9

\* A visit of a body in which nothing is written twice.
Clear(v) ==
  /\ OnTheWay(v.path)
  /\ Len(v.path) = 1 => v.name = ""
  /\ ~Overwrites(v.path[1], v.isXML)

\* Where Overwrites finds nothing the results a visit puts together have no common key.
LEMMA ClearIsApart ==
  ASSUME NEW v \in Visits, Clear(v), NEW inner, NEW fields,
         DOMAIN inner = DOMAIN Schema[NodeOf(v)].inner,
         DOMAIN fields = DOMAIN Schema[NodeOf(v)].props,
         \A i \in DOMAIN inner : inner[i].fails = {} => IsFiniteSet(DOMAIN inner[i].spec),
         \A i \in DOMAIN inner :
           Allowed(inner[i], Schema[NodeOf(v)].inner[i], InnerName(v), v.isXML),
         \A p \in DOMAIN fields : Allowed(fields[p], Schema[NodeOf(v)].props[p], p, v.isXML),
         Visit(v, inner, fields).fails = {}
  PROVE  Apart(v, inner, fields)
<1> DEFINE n == NodeOf(v)
           s == Schema[n]
           r == Visit(v, inner, fields)
           first == v.path[1]
<1>1. n \in Nodes /\ v.isXML \in BOOLEAN /\ v.name \in Names
  BY VisitFacts
<1>2. s.inner \in Seq(Nodes)
  BY <1>1, SchemaAssumption
<1>3. Len(s.inner) \in Nat /\ DOMAIN inner = 1 .. Len(s.inner)
  BY <1>2
<1>4. ~Repeats(v)
  BY DEF Visit, Failed
<1>5. v.path \in Seq(Nodes) /\ Len(v.path) \in Nat \ {0} /\ n = v.path[Len(v.path)]
  BY VisitFacts DEF NodeOf, Last
<1>6. n \in ReachableFrom(first)
  <2>1. Len(v.path) \in DOMAIN v.path
    BY VisitFacts
  <2> HIDE DEF n
  <2> QED BY <1>5, <2>1 DEF Clear, OnTheWay
<1>7. ASSUME s.combine = "allOf", NEW i \in DOMAIN inner, NEW j \in DOMAIN inner, i < j
      PROVE  DOMAIN inner[i].at \cap DOMAIN inner[j].at = {}
  <2>1. /\ ~(v.isXML /\ n # first)
        /\ Keys(s.inner[i], "", v.isXML) \cap Keys(s.inner[j], "", v.isXML) = {}
    BY <1>6, <1>7 DEF Clear, Overwrites
  <2>2. v.isXML => v.name = ""
    <3> SUFFICES ASSUME n = first, Len(v.path) # 1
                 PROVE  FALSE
      BY <2>1 DEF Clear
    <3> DEFINE k == Len(v.path)
    <3>1. k \in Nat \ {0} /\ k # 1
      BY <1>5
    <3> HIDE DEF k
    <3>2. 1 \in 1 .. k - 1
      BY <3>1
    <3> QED BY <1>4, <3>2 DEF Repeats, k
  <2>3. InnerName(v) = v.name
    BY <1>7 DEF InnerName
  <2>4. r = AllOf(inner)
    BY <1>4, <1>7 DEF Visit
  <2>5. FirstFailure(inner) = {}
    BY <1>3, <2>4, CombinationFails
  <2>6. inner[i].fails = {} /\ inner[j].fails = {}
    BY <1>3, <2>5, FirstFailureOf
  <2>7. ASSUME NEW m \in Nodes
        PROVE  Keys(m, v.name, v.isXML) = Keys(m, "", v.isXML)
    <3>1. CASE v.isXML
      BY <2>2, <3>1
    <3>2. CASE ~v.isXML
      <4>1. \A x : LeafKeys(x, v.name, v.isXML) = LeafKeys(x, "", v.isXML)
        BY <3>2 DEF LeafKeys
      <4> SUFFICES \A k : k \in Keys(m, v.name, v.isXML) <=> k \in Keys(m, "", v.isXML)
        OBVIOUS
      <4> QED BY <4>1 DEF Keys
    <3> QED BY <3>1, <3>2
  <2>8. s.inner[i] \in Nodes /\ s.inner[j] \in Nodes
    BY <1>2, <1>3
  <2> HIDE DEF r
  <2>9. /\ DOMAIN inner[i].at \subseteq Keys(s.inner[i], v.name, v.isXML)
        /\ DOMAIN inner[j].at \subseteq Keys(s.inner[j], v.name, v.isXML)
    BY <2>3, <2>6 DEF Allowed
  <2> QED BY <2>1, <2>7, <2>8, <2>9
<1>8. ASSUME v.isXML, s.combine = "none", s.type = "object",
             NEW p \in DOMAIN fields, NEW q \in DOMAIN fields, p # q
      PROVE  DOMAIN PropertyAt(fields[p], p, TRUE) \cap DOMAIN PropertyAt(fields[q], q, TRUE) = {}
  <2> DEFINE w == Value(v, inner, fields)
  <2>1. r = XmlWrapped(w, XmlName(n, v.name))
    BY <1>4, <1>8 DEF Visit
  <2>2. w = Object(fields, v.isXML)
    BY <1>8 DEF Value
  <2>3. w.fails = {}
    <3> HIDE DEF w, r
    <3> QED BY <2>1, WrappedFails DEF r
  <2> HIDE DEF w, r
  <2>4. \A x \in DOMAIN fields : fields[x].fails = {}
    BY <2>2, <2>3, ObjectIs
  <2>5. v.isXML = TRUE
    BY <1>1, <1>8
  <2>6. ASSUME NEW x \in DOMAIN fields
        PROVE  DOMAIN PropertyAt(fields[x], x, TRUE) \subseteq PropertyKeys(n, x)
    <3>1. Allowed(fields[x], s.props[x], x, TRUE)
      BY <2>5
    <3> QED BY <1>1, <2>4, <3>1, PropertyAllowed
  <2>7. PropertyKeys(n, p) \cap PropertyKeys(n, q) = {}
    BY <1>6, <1>8 DEF Clear, Overwrites
  <2> QED BY <2>6, <2>7
<1> QED BY <1>7, <1>8 DEF Apart

\* In such a body no string that was found is lost.
LEMMA MapKeeps ==
  ASSUME NEW v \in Visits
  PROVE  Clear(v) => Kept(SchemaToMap[v])
<1> DEFINE G == {w \in Visits : Clear(w) => Kept(SchemaToMap[w])}
<1>1. ASSUME NEW w \in Visits, Repeats(w)
      PROVE  w \in G
  <2>1. SchemaToMap[w] = Failed({"panic"})
    BY <1>1, MapEquation DEF Visit
  <2>2. SchemaToMap[w].fails # {}
    BY <2>1 DEF Failed
  <2> QED BY <2>2 DEF Kept
<1>2. ASSUME NEW w \in Visits, \A n \in Nodes, name \in Names : To(w, n, name) \in G
      PROVE  w \in G
  <2> SUFFICES ASSUME Clear(w)
               PROVE  Kept(SchemaToMap[w])
    OBVIOUS
  <2> DEFINE s == Schema[NodeOf(w)]
             inner == InnerOf(SchemaToMap, w)
             fields == FieldsOf(SchemaToMap, w)
  <2>1. ASSUME NEW n \in Nodes, NEW name \in Names, n \in References(NodeOf(w))
        PROVE  Kept(SchemaToMap[To(w, n, name)])
    <3> DEFINE u == To(w, n, name)
    <3>1. u \in G
      BY <1>2
    <3>2. u.path = Append(w.path, n) /\ u.isXML = w.isXML
      BY ToFacts
    <3>3. w.path \in Seq(Nodes) /\ w.path # <<>> /\ Len(w.path) \in Nat \ {0}
      BY VisitFacts
    <3>4. OnTheWay(Append(w.path, n))
      BY <2>1, <3>3, WayGoesOn DEF NodeOf, Clear
    <3>5. Append(w.path, n)[1] = w.path[1] /\ Len(Append(w.path, n)) # 1
      BY <3>3
    <3> HIDE DEF u
    <3>6. Clear(u)
      BY <3>2, <3>4, <3>5 DEF Clear
    <3>7. Kept(SchemaToMap[u])
      BY <3>1, <3>6
    <3> QED BY <3>7 DEF u
  <2>2. InnerName(w) \in Names /\ NodeOf(w) \in Nodes
    BY VisitFacts
  <2>3. DOMAIN inner = DOMAIN s.inner /\ DOMAIN fields = DOMAIN s.props
    BY SubVisits
  <2>4. ASSUME NEW i \in DOMAIN inner
        PROVE  /\ inner[i].fails = {} => IsFiniteSet(DOMAIN inner[i].spec)
               /\ s.inner[i] \in References(NodeOf(w)) => Kept(inner[i])
               /\ Allowed(inner[i], s.inner[i], InnerName(w), w.isXML)
    <3> DEFINE n == s.inner[i]
               u == To(w, n, InnerName(w))
    <3>1. inner[i] = SchemaToMap[u] /\ n \in Nodes
      BY <2>3, SubVisits
    <3>2. u \in Visits /\ NodeOf(u) = n /\ u.name = InnerName(w) /\ u.isXML = w.isXML
      BY <2>2, <3>1, ToFacts
    <3>3. n \in References(NodeOf(w)) => Kept(SchemaToMap[u])
      BY <2>1, <2>2, <3>1
    <3>4. Allowed(SchemaToMap[u], NodeOf(u), u.name, u.isXML)
      BY <3>2, MapAllowed
    <3>5. SchemaToMap[u].fails = {} => IsFiniteSet(DOMAIN SchemaToMap[u].spec)
      BY <3>2, MapFinds DEF StringsFound
    <3> HIDE DEF u, inner
    <3> QED BY <3>1, <3>2, <3>3, <3>4, <3>5
  <2>5. ASSUME NEW p \in DOMAIN fields
        PROVE  /\ s.props[p] \in References(NodeOf(w)) => Kept(fields[p])
               /\ Allowed(fields[p], s.props[p], p, w.isXML)
    <3> DEFINE n == s.props[p]
               u == To(w, n, p)
    <3>1. fields[p] = SchemaToMap[u] /\ n \in Nodes /\ p \in Names
      BY <2>3, SubVisits
    <3>2. u \in Visits /\ NodeOf(u) = n /\ u.name = p /\ u.isXML = w.isXML
      BY <3>1, ToFacts
    <3>3. n \in References(NodeOf(w)) => Kept(SchemaToMap[u])
      BY <2>1, <3>1
    <3>4. Allowed(SchemaToMap[u], NodeOf(u), u.name, u.isXML)
      BY <3>2, MapAllowed
    <3> HIDE DEF u, fields
    <3> QED BY <3>1, <3>2, <3>3, <3>4
  <2>6. SchemaToMap[w] = Visit(w, inner, fields)
    BY MapEquation
  <2> HIDE DEF inner, fields
  <2>7. Visit(w, inner, fields).fails = {} => Apart(w, inner, fields)
    BY <2>3, <2>4, <2>5, ClearIsApart
  <2>8. Kept(Visit(w, inner, fields))
    BY <2>3, <2>4, <2>5, <2>7, VisitKeeps
  <2> QED BY <2>6, <2>8
<1> HIDE DEF G
<1>3. \A w \in Visits : w \in G
  BY <1>1, <1>2, VisitInduction
<1> QED BY <1>3 DEF G

\* What that is for the visit of a body: its limits are of strings of the schema, and its
\* strings are in it.
LEMMA VisitingKeeps ==
  ASSUME NEW n \in Nodes, NEW isXML \in BOOLEAN
  PROVE  /\ Visited(n, isXML).fails = {} => Origins(Visited(n, isXML), n)
         /\ ~Overwrites(n, isXML) => Kept(Visited(n, isXML))
<1> DEFINE v == Start(n, isXML)
<1>1. v.path = <<n>> /\ v \in Visits /\ v.name = "" /\ v.isXML = isXML
  <2>1. <<n>> \in Seq(Nodes) \ {<<>>}
    OBVIOUS
  <2>2. "" \in Names
    BY NamesHas
  <2> QED BY <2>1, <2>2 DEF Start, Visits
<1>2. Visited(n, isXML) = SchemaToMap[v]
  BY DEF Visited, SchemaMaps
<1> HIDE DEF v
<1>3. NodeOf(v) = n /\ v.path[1] = n /\ DOMAIN v.path = {1}
  <2>1. v.path = <<n>>
    BY <1>1
  <2> QED BY <2>1 DEF NodeOf, Last
<1>4. OnTheWay(v.path)
  <2>1. n \in ReachableFrom(n)
    BY ReachableClosed
  <2> QED BY <1>3, <2>1 DEF OnTheWay
<1>5. ~Overwrites(n, isXML) => Clear(v)
  BY <1>1, <1>3, <1>4 DEF Clear
<1>6. Allowed(SchemaToMap[v], n, v.name, v.isXML)
  BY <1>1, <1>3, MapAllowed
<1> QED BY <1>1, <1>2, <1>5, <1>6, MapKeeps DEF Allowed

-----------------------------------------------------------------------------
(* A payload that fits is carried.                                         *)

\* A parameter or field with the limits of a schema.
IsLimited(r, n) == r.min = Schema[n].min /\ r.max = Schema[n].max

\* Whatever its place, a parameter is parsed with the limits of its schema.
LEMMA ParameterLimits ==
  ASSUME NEW p, p.in \in Places, p.node \in Nodes
  PROVE  IsLimited(Parameter(p), p.node)
<1> DEFINE n == p.node
           type == Schema[n].type
<1>1. \A t : IsLimited(Scalar(n, t), n)
  BY DEF Scalar, Spec_, IsLimited
<1>2. IsLimited(Unsupported(n), n)
  BY DEF Unsupported, Spec_, IsLimited
<1>3. IsLimited(ObjectParameter(n), n)
  BY DEF ObjectParameter, Spec_, IsLimited
<1>4. type \in Types
  BY SchemaAssumption
<1>5. IsLimited(Spec_(n, "", {"panic"}), n) /\ IsLimited(Spec_(n, type, {}), n)
  BY DEF Spec_, IsLimited
<1>6. IsLimited(ArrayParameter(n), n)
  BY <1>1, <1>2, <1>5 DEF ArrayParameter
<1>7. CASE p.in = "path"
  <2>1. Parameter(p) = PathParameter(p)
    BY <1>7 DEF Parameter
  <2> QED BY <1>1, <1>2, <1>5, <2>1 DEF PathParameter
<1>8. CASE p.in = "query"
  <2>1. Parameter(p) = QueryParameter(p)
    BY <1>8 DEF Parameter
  <2>2. CASE p.badStyle \/ p.from = "other"
    BY <1>2, <2>1, <2>2 DEF QueryParameter
  <2>3. CASE ~(p.badStyle \/ p.from = "other")
    <3>1. CASE type \in Scalars
      <4>1. QueryParameter(p) = Scalar(n, type)
        BY <2>3, <3>1 DEF QueryParameter, Scalars, Numbers
      <4> QED BY <1>1, <2>1, <4>1
    <3>2. CASE type = "array"
      BY <1>6, <2>1, <2>3, <3>2 DEF QueryParameter, Scalars, Numbers
    <3>3. CASE type = "object"
      BY <1>3, <2>1, <2>3, <3>3 DEF QueryParameter, Scalars, Numbers
    <3>4. CASE type = "boolean"
      BY <1>5, <2>1, <2>3, <3>4 DEF QueryParameter, Scalars, Numbers
    <3>5. CASE type = "none"
      BY <1>2, <2>1, <2>3, <3>5 DEF QueryParameter, Scalars, Numbers
    <3> QED BY <1>4, <3>1, <3>2, <3>3, <3>4, <3>5 DEF Types, Scalars, Numbers
  <2> QED BY <2>2, <2>3
<1>9. CASE p.in = "header"
  <2>1. Parameter(p) = HeaderParameter(p)
    BY <1>9 DEF Parameter
  <2>2. CASE p.badStyle \/ p.from = "other"
    BY <1>2, <2>1, <2>2 DEF HeaderParameter
  <2>3. CASE ~(p.badStyle \/ p.from = "other")
    <3>1. CASE type \in Scalars
      <4>1. HeaderParameter(p) = Scalar(n, type)
        BY <2>3, <3>1 DEF HeaderParameter, Scalars, Numbers
      <4> QED BY <1>1, <2>1, <4>1
    <3>2. CASE type = "object"
      <4> DEFINE r == ObjectParameter(n)
                 fails == IF r.fails = {} /\ p.from = "schema" THEN {"error"} ELSE r.fails
      <4>1. HeaderParameter(p) = [r EXCEPT !.fails = fails]
        BY <2>3, <3>2 DEF HeaderParameter, Scalars, Numbers
      <4>2. [r EXCEPT !.fails = fails].min = r.min /\ [r EXCEPT !.fails = fails].max = r.max
        <5>1. "min" \in DOMAIN r /\ "max" \in DOMAIN r
          BY DEF ObjectParameter, Spec_
        <5> HIDE DEF r, fails
        <5> QED BY <5>1
      <4>3. IsLimited(r, n)
        BY <1>3
      <4> HIDE DEF r, fails
      <4> QED BY <2>1, <4>1, <4>2, <4>3 DEF IsLimited
    <3>3. CASE type \in {"array", "boolean", "none"}
      BY <1>2, <2>1, <2>3, <3>3 DEF HeaderParameter, Scalars, Numbers
    <3> QED BY <1>4, <3>1, <3>2, <3>3 DEF Types, Scalars, Numbers
  <2> QED BY <2>2, <2>3
<1>10. CASE p.in = "cookie"
  BY <1>2, <1>10 DEF Parameter
<1> QED BY <1>7, <1>8, <1>9, <1>10 DEF Places


\* Each parameter of an operation was parsed, and is a field of its template with its
\* type and limits.
HasParameters(t, op) ==
  \A j \in DOMAIN op.params :
    LET p == op.params[j]
    IN  /\ Parameter(p).fails = {}
        /\ p.in # "cookie" =>
             /\ <<p.in, p.name>> \in DOMAIN t.params[p.in]
             /\ t.params[p.in][<<p.in, p.name>>].type = Parameter(p).type
             /\ IsLimited(t.params[p.in][<<p.in, p.name>>], p.node)

\* AddTemplate keeps the parameters, for no two in a place have the same name.
LEMMA TemplateParameters ==
  ASSUME TypeInv, InsideDocument, ParsedSoFar, AtOperation, params # None, NEW t,
         t.params = [place \in Places \ {"cookie"} |-> ParametersIn(place)]
  PROVE  HasParameters(t, Operation)
<1> DEFINE op == Operation
<1>1. path \in DOMAIN doc /\ Method \in DOMAIN doc[path] /\ doc \in Documents
  BY AtOperationIs DEF TypeInv, OperationThere, TypeOK
<1>2. \A i \in DOMAIN op.params : op.params[i].in \in Places /\ op.params[i].node \in Nodes
  BY <1>1, OperationIs DEF Operation
<1>3. \A i, j \in DOMAIN op.params :
        op.params[i].in = op.params[j].in /\ op.params[i].name = op.params[j].name => i = j
  BY <1>1, DocumentsAssumption DEF Operation, Distinct
<1>4. /\ DOMAIN params = DOMAIN op.params
      /\ \A i \in DOMAIN op.params : params[i] = Parameter(op.params[i]) /\ params[i].fails = {}
  BY DEF ParsedSoFar
<1> SUFFICES ASSUME NEW j \in DOMAIN op.params, op.params[j].in # "cookie"
             PROVE  LET p == op.params[j]
                        l == t.params[p.in][<<p.in, p.name>>]
                    IN  /\ <<p.in, p.name>> \in DOMAIN t.params[p.in]
                        /\ l.type = Parameter(p).type /\ IsLimited(l, p.node)
  BY <1>4 DEF HasParameters
<1> DEFINE place == op.params[j].in
           name == op.params[j].name
           at == {i \in DOMAIN params : op.params[i].in = place}
           index(f) == CHOOSE i \in at : op.params[i].name = f[2]
           fields == [f \in {<<place, op.params[i].name>> : i \in at} |->
                        [type |-> params[index(f)].type, min |-> params[index(f)].min,
                         max |-> params[index(f)].max]]
           g == <<place, name>>
<1>5. t.params[place] = fields
  <2>1. place \in Places \ {"cookie"}
    BY <1>2
  <2>2. t.params[place] = ParametersIn(place)
    <3> HIDE DEF place
    <3> QED BY <2>1
  <2> HIDE DEF place
  <2> QED BY <2>2 DEF ParametersIn
<1>6. g \in DOMAIN fields
  <2>1. j \in at
    BY <1>4
  <2> HIDE DEF at, place
  <2> QED BY <2>1
<1>7. index(g) = j
  <2>1. j \in at /\ op.params[j].name = name /\ g[2] = name
    BY <1>4
  <2>2. \A i \in at : op.params[i].name = name => i = j
    BY <1>3, <1>4
  <2> HIDE DEF at, g, name
  <2> QED BY <2>1, <2>2
<1>8. fields[g] = [type |-> params[index(g)].type, min |-> params[index(g)].min,
                   max |-> params[index(g)].max]
  <2> HIDE DEF at, g, place, index
  <2> QED BY <1>6
<1> HIDE DEF index, fields
<1>9. /\ fields[g].type = params[j].type /\ fields[g].min = params[j].min
      /\ fields[g].max = params[j].max
  BY <1>7, <1>8
<1>10. IsLimited(params[j], op.params[j].node)
  BY <1>2, <1>4, ParameterLimits
<1>11. params[j] = Parameter(op.params[j])
  BY <1>4
<1> HIDE DEF op
<1> QED BY <1>5, <1>6, <1>9, <1>10, <1>11 DEF IsLimited

\* A body with a string holds, where the requests of its content type look for it, a
\* field with the limits of a string of a schema used the same way.
IsField(op, ct, f, l) ==
  /\ f \in DOMAIN l /\ f[1] \in DOMAIN op.bodies /\ BodyKey(f[1]) = BodyKey(ct)
  /\ l[f].type = "string"
  /\ \E m \in ReachableFrom(op.bodies[f[1]]) : IsString(m) /\ IsLimited(l[f], m)

HasFields(op, ct, b, l) ==
  HasString(op.bodies[ct]) /\ ~Overwrites(op.bodies[ct], ct = "xml") =>
    BodyKey(ct) \in DOMAIN b /\ \E f \in b[BodyKey(ct)] : IsField(op, ct, f, l)

BodySoFar ==
  params # None =>
    \A ct \in DOMAIN Operation.bodies \ contents : HasFields(Operation, ct, body, limits)

Holds(t, op) ==
  HasParameters(t, op) /\ \A ct \in DOMAIN op.bodies : HasFields(op, ct, t.body, t.limits)

TemplatesHold ==
  \A i \in DOMAIN templates :
    Holds(templates[i], doc[templates[i].path][templates[i].method])

CarryInv == OfferInv /\ BodySoFar /\ TemplatesHold /\ FittingPayloadIsCarried

\* The visit of a content type keeps the fields there are, and makes one if the
\* schema has a string.
LEMMA BodyStep ==
  ASSUME CarryInv, NEW ct \in contents, ParseBody(ct)
  PROVE  BodySoFar'
<1> DEFINE n == Operation.bodies[ct]
           plain == Visited(n, FALSE)
           xml == Visited(n, TRUE)
           r == IF ct = "xml" THEN xml ELSE plain
           new == [f \in {<<ct, ph>> : ph \in DOMAIN r.spec} |->
                     [type |-> "string", min |-> r.spec[f[2]].min, max |-> r.spec[f[2]].max]]
           entry(strings) == Entry(BodyKey(ct), {<<ct, ph>> : ph \in strings})
<1>1. /\ AtOperation /\ params # None /\ n # None /\ TypeInv /\ InsideDocument
      /\ ct \in DOMAIN Operation.bodies
  BY DEF ParseBody, AtOperation, CarryInv, OfferInv, InsideDocument
<1>2. Method \in DOMAIN doc[path] /\ path \in DOMAIN doc /\ doc \in Documents
  BY <1>1 DEF TypeInv, OperationThere, TypeOK, AtOperation
<1>3. n \in Nodes /\ DOMAIN Operation.bodies \subseteq ContentTypes
  BY <1>1, <1>2, OperationAt, OperationIs DEF Operation
<1>4. Operation' = Operation
  BY DEF ParseBody, Dies, Operation, Method, NextMethod, opVars
<1>5. CASE UNCHANGED <<params, contents, body, limits>>
  BY <1>4, <1>5 DEF CarryInv, BodySoFar
<1>6. ASSUME ~UNCHANGED <<params, contents, body, limits>>
      PROVE  /\ BodyFails(ct, plain, xml) = {}
             /\ limits' = Over(new, limits)
             /\ contents' = contents \ {ct} /\ params' = params
             /\ IF Strings(ct, r) = {} THEN body' = body
                ELSE \E strings \in Strings(ct, r) : body' = Over(entry(strings), body)
  BY <1>6 DEF ParseBody, Dies, opVars
<1>7. /\ r.fails = {} => Origins(r, n)
      /\ ~Overwrites(n, ct = "xml") => Kept(r)
      /\ StringsFound(r, n)
  <2>1. /\ plain.fails = {} => Origins(plain, n)
        /\ ~Overwrites(n, FALSE) => Kept(plain)
        /\ StringsFound(plain, n)
    BY <1>3, VisitingKeeps, Visiting
  <2>2. /\ xml.fails = {} => Origins(xml, n)
        /\ ~Overwrites(n, TRUE) => Kept(xml)
        /\ StringsFound(xml, n)
    BY <1>3, VisitingKeeps, Visiting
  <2>3. CASE ct = "xml"
    <3>1. r = xml /\ (ct = "xml") = TRUE
      BY <2>3
    <3> HIDE DEF r, xml, n
    <3> QED BY <2>2, <3>1
  <2>4. CASE ct # "xml"
    <3>1. r = plain /\ (ct = "xml") = FALSE
      BY <2>4
    <3> HIDE DEF r, plain, n
    <3> QED BY <2>1, <3>1
  <2> QED BY <2>3, <2>4
<1>8. CASE ~UNCHANGED <<params, contents, body, limits>>
  <2>1. r.fails = {}
    <3> HIDE DEF n, plain, xml
    <3> QED BY <1>6, <1>8 DEF BodyFails
  <2>2. /\ DOMAIN new = {<<ct, ph>> : ph \in DOMAIN r.spec}
        /\ \A ph \in DOMAIN r.spec :
             /\ <<ct, ph>> \in DOMAIN new
             /\ new[<<ct, ph>>].type = "string"
             /\ new[<<ct, ph>>].min = r.spec[ph].min /\ new[<<ct, ph>>].max = r.spec[ph].max
    <3> HIDE DEF r
    <3>1. DOMAIN new = {<<ct, ph>> : ph \in DOMAIN r.spec}
      OBVIOUS
    <3>2. ASSUME NEW ph \in DOMAIN r.spec
          PROVE  /\ <<ct, ph>> \in DOMAIN new
                 /\ new[<<ct, ph>>].type = "string"
                 /\ new[<<ct, ph>>].min = r.spec[ph].min /\ new[<<ct, ph>>].max = r.spec[ph].max
      <4> DEFINE g == <<ct, ph>>
                 l == [type |-> "string", min |-> r.spec[ph].min, max |-> r.spec[ph].max]
      <4>1. g \in DOMAIN new /\ new[g] = l
        OBVIOUS
      <4>2. l.type = "string" /\ l.min = r.spec[ph].min /\ l.max = r.spec[ph].max
        OBVIOUS
      <4> HIDE DEF new, l, g
      <4>3. /\ g \in DOMAIN new /\ new[g].type = "string"
            /\ new[g].min = r.spec[ph].min /\ new[g].max = r.spec[ph].max
        BY <4>1, <4>2
      <4> QED BY <4>3 DEF g
    <3> HIDE DEF new
    <3> QED BY <3>1, <3>2
  <2> HIDE DEF new, plain, xml, r
  <2>3. limits' = Over(new, limits)
    BY <1>6, <1>8
  <2>4. \A f \in DOMAIN limits : f[1] \in DOMAIN Operation.bodies \ contents
    BY <1>1 DEF CarryInv, OfferInv, ParsedSoFar
  <2>5. \A f \in DOMAIN limits : f \in DOMAIN limits' /\ limits'[f] = limits[f]
    <3> SUFFICES ASSUME NEW f \in DOMAIN limits
                 PROVE  f \in DOMAIN limits' /\ limits'[f] = limits[f]
      OBVIOUS
    <3>1. f \notin DOMAIN new
      <4> SUFFICES ASSUME NEW ph \in DOMAIN r.spec, f = <<ct, ph>>
                   PROVE  FALSE
        BY <2>2
      <4>1. f[1] = ct
        OBVIOUS
      <4> QED BY <2>4, <4>1
    <3> QED BY <2>3, <3>1 DEF Over
  <2>6. ASSUME NEW ph \in DOMAIN r.spec, NEW c, BodyKey(c) = BodyKey(ct)
        PROVE  IsField(Operation, c, <<ct, ph>>, limits')
    <3>1. PICK m \in ReachableFrom(n) : IsOrigin(m, r.spec[ph])
      BY <1>7, <2>1 DEF Origins
    <3>2. limits'[<<ct, ph>>] = new[<<ct, ph>>] /\ <<ct, ph>> \in DOMAIN limits'
      BY <2>2, <2>3 DEF Over
    <3>3. IsString(m) /\ r.spec[ph].min = Schema[m].min /\ r.spec[ph].max = Schema[m].max
      BY <3>1 DEF IsOrigin
    <3>4. IsLimited(limits'[<<ct, ph>>], m)
      BY <2>2, <3>2, <3>3 DEF IsLimited
    <3>5. <<ct, ph>>[1] = ct
      OBVIOUS
    <3> QED BY <1>1, <2>2, <2>6, <3>1, <3>2, <3>3, <3>4, <3>5 DEF IsField
  <2>7. ASSUME NEW c \in DOMAIN Operation.bodies, NEW f, IsField(Operation, c, f, limits)
        PROVE  IsField(Operation, c, f, limits')
    BY <2>5, <2>7 DEF IsField
  <2>8. ASSUME NEW strings, body' = Over(entry(strings), body)
        PROVE  /\ BodyKey(ct) \in DOMAIN body'
               /\ body'[BodyKey(ct)] = {<<ct, ph>> : ph \in strings}
               /\ \A k \in DOMAIN body : k # BodyKey(ct) =>
                    k \in DOMAIN body' /\ body'[k] = body[k]
    <3> DEFINE e == entry(strings)
    <3>1. DOMAIN e = {BodyKey(ct)} /\ e[BodyKey(ct)] = {<<ct, ph>> : ph \in strings}
      BY DEF Entry
    <3> HIDE DEF e
    <3>2. body' = Over(e, body)
      BY <2>8 DEF e
    <3> QED BY <3>1, <3>2 DEF Over
  <2>9. \A ph \in DOMAIN r.spec : BodyKey(ct) = "plain" => {ph} \in Strings(ct, r)
    BY DEF Strings
  <2>10. BodyKey(ct) # "plain" => Strings(ct, r) = {InBody(r)}
    BY DEF Strings
  <2>11. BodyKey(ct) = "plain" => \A strings \in Strings(ct, r) :
           \E ph \in DOMAIN r.spec : strings = {ph}
    BY DEF Strings
  <2> HIDE DEF entry
  <2>12. Strings(ct, r) # {} => \E strings \in Strings(ct, r) : body' = Over(entry(strings), body)
    BY <1>6, <1>8
  <2>13. Strings(ct, r) = {} => body' = body
    BY <1>6, <1>8
  <2>14. ASSUME HasString(n), ~Overwrites(n, ct = "xml")
         PROVE  /\ BodyKey(ct) \in DOMAIN body'
                /\ \E f \in body'[BodyKey(ct)] : IsField(Operation, ct, f, limits')
    <3>1. PICK ph \in DOMAIN r.spec : TRUE
      BY <1>7, <2>1, <2>14 DEF StringsFound
    <3>2. CASE BodyKey(ct) = "plain"
      <4>1. PICK strings \in Strings(ct, r) : body' = Over(entry(strings), body)
        BY <2>9, <2>12, <3>1, <3>2
      <4>2. PICK x \in DOMAIN r.spec : strings = {x}
        BY <2>11, <3>2, <4>1
      <4>3. x \in strings
        BY <4>2
      <4>4. <<ct, x>> \in body'[BodyKey(ct)] /\ BodyKey(ct) \in DOMAIN body'
        BY <2>8, <4>1, <4>3
      <4> QED BY <2>6, <4>4
    <3>3. CASE BodyKey(ct) # "plain"
      <4>1. body' = Over(entry(InBody(r)), body)
        BY <2>10, <2>12, <3>3
      <4>2. ph \in InBody(r)
        BY <1>7, <2>1, <2>14, <3>1 DEF Kept
      <4>3. <<ct, ph>> \in body'[BodyKey(ct)] /\ BodyKey(ct) \in DOMAIN body'
        BY <2>8, <4>1, <4>2
      <4> QED BY <2>6, <4>3
    <3> QED BY <3>2, <3>3
  <2>15. ASSUME NEW c \in DOMAIN Operation.bodies \ contents', c # ct,
                HasString(Operation.bodies[c]), ~Overwrites(Operation.bodies[c], c = "xml")
         PROVE  /\ BodyKey(c) \in DOMAIN body'
                /\ \E f \in body'[BodyKey(c)] : IsField(Operation, c, f, limits')
    <3>1. c \in DOMAIN Operation.bodies \ contents
      BY <1>6, <1>8, <2>15
    <3>2. HasFields(Operation, c, body, limits)
      BY <1>1, <3>1 DEF CarryInv, BodySoFar
    <3>3. PICK f \in body[BodyKey(c)] : IsField(Operation, c, f, limits)
      BY <2>15, <3>2 DEF HasFields
    <3>4. BodyKey(c) \in DOMAIN body /\ IsField(Operation, c, f, limits')
      BY <2>7, <2>15, <3>2, <3>3 DEF HasFields
    <3>5. CASE Strings(ct, r) = {}
      BY <2>13, <3>3, <3>4, <3>5
    <3>6. CASE Strings(ct, r) # {}
      <4>1. PICK strings \in Strings(ct, r) : body' = Over(entry(strings), body)
        BY <2>12, <3>6
      <4>2. CASE BodyKey(c) # BodyKey(ct)
        BY <2>8, <3>3, <3>4, <4>1, <4>2
      <4>3. CASE BodyKey(c) = BodyKey(ct)
        <5>1. BodyKey(ct) = "plain"
          BY <2>15, <4>3 DEF BodyKey
        <5>2. PICK x \in DOMAIN r.spec : strings = {x}
          BY <2>11, <4>1, <5>1
        <5>3. x \in strings
          BY <5>2
        <5>4. <<ct, x>> \in body'[BodyKey(c)] /\ BodyKey(c) \in DOMAIN body'
          BY <2>8, <4>1, <4>3, <5>3
        <5> QED BY <2>6, <4>3, <5>4
      <4> QED BY <4>2, <4>3
    <3> QED BY <3>5, <3>6
  <2>16. ASSUME NEW c \in DOMAIN Operation.bodies \ contents'
         PROVE  HasFields(Operation, c, body', limits')
    <3>1. CASE c = ct
      BY <2>14, <3>1 DEF HasFields
    <3>2. CASE c # ct
      BY <2>15, <2>16, <3>2 DEF HasFields
    <3> QED BY <3>1, <3>2
  <2> QED BY <1>4, <2>16 DEF BodySoFar
<1> QED BY <1>5, <1>8

\* A request for a placeholder carries every payload that fits the strings there.
LEMMA RequestCarries ==
  ASSUME CarryInv, NEW ph \in Placeholders, NEW length \in Lengths, NEW i \in DOMAIN templates,
         CreateRequest(ph, i, length)
  PROVE  FittingPayloadIsCarried'
<1> DEFINE t == templates[i]
           op == doc[t.path][t.method]
           F == FieldsFor(t, ph)
<1>1. /\ ph \in t.placeholders /\ doc' = doc
      /\ request'.path = t.path /\ request'.method = t.method
      /\ request'.placeholder = ph /\ request'.length = length
      /\ request'.fields = Filled(F, length)
  BY DEF CreateRequest, TemplatesFor
<1>2. Serves(t, op) /\ Holds(t, op)
  BY DEF CarryInv, OfferInv, TemplatesServe, TemplatesHold
<1>3. doc \in Documents /\ t.path \in DOMAIN doc /\ t.method \in DOMAIN doc[t.path]
  BY DEF CarryInv, OfferInv, TypeInv, TypeOK
<1>4. /\ DOMAIN op.bodies \subseteq ContentTypes
      /\ \A ct \in DOMAIN op.bodies : op.bodies[ct] \in Nodes \cup {None}
      /\ \A j \in DOMAIN op.params : op.params[j].in \in Places /\ op.params[j].node \in Nodes
  BY <1>3, OperationIs
<1>5. StringsFor(op, ph) # {}
  BY <1>1, <1>2 DEF Serves
<1> SUFFICES ASSUME \A n \in StringsFor(op, ph) : Schema[n].min <= length /\ length <= Schema[n].max,
                    \A ct \in ContentTypeOf(ph) \cap DOMAIN op.bodies :
                      ~Overwrites(op.bodies[ct], ct = "xml")
             PROVE  \E f \in DOMAIN Filled(F, length) : Filled(F, length)[f] = "payload"
  <2> HIDE DEF t, F
  <2> QED BY <1>1 DEF FittingPayloadIsCarried, Carries, op
<1>6. SUFFICES \E f \in DOMAIN F : Fits(F[f], length)
  <2> HIDE DEF F
  <2> QED BY DEF Filled
<1> HIDE DEF t, op
<1>7. CASE ph \in ParameterPlaceholders
  <2>1. PICK j \in DOMAIN op.params :
          /\ op.params[j].in # "cookie" /\ PlaceholderOf(op.params[j].in) = ph
          /\ \/ Schema[op.params[j].node].type = "string"
             \/ Schema[op.params[j].node].type = "array"
                /\ Schema[Schema[op.params[j].node].inner[1]].type = "string"
    BY <1>4, <1>5, <1>7, StringsAre
  <2> DEFINE p == op.params[j]
             g == <<p.in, p.name>>
  <2>2. /\ g \in DOMAIN t.params[p.in] /\ t.params[p.in][g].type = Parameter(p).type
        /\ IsLimited(t.params[p.in][g], p.node)
    BY <1>2, <2>1 DEF Holds, HasParameters
  <2>3. F = t.params[p.in]
    BY <1>4, <2>1 DEF FieldsFor, PlaceholderOf, Places
  <2>4. Parameter(p).type = "string"
    <3>1. p.in \in Places /\ p.node \in Nodes /\ Parameter(p).fails = {}
      BY <1>2, <1>4 DEF Holds, HasParameters
    <3> HIDE DEF p
    <3> QED BY <2>1, <3>1, StringParameters DEF p
  <2>5. p.node \in StringsFor(op, ph)
    <3> DEFINE J == {x \in DOMAIN op.params :
                       LET q == op.params[x]
                           s == Schema[q.node]
                       IN  /\ q.in # "cookie" /\ PlaceholderOf(q.in) = ph
                           /\ \/ s.type = "string"
                              \/ s.type = "array" /\ Schema[s.inner[1]].type = "string"}
    <3>1. j \in J
      BY <2>1
    <3>2. \E place \in Places \ {"cookie"} : PlaceholderOf(place) = ph
      BY <1>4, <2>1
    <3>3. StringsFor(op, ph) = {q.node : q \in {op.params[x] : x \in J}}
      BY <3>2 DEF StringsFor
    <3> HIDE DEF J
    <3> QED BY <3>1, <3>3
  <2> HIDE DEF F, p, g
  <2> QED BY <2>2, <2>3, <2>4, <2>5 DEF Fits, IsLimited
<1>8. CASE ph \notin ParameterPlaceholders
  <2>1. PICK ct \in DOMAIN op.bodies :
          ct \in ContentTypes /\ ph \in BodyPlaceholders(ct) /\ HasString(op.bodies[ct])
    BY <1>4, <1>5, <1>8, StringsAre
  <2>2. ct \in ContentTypeOf(ph)
    BY <2>1 DEF ContentTypeOf
  <2>3. PICK f \in t.body[BodyKey(ct)] : IsField(op, ct, f, t.limits)
    BY <1>2, <2>1, <2>2 DEF Holds, HasFields
  <2>4. BodyKey(ct) \in DOMAIN t.body
    BY <1>2, <2>1, <2>2 DEF Holds, HasFields
  <2>5. F = BodyOf(t, BodyKey(ct))
    BY <2>1 DEF FieldsFor, BodyPlaceholders, BodyKey, ContentTypes
  <2>6. f \in DOMAIN F /\ F[f] = t.limits[f]
    <3> HIDE DEF F
    <3> QED BY <2>3, <2>4, <2>5 DEF BodyOf
  <2>7. PICK m \in ReachableFrom(op.bodies[f[1]]) : IsString(m) /\ IsLimited(t.limits[f], m)
    BY <2>3 DEF IsField
  <2>8. m \in StringsFor(op, ph)
    <3>1. f[1] \in DOMAIN op.bodies /\ BodyKey(f[1]) = BodyKey(ct) /\ f[1] \in ContentTypes
      BY <1>4, <2>3 DEF IsField
    <3>2. ph \in BodyPlaceholders(f[1])
      BY <2>1, <3>1 DEF BodyPlaceholders, BodyKey, ContentTypes
    <3>3. f[1] \in ContentTypeOf(ph)
      BY <3>1, <3>2 DEF ContentTypeOf
    <3>4. \A place \in Places \ {"cookie"} : PlaceholderOf(place) # ph
      BY <1>8 DEF Places, PlaceholderOf, ParameterPlaceholders
    <3> QED BY <2>7, <3>1, <3>3, <3>4 DEF StringsFor
  <2> HIDE DEF F
  <2> QED BY <2>3, <2>6, <2>7, <2>8 DEF Fits, IsLimited, IsField
<1> QED BY <1>7, <1>8

\* The template that is added has the parameters and fields of its operation.
LEMMA CarryTemplate ==
  ASSUME CarryInv, AddTemplate
  PROVE  TemplatesHold'
<1>1. /\ AtOperation /\ params # None /\ contents = {} /\ doc' = doc
      /\ TypeInv /\ InsideDocument /\ ParsedSoFar
  BY DEF AddTemplate, CarryInv, OfferInv
<1>2. PICK t : /\ templates' = Append(templates, t)
               /\ t.path = path /\ t.method = Method
               /\ t.params = [place \in Places \ {"cookie"} |-> ParametersIn(place)]
               /\ t.body = body /\ t.limits = limits
  BY NewTemplate
<1>3. PICK S : templates \in Seq(S)
  BY <1>1 DEF TypeInv, ParsedInv, TemplatesAreListed
<1>4. \A i \in DOMAIN templates' :
        templates'[i] = t \/ (i \in DOMAIN templates /\ templates'[i] = templates[i])
  <2>1. Len(templates) \in Nat /\ DOMAIN templates = 1 .. Len(templates)
    BY <1>3
  <2>2. DOMAIN templates' = 1 .. Len(templates) + 1 /\ templates'[Len(templates) + 1] = t
    BY <1>2, <1>3
  <2>3. \A i \in 1 .. Len(templates) : templates'[i] = templates[i]
    BY <1>2, <1>3
  <2> QED BY <2>1, <2>2, <2>3
<1>5. HasParameters(t, Operation)
  BY <1>1, <1>2, TemplateParameters
<1>6. \A ct \in DOMAIN Operation.bodies : HasFields(Operation, ct, t.body, t.limits)
  BY <1>1, <1>2 DEF CarryInv, BodySoFar
<1>7. Holds(t, doc[t.path][t.method])
  BY <1>2, <1>5, <1>6 DEF Holds, Operation
<1> QED BY <1>1, <1>4, <1>7 DEF CarryInv, TemplatesHold

\* Every step keeps the invariant.
LEMMA CarryStep ==
  ASSUME CarryInv, [Next]_vars
  PROVE  CarryInv'
<1>1. OfferInv'
  BY OfferStep DEF CarryInv
<1>2. ASSUME UNCHANGED <<doc, path, methods, params, contents, body, limits>>
      PROVE  BodySoFar'
  <2>1. Operation' = Operation
    BY <1>2 DEF Operation, Method, NextMethod
  <2> QED BY <1>2, <2>1 DEF CarryInv, BodySoFar
<1>3. ASSUME UNCHANGED <<doc, templates>>
      PROVE  TemplatesHold'
  BY <1>3 DEF CarryInv, TemplatesHold
<1>4. ASSUME UNCHANGED <<doc, request>>
      PROVE  FittingPayloadIsCarried'
  BY <1>4 DEF CarryInv, FittingPayloadIsCarried, Carries
<1>5. params # None => path # None /\ methods # {}
  BY DEF CarryInv, OfferInv, TypeInv, ParsedInv, ParamsOfOperation
<1>6. ASSUME NEW p \in paths, NextPath(p)
      PROVE  CarryInv'
  <2>1. params' = None
    BY <1>5, <1>6 DEF NextPath, opVars
  <2> QED BY <1>1, <1>3, <1>4, <1>6, <2>1 DEF CarryInv, NextPath, BodySoFar
<1>7. CASE ParseParameters
  <2>1. CASE UNCHANGED <<doc, path, methods, params, contents, body, limits, templates, request>>
    BY <1>1, <1>2, <1>3, <1>4, <2>1 DEF CarryInv
  <2>2. CASE /\ contents' = DOMAIN Operation.bodies
             /\ UNCHANGED <<doc, path, methods, templates, request>>
    <3>1. Operation' = Operation
      BY <2>2 DEF Operation, Method, NextMethod
    <3>2. BodySoFar'
      BY <2>2, <3>1 DEF BodySoFar
    <3> QED BY <1>1, <1>3, <1>4, <2>2, <3>2 DEF CarryInv
  <2> QED BY <1>7, <2>1, <2>2 DEF ParseParameters, Dies, opVars
<1>8. ASSUME NEW ct \in contents, ParseBody(ct)
      PROVE  CarryInv'
  <2>1. UNCHANGED <<doc, templates, request>>
    BY <1>8 DEF ParseBody, Dies
  <2> QED BY <1>1, <1>3, <1>4, <1>8, <2>1, BodyStep DEF CarryInv
<1>9. CASE AddTemplate
  <2>1. params' = None /\ UNCHANGED <<doc, request>>
    BY <1>9 DEF AddTemplate
  <2> QED BY <1>1, <1>4, <1>9, <2>1, CarryTemplate DEF CarryInv, BodySoFar
<1>10. CASE PathDone
  <2>1. params' = None /\ UNCHANGED <<doc, templates, request>>
    BY <1>5, <1>10 DEF PathDone, opVars
  <2> QED BY <1>1, <1>3, <1>4, <2>1 DEF CarryInv, BodySoFar
<1>11. CASE NilOperation \/ NilSchema \/ SortTemplates \/ UNCHANGED vars
  <2>1. UNCHANGED <<doc, path, methods, params, contents, body, limits, templates, request>>
    BY <1>11 DEF NilOperation, NilSchema, SortTemplates, Dies, vars, opVars
  <2> QED BY <1>1, <1>2, <1>3, <1>4, <2>1 DEF CarryInv
<1>12. ASSUME NEW i \in DOMAIN templates,
              \/ \E ph \in Placeholders, length \in Lengths : CreateRequest(ph, i, length)
              \/ CreateRequestFails(i)
       PROVE  CarryInv'
  <2>1. UNCHANGED <<doc, path, methods, params, contents, body, limits, templates>>
    BY <1>12 DEF CreateRequest, CreateRequestFails, opVars
  <2>2. FittingPayloadIsCarried'
    <3>1. CASE CreateRequestFails(i)
      BY <3>1 DEF CreateRequestFails, FittingPayloadIsCarried
    <3> QED BY <1>12, <3>1, RequestCarries
  <2> QED BY <1>1, <1>2, <1>3, <2>1, <2>2 DEF CarryInv
<1> QED BY <1>6, <1>7, <1>8, <1>9, <1>10, <1>11, <1>12 DEF Next, Terminated

\* Whatever the document, a payload that fits every string of the place it is meant for
\* is in the request CreateRequest makes, unless a key of the body is written twice.
THEOREM Carried == Spec => []FittingPayloadIsCarried
<1>1. Init => CarryInv
  <2> SUFFICES ASSUME Init
               PROVE  CarryInv
    OBVIOUS
  <2>1. DOMAIN templates = {}
    <3>1. templates = <<>>
      BY DEF Init
    <3> QED BY <3>1
  <2> QED BY <2>1, OfferInit DEF Init, CarryInv, BodySoFar, TemplatesHold, FittingPayloadIsCarried
<1>2. CarryInv /\ [Next]_vars => CarryInv'
  BY CarryStep
<1>3. CarryInv => FittingPayloadIsCarried
  BY DEF CarryInv
<1> QED BY <1>1, <1>2, <1>3, PTL DEF Spec
=============================================================================
