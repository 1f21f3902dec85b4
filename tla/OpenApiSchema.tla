--------------------------- MODULE OpenApiSchema ---------------------------
(***************************************************************************)
(* Schemas of an OpenAPI document and what schemaToMap makes of them: a    *)
(* body with a random placeholder for every string, whether it has one at  *)
(* all, and the length limits that belong to each placeholder.             *)
(*                                                                         *)
(* A schema is a node of a graph: properties, array items and the members  *)
(* of a combination are references to other nodes, and may lead back to    *)
(* it.  A placeholder is the path of the visit that made it, so that two   *)
(* visits never make the same one.  Of a body only the keys of its top     *)
(* level are kept, and the placeholders that end up below each key.        *)
(***************************************************************************)
EXTENDS Naturals, Sequences, FiniteSets, SequencesExt

CONSTANTS
  Schema,          \* the schemas by name, records as SchemaAssumption says
  StringSize       \* defaultStringSize, the least length genRandomString makes

Nodes == DOMAIN Schema

\* No maxLength in the schema of a string, math.MaxUint64, and no maximum in that
\* of a number, defaultMaxInt.
NoLimit == 1000

Types == {"string", "integer", "number", "boolean", "array", "object", "none"}

\* anyOf is read as allOf.  inner: the members of a combination or the items of
\* an array; props: the properties of an object; min and max: the bounds of a
\* number, which may be exclusive, or of the length of a string; xml: the name
\* that replaces the property's in XML, if any.  A schema that another one refers
\* to twice is two nodes.
ASSUME SchemaAssumption ==
  /\ IsFiniteSet(Nodes)
  /\ StringSize \in Nat
  /\ \A n \in Nodes :
       /\ Schema[n].type \in Types
       /\ Schema[n].combine \in {"none", "allOf", "oneOf"}
       /\ Schema[n].inner \in Seq(Nodes) /\ IsInjective(Schema[n].inner)
       /\ \A p \in DOMAIN Schema[n].props : Schema[n].props[p] \in Nodes
       /\ IsInjective(Schema[n].props)
       /\ Schema[n].min \in Nat /\ Schema[n].max \in Nat
       /\ Schema[n].exMin \in BOOLEAN /\ Schema[n].exMax \in BOOLEAN
       /\ Schema[n].type = "array" => Len(Schema[n].inner) = 1

-----------------------------------------------------------------------------

\* genRandomInt and genRandomFloat draw from [min, max) and move the bounds for
\* it; they panic when nothing is left.
NumberPanics(s) ==
  s.max + (IF s.exMax THEN 0 ELSE 1) <= s.min + (IF s.exMin THEN 1 ELSE 0)

\* Mutant of StringPanics: the length must be above the least one.
StringPanics_Above(min, max) ==
  max <= IF min < StringSize THEN StringSize ELSE min

\* genRandomString panics when the length it has to keep below is less than
\* defaultStringSize: the difference is an unsigned number.
StringPanics(min, max) ==
  max < IF min < StringSize THEN StringSize ELSE min

\* The result of a visit.  fails: the ways it may end without one, an error or a
\* panic; kind: a text, a list, a map or nil, a oneOf without any string; at: the
\* placeholders in the value, by key; spec: their limits.  strAvailable is that
\* there are any.
Failed(fails) ==
  [fails |-> fails, kind |-> "nil", at |-> <<>>, spec |-> <<>>]
Result(kind, at, spec) ==
  [fails |-> {}, kind |-> kind, at |-> at, spec |-> spec]

Entry(key, value) == [k \in {key} |-> value]

\* One map written over another.
Over(f, g) ==
  [k \in DOMAIN f \cup DOMAIN g |-> IF k \in DOMAIN f THEN f[k] ELSE g[k]]

InBody(r) == UNION {r.at[k] : k \in DOMAIN r.at}

\* Maps written one after the other, the later entry winning.
Merged(maps) ==
  [k \in UNION {DOMAIN maps[i] : i \in DOMAIN maps} |->
     LET last == CHOOSE i \in DOMAIN maps :
                   /\ k \in DOMAIN maps[i]
                   /\ \A j \in DOMAIN maps : k \in DOMAIN maps[j] => j <= i
     IN  maps[last][k]]

\* Placeholders differ, so that the order does not matter.
SpecUnion(rs) ==
  [ph \in UNION {DOMAIN r.spec : r \in rs} |->
     (CHOOSE r \in rs : ph \in DOMAIN r.spec).spec[ph]]

\* A loop over a list ends at the first result that fails or, in a
\* combination, is no map.
FirstFailure(rs) ==
  LET bad == {i \in DOMAIN rs : rs[i].fails # {} \/ rs[i].kind # "map"}
      i == CHOOSE i \in bad : \A j \in bad : i <= j
  IN  IF bad = {} THEN {}
      ELSE IF rs[i].fails # {} THEN rs[i].fails ELSE {"error"}

\* allOf and anyOf: one object with the fields of all of them.
AllOf(rs) ==
  IF FirstFailure(rs) # {} THEN Failed(FirstFailure(rs))
  ELSE Result("map", Merged([i \in DOMAIN rs |-> rs[i].at]),
              SpecUnion({rs[i] : i \in DOMAIN rs}))

\* oneOf: the first of those with the most strings; nil when none has any.
OneOf(rs) ==
  LET size(i) == Cardinality(DOMAIN rs[i].spec)
      best == {i \in DOMAIN rs : /\ size(i) > 0
                                 /\ \A j \in DOMAIN rs : size(j) <= size(i)}
  IN  IF FirstFailure(rs) # {} THEN Failed(FirstFailure(rs))
      ELSE IF best = {} THEN Result("nil", <<>>, <<>>)
      ELSE rs[CHOOSE i \in best : \A j \in best : i <= j]

\* Mutant of Object: strings below a property are not counted.
Object_NotNested(rs, isXML) ==
  LET at(p) == IF isXML /\ rs[p].kind = "map" THEN rs[p].at ELSE Entry(p, InBody(rs[p]))
      fails == UNION {rs[p].fails : p \in DOMAIN rs}
      keys == UNION {DOMAIN at(p) : p \in DOMAIN rs}
  IN  IF fails # {} THEN Failed(fails)
      ELSE Result("map",
             [k \in keys |-> at(CHOOSE p \in DOMAIN rs : k \in DOMAIN at(p))[k]],
             SpecUnion({rs[p] : p \in {q \in DOMAIN rs : rs[q].kind = "text"}}))

\* The properties are visited in any order: any failure of theirs may be met
\* first.  In XML the keys of a property that is a map become the object's own.
Object(rs, isXML) ==
  LET fails == UNION {rs[p].fails : p \in DOMAIN rs}
      at(p) == IF isXML /\ rs[p].kind = "map" THEN rs[p].at ELSE Entry(p, InBody(rs[p]))
      keys == UNION {DOMAIN at(p) : p \in DOMAIN rs}
  IN  IF fails # {} THEN Failed(fails)
      ELSE Result("map",
             [k \in keys |-> at(CHOOSE p \in DOMAIN rs : k \in DOMAIN at(p))[k]],
             SpecUnion({rs[p] : p \in DOMAIN rs}))

\* In XML every value becomes a map, under the name of the schema if it has one.
XmlWrapped(r, name) ==
  IF r.fails # {} THEN r
  ELSE Result("map",
         IF name # "" THEN Entry(name, InBody(r))
         ELSE IF r.kind = "map" THEN r.at ELSE Entry("#text", InBody(r)),
         r.spec)

XmlName(n, name) == IF Schema[n].xml # "" THEN Schema[n].xml ELSE name

\* A visit: the nodes on the way to its own, the name it is under, and whether the
\* body is XML.
Names == {""} \cup UNION {{Schema[n].xml} \cup DOMAIN Schema[n].props : n \in Nodes}
Visits == [path : Seq(Nodes) \ {<<>>}, name : Names, isXML : BOOLEAN]

NodeOf(v) == Last(v.path)

To(v, n, name) == [v EXCEPT !.path = Append(@, n), !.name = name]

\* The value of a schema that is no combination.  Arrays repeat the value of their
\* items.
Value(v, inner, fields) ==
  LET s == Schema[NodeOf(v)]
  IN  CASE s.type = "string" ->
             IF s.max # NoLimit /\ StringPanics(s.min, s.max) THEN Failed({"panic"})
             ELSE Result("text", Entry("", {v.path}),
                         Entry(v.path, [min |-> s.min, max |-> s.max]))
        [] s.type \in {"integer", "number"} ->
             IF NumberPanics(s) THEN Failed({"panic"}) ELSE Result("text", <<>>, <<>>)
        [] s.type = "boolean" -> Result("text", <<>>, <<>>)
        [] s.type = "array" ->
             IF inner[1].fails # {} THEN inner[1]
             ELSE Result("list", Entry("", InBody(inner[1])), inner[1].spec)
        [] s.type = "object" -> Object(fields, v.isXML)
        [] s.type = "none" -> Failed({"error"})

\* The node is on the way to itself: the calls never end, and the stack overflows.
Repeats(v) == \E i \in 1 .. Len(v.path) - 1 : v.path[i] = NodeOf(v)

\* What a visit returns, from what those of the inner schemas and the properties do.
Visit(v, inner, fields) ==
  LET combine == Schema[NodeOf(v)].combine
  IN  IF Repeats(v) THEN Failed({"panic"})
      ELSE IF combine = "allOf" THEN AllOf(inner)
      ELSE IF combine = "oneOf" THEN OneOf(inner)
      ELSE IF v.isXML THEN XmlWrapped(Value(v, inner, fields), XmlName(NodeOf(v), v.name))
      ELSE Value(v, inner, fields)

\* The name members of a combination and items of an array are visited as.
InnerName(v) ==
  IF v.isXML /\ Schema[NodeOf(v)].combine = "none" THEN XmlName(NodeOf(v), v.name)
  ELSE v.name

SchemaToMap[v \in Visits] ==
  LET s == Schema[NodeOf(v)]
  IN  Visit(v, [i \in DOMAIN s.inner |-> SchemaToMap[To(v, s.inner[i], InnerName(v))]],
               [p \in DOMAIN s.props |-> SchemaToMap[To(v, s.props[p], p)]])

Start(n, isXML) == [path |-> <<n>>, name |-> "", isXML |-> isXML]

SchemaMaps ==
  [n \in Nodes |-> [isXML \in BOOLEAN |-> SchemaToMap[Start(n, isXML)]]]

Visited(n, isXML) == SchemaMaps[n][isXML]

-----------------------------------------------------------------------------
(* The same, said of the graph.                                            *)

\* The schemas a schema refers to.
References(n) ==
  LET s == Schema[n]
  IN  IF s.combine # "none" \/ s.type = "array"
      THEN {s.inner[i] : i \in DOMAIN s.inner}
      ELSE IF s.type = "object" THEN {s.props[p] : p \in DOMAIN s.props}
      ELSE {}

\* Those a chain of at most k references leads to, all or those of combinations.
Links(n, all) == IF all \/ Schema[n].combine # "none" THEN References(n) ELSE {}

Within[k \in 0 .. Cardinality(Nodes)] ==
  [all \in BOOLEAN |-> [n \in Nodes |->
     IF k = 0 THEN {n} ELSE UNION {{m} \cup Links(m, all) : m \in Within[k - 1][all][n]}]]

Reachable == Within[Cardinality(Nodes)]

ReachableFrom(n) == Reachable[TRUE][n]

\* The schemas a combination comes down to, through those inside it.
Leaves(n) == {m \in Reachable[FALSE][n] : Schema[m].combine = "none"}

IsString(n) == Schema[n].combine = "none" /\ Schema[n].type = "string"

\* The keys the value of a schema may have at its top level, when it is visited
\* under a name.
AnyKey == Names \cup {"", "#text"}

PropertyKeys(n, p) ==
  IF p = "" THEN AnyKey ELSE {p} \cup {XmlName(m, p) : m \in Leaves(Schema[n].props[p])}

LeafKeys(n, name, isXML) ==
  LET s == Schema[n]
  IN  IF isXML /\ XmlName(n, name) # "" THEN {XmlName(n, name)}
      ELSE IF s.type # "object" THEN {"", "#text"}
      ELSE IF isXML THEN UNION {PropertyKeys(n, p) : p \in DOMAIN s.props}
      ELSE DOMAIN s.props

Keys(n, name, isXML) == UNION {LeafKeys(m, name, isXML) : m \in Leaves(n)}

\* A string with a limit genRandomString cannot keep, a number without values.
HasNumber(s) ==
  \E v \in 0 .. NoLimit :
    /\ IF s.exMin THEN s.min < v ELSE s.min <= v
    /\ IF s.exMax THEN v < s.max ELSE v <= s.max

Unfillable(n) ==
  /\ Schema[n].combine = "none"
  /\ \/ Schema[n].type = "string" /\ Schema[n].max < StringSize
     \/ Schema[n].type = "string" /\ Schema[n].max < Schema[n].min
     \/ Schema[n].type \in {"integer", "number"} /\ ~HasNumber(Schema[n])

\* A schema that leads back to itself.
Recursive(n) == \E m \in References(n) : n \in ReachableFrom(m)
=============================================================================
