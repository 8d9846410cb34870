------------------------------ MODULE SpecTools -------------------------------
(***************************************************************************)
(* The tools that work on one resolved document: reference graph and       *)
(* analyzer, linter, security report, mock server and verifier.            *)
(***************************************************************************)
EXTENDS SpecLoad

-------------------------------------------------------------------------------
(* graph.rs and analyzer.rs: who refers to whom in a resolved document,
   which schemas nothing uses, which look alike.  lint.rs keeps its own
   walk. *)

CONSTANT LargeAt      \* what stands for 20 properties

(* collect_references, collect_refs_from_type. *)
RECURSIVE RefsIn(_)
RefsIn(ty) ==
  CASE ty.type = "Reference" -> {ty.name}
    [] ty.type = "Array" -> RefsIn(ty.item)
    [] ty.type = "Map" -> RefsIn(ty.value)
    [] ty.type = "Composition" -> UNION {RefsIn(ty.members[i]) : i \in DOMAIN ty.members}
    [] OTHER -> {}

RefsOfBody(b) == IF b = None THEN {} ELSE RefsIn(b)

(* Mutant: the values of a map are forgotten. *)
ModelRefsNoMap(m) ==
  IF m.model = "Enum" THEN {}
  ELSE UNION {RefsIn(m.props[p].ty) : p \in DOMAIN m.props}
       \cup (IF m.base = None THEN {} ELSE {m.base})

ModelRefs(m) ==
  IF m.model = "Enum" THEN {}
  ELSE UNION {RefsIn(m.props[p].ty) : p \in DOMAIN m.props}
       \cup RefsOfBody(m.additional) \cup RefsIn(m.shape)
       \cup (IF m.base = None THEN {} ELSE {m.base})

(* build_graph: a diamond stands for a model that is only its shape. *)
GraphNodes ==
  {[id |-> n, diamond |-> registry[n].model = "Object" /\ DOMAIN registry[n].props = {}] :
     n \in DOMAIN registry}

GraphEdges ==
  UNION {LET m == registry[n]
             to(S, label) == {[from |-> n, to |-> d, label |-> label] : d \in S}
         IN IF m.model = "Enum" THEN {}
            ELSE to(RefsIn(m.shape), "")
                 \cup to(IF m.base = None THEN {} ELSE {m.base}, "extends")
                 \cup to(UNION {RefsIn(m.props[p].ty) : p \in DOMAIN m.props}, "")
                 \cup to(RefsOfBody(m.additional), "values") :
         n \in DOMAIN registry}

(* What operations and webhooks use directly; parameters are not looked at. *)
BodyRefs(os) ==
  UNION {RefsOfBody(os[i].body)
         \cup UNION {RefsOfBody(os[i].responses[j].body) : j \in DOMAIN os[i].responses} :
         i \in DOMAIN os}
Roots == BodyRefs(operations) \cup BodyRefs(webhooks)

(* The loop of analyze_spec: rounds over what is referenced so far, until one
   adds nothing. *)
Referenced ==
  LET Round(S) == S \cup UNION {ModelRefs(registry[n]) : n \in S \cap DOMAIN registry}
      after[k \in 0..Cardinality(DOMAIN registry) + 1] ==
        IF k = 0 THEN Roots ELSE Round(after[k - 1])
  IN after[Cardinality(DOMAIN registry) + 1]

UnusedSchemas == DOMAIN registry \ Referenced

Objects == {n \in DOMAIN registry : registry[n].model = "Object"}
LargeSchemas == {n \in Objects : Cardinality(DOMAIN registry[n].props) > LargeAt}
DuplicateSchemas ==
  {<<a, b>> \in Objects \X Objects :
     a # b /\ DOMAIN registry[a].props = DOMAIN registry[b].props}

(* build_ref_graph, ref_depth.  The targets of a schema come out of a hash set,
   in the order `rank`; a schema that is being visited counts as depth 0. *)
RefGraph == [n \in DOMAIN registry |-> ModelRefs(registry[n])]

RECURSIVE RefDepth(_, _, _)
RefDepth(name, memo, rank) ==
  IF name \in DOMAIN memo THEN [depth |-> memo[name], memo |-> memo]
  ELSE LET targets == IF name \in DOMAIN RefGraph
                      THEN SetToSortSeq(RefGraph[name], LAMBDA a, b : rank[a] < rank[b])
                      ELSE <<>>
           Visit(acc, t) == LET r == RefDepth(t, acc.memo, rank)
                            IN [depth |-> Max({acc.depth, r.depth + 1}), memo |-> r.memo]
           over == FoldLeft(Visit, [depth |-> 0, memo |-> (name :> 0) @@ memo], targets)
       IN [over EXCEPT !.memo = (name :> over.depth) @@ @]

Depths(rank) ==
  FoldLeft(LAMBDA memo, entry : RefDepth(entry.name, memo, rank).memo, EmptyFn, doc.schemas)

DeepAt == 2
DeepRefs(rank) == {n \in DOMAIN registry : Depths(rank)[n] > DeepAt}

(* The report; each part of it has its recommendation. *)
AnalyzeSpec(rank) ==
  [unused |-> UnusedSchemas, duplicates |-> DuplicateSchemas,
   large |-> LargeSchemas, deep |-> DeepRefs(rank)]

-------------------------------------------------------------------------------
(* lint.rs and lint_config.rs: the rules of the linter over a resolved
   document, switched and graded by a configuration. *)

Rules == {"duplicate-operation-ids", "missing-response-description",
          "missing-operation-summary", "unused-schema", "missing-operation-id",
          "missing-schema-description", "path-trailing-slash", "deprecated-operation"}

(* A configuration is a sequence of [name, enabled, severity]; the first rule
   of a name counts, an unknown rule is enabled and a warning. *)
DefaultConfig ==
  [r \in Rules |-> [enabled |-> r # "missing-schema-description",
                    severity |-> IF r = "duplicate-operation-ids" THEN "error"
                                 ELSE "warning"]]
SwaggerEditorProfile ==
  [r \in Rules |-> [enabled |-> TRUE,
                    severity |-> IF r \in {"duplicate-operation-ids",
                                           "missing-operation-id"}
                                 THEN "error" ELSE "warning"]]

IsEnabled(config, r) ==
  r \in DOMAIN config => config[r].enabled /\ config[r].severity # "off"
SeverityOf(config, r) ==
  IF r \in DOMAIN config /\ config[r].severity = "error" THEN "error" ELSE "warning"

(* set_enabled and set_severity; a rule that was not there is added. *)
SetEnabled(config, r, on) ==
  [q \in DOMAIN config \cup {r} |->
     IF q # r THEN config[q]
     ELSE [enabled |-> on,
           severity |-> IF r \in DOMAIN config THEN config[r].severity ELSE "warning"]]
SetSeverity(config, r, sev) ==
  [q \in DOMAIN config \cup {r} |->
     IF q # r THEN config[q]
     ELSE [severity |-> sev,
           enabled |-> IF r \in DOMAIN config THEN config[r].enabled ELSE sev # "off"]]

(* load: the file, or the defaults when there is none or it does not parse. *)
LoadConfig(file) == IF file = None THEN DefaultConfig ELSE file

------------------------------------------------------------------------------
(* The walk of the unused-schema rule.  Operations give the first names; a pass
   over the schemas adds what properties refer to directly and everything the
   shape refers to, but only the properties ask for another pass. *)
LintRoots ==
  UNION {RefsOfBody(operations[i].body)
         \cup UNION {RefsIn(operations[i].parameters[j].ty) :
                       j \in DOMAIN operations[i].parameters}
         \cup UNION {RefsOfBody(operations[i].responses[j].body) :
                       j \in DOMAIN operations[i].responses} : i \in DOMAIN operations}

DirectRefs(m) == {m.props[p].ty.name : p \in {q \in DOMAIN m.props :
                                                m.props[q].ty.type = "Reference"}}

LintPass(names) ==
  FoldLeft(LAMBDA acc, entry :
             IF entry.name \notin acc.names \cap DOMAIN registry
                \/ registry[entry.name].model = "Enum"
             THEN acc
             ELSE LET m == registry[entry.name]
                  IN [names |-> acc.names \cup DirectRefs(m) \cup RefsIn(m.shape),
                      changed |-> acc.changed \/ ~(DirectRefs(m) \subseteq acc.names)],
           [names |-> names, changed |-> FALSE], doc.schemas)

LintReferenced ==
  LET after[k \in 0..Len(doc.schemas) + 1] ==
        IF k = 0 THEN [names |-> LintRoots, changed |-> TRUE]
        ELSE IF after[k - 1].changed THEN LintPass(after[k - 1].names) ELSE after[k - 1]
  IN after[Len(doc.schemas) + 1].names

(* What each rule reports.  Operation ids are never empty after resolution and
   there is no deprecated flag, so two rules never report. *)
Reported(r) ==
  CASE r = "duplicate-operation-ids" ->
         {i \in DOMAIN operations : \E j \in 1..i - 1 : operations[j].id = operations[i].id}
    [] r = "missing-response-description" ->
         UNION {{<<i, j>> :
                   j \in {k \in DOMAIN operations[i].responses :
                                       ~operations[i].responses[k].described}} :
                i \in DOMAIN operations}
    [] r = "missing-operation-summary" -> {i \in DOMAIN operations : ~operations[i].summary}
    [] r = "missing-schema-description" -> {n \in DOMAIN registry : ~registry[n].described}
    [] r = "unused-schema" -> DOMAIN registry \ LintReferenced
    [] r = "path-trailing-slash" -> {i \in DOMAIN operations : operations[i].slash}
    [] OTHER -> {}

LintWithConfig(config) ==
  [r \in {q \in Rules : IsEnabled(config, q)} |->
     [severity |-> SeverityOf(config, r), at |-> Reported(r)]]

(* The Swagger Editor profile adds the references that leave the components. *)
LintSwaggerEditor(refs) ==
  [rules |-> LintWithConfig(SwaggerEditorProfile),
   refs |-> [r \in {q \in refs : q # "components"} |->
               IF r = "file" THEN "error" ELSE "warning"]]

-------------------------------------------------------------------------------
(* security.rs: which operations require authentication, seen from the
   resolved document (analyze_security) and from the parsed one
   (analyze_security_detailed), and what is wrong with the schemes. *)

Header(scheme) == IF scheme[1] = "HttpBearer" THEN "Authorization" ELSE scheme[2]

(* The resolved view: every operation requires the first scheme that survived
   resolution, overrides are not seen. *)
AnalyzeSecurity ==
  [i \in DOMAIN operations |->
     [requires |-> security # <<>>, override |-> FALSE,
      header |-> IF security = <<>> THEN None ELSE Header(security[1])]]

(* The parsed view.  An operation is found again by method and path; `own` is
   its own list of requirements, None when it has none. *)
OwnSecurity(op) ==
  LET same == {i \in DOMAIN doc.operations :
                 /\ doc.operations[i].item # "ref"
                 /\ doc.operations[i].method = op.method
                 /\ doc.operations[i].path = op.path}
  IN doc.operations[Max(same)].security

FirstOf(names) == IF names = <<>> THEN None ELSE names[1]

OperationSecurity(op) ==
  LET own == OwnSecurity(op)
  IN CASE own = None -> [requires |-> doc.security # <<>>,
                         scheme |-> FirstOf(doc.security), override |-> FALSE]
       [] own = <<>> -> [requires |-> FALSE, scheme |-> None, override |-> TRUE]
       [] OTHER -> [requires |-> TRUE, scheme |-> FirstOf(own), override |-> TRUE]

SchemeInfo(name) ==
  LET s == doc.schemes[name]
  IN [kind |-> IF s.type = "http" THEN s.name ELSE s.type,
      header |-> CASE s.type = "http" /\ s.name = "bearer" -> "Authorization"
                   [] s.type = "apiKey" -> s.name
                   [] OTHER -> None]

AnalyzeSecurityDetailed ==
  [i \in DOMAIN operations |-> OperationSecurity(operations[i])]

(* Issues.  Methods are in lower case where the rule for writes expects upper
   case, so it never reports. *)
Writes == {"POST", "PUT", "PATCH", "DELETE"}
CommonIssues(schemes, ops) ==
  (IF schemes = {} THEN {<<"no schemes">>} ELSE {})
  \cup {<<"write without auth", i>> :
          i \in {j \in DOMAIN ops : operations[j].method \in Writes /\ ~ops[j].requires}}
  \cup (IF Cardinality({ops[i].scheme : i \in {j \in DOMAIN ops : ops[j].requires}}) > 1
        THEN {<<"mixed schemes">>} ELSE {})

DetailedIssues(ops) ==
  LET used == {ops[i].scheme : i \in {j \in DOMAIN ops : ops[j].requires}}
  IN {<<"auth disabled", i>> : i \in {j \in DOMAIN ops : ops[j].override /\ ~ops[j].requires}}
     \cup {<<"unreferenced", n>> : n \in DOMAIN doc.schemes \ (used \cup Range(doc.security))}
     \cup {<<"no flows", n>> : n \in {m \in DOMAIN doc.schemes :
                                       doc.schemes[m].type = "oauth2" /\ ~doc.schemes[m].flows}}
     \cup {<<"undefined", n>> : n \in Range(doc.security) \ DOMAIN doc.schemes}

SecurityIssues ==
  CommonIssues(DOMAIN doc.schemes, AnalyzeSecurityDetailed)
  \cup DetailedIssues(AnalyzeSecurityDetailed)

-------------------------------------------------------------------------------
(* mock.rs: a route per operation, each with an example of its first 2xx
   response; a connection is answered by the first route whose method and
   path are exactly the request's.

   A JSON value is [json, value], [json, items] or [json, fields]. *)

Scalars == {"String", "DateTime", "Uuid", "Integer", "Float", "Boolean"}
Text == [json |-> "string", value |-> "text"]
FirstVariant == [json |-> "string", value |-> "first"]
Null == [json |-> "null", value |-> None]
Object(f) == [json |-> "object", fields |-> f]

ScalarExample(s) ==
  CASE s \in {"String", "DateTime", "Uuid"} -> Text
    [] s = "Integer" -> [json |-> "integer", value |-> 0]
    [] s = "Float" -> [json |-> "float", value |-> 0]
    [] s = "Boolean" -> [json |-> "boolean", value |-> FALSE]

(* Mutant: the example of an array is its element. *)
ArrayExampleBare(element) == element
ArrayExample(element) == [json |-> "array", items |-> <<element>>]

RECURSIVE GenerateExample(_)
GenerateExample(ty) ==
  CASE ty.type = "Scalar" -> ScalarExample(ty.scalar)
    [] ty.type = "StringEnum" -> FirstVariant
    [] ty.type = "Array" -> ArrayExample(GenerateExample(ty.item))
    [] ty.type = "Map" -> Object([k \in {"key"} |-> GenerateExample(ty.value)])
    [] ty.type = "Composition" ->
         IF ty.members = <<>> THEN Null ELSE GenerateExample(ty.members[1])
    [] ty.type = "Any" -> Object(EmptyFn)
    [] ty.type = "Unknown" -> Null
    [] ty.type = "Reference" ->
         IF ty.name \notin DOMAIN registry THEN Null
         ELSE LET m == registry[ty.name]
              IN IF m.model = "Enum" THEN FirstVariant
                 ELSE Object([p \in DOMAIN m.props |-> GenerateExample(m.props[p].ty)])

(* The schemas an example descends into: of a composition only the first member.
   One that is reached from itself is descended into without end. *)
RECURSIVE Descends(_)
Descends(ty) ==
  CASE ty.type = "Reference" -> {ty.name}
    [] ty.type = "Array" -> Descends(ty.item)
    [] ty.type = "Map" -> Descends(ty.value)
    [] ty.type = "Composition" /\ ty.members # <<>> -> Descends(ty.members[1])
    [] OTHER -> {}

Overflows(ty) ==
  LET Below(S) == UNION {UNION {Descends(registry[n].props[p].ty) : p \in DOMAIN registry[n].props} :
                           n \in S \cap Objects}
      level[k \in 0..Cardinality(Objects) + 1] ==
        IF k = 0 THEN Descends(ty) ELSE Below(level[k - 1])
  IN level[Cardinality(Objects) + 1] # {}

Parses(status) == status >= 100
IsSuccess(status) == status \in 200..299

FirstSuccess(op) ==
  LET ok == {i \in DOMAIN op.responses : IsSuccess(op.responses[i].status)}
  IN IF ok = {} THEN None ELSE op.responses[Min(ok)]

PickSuccessResponse(op) ==
  LET r == FirstSuccess(op)
  IN CASE r = None -> [status |-> 200, body |-> Object(EmptyFn)]
       [] r # None /\ r.body = None -> [status |-> r.status, body |-> Object(EmptyFn)]
       [] OTHER -> [status |-> r.status, body |-> GenerateExample(r.body)]

(* from_doc dies on a schema that contains itself. *)
MockStarts ==
  \A i \in DOMAIN operations :
    LET r == FirstSuccess(operations[i])
    IN (r # None /\ r.body # None) => ~Overflows(r.body)

Routes ==
  [i \in DOMAIN operations |->
     [method |-> operations[i].method, path |-> operations[i].path,
      reply |-> PickSuccessResponse(operations[i])]]

(* The status lines the server knows; any other success is sent as 200. *)
StatusLine(status) == IF status \in {200, 201, 204, 400, 404, 500} THEN status ELSE 200

HandleConnection(method, path) ==
  LET found == {i \in DOMAIN Routes : Routes[i].method = method /\ Routes[i].path = path}
  IN IF found = {}
     THEN [status |-> 404, body |-> Object([k \in {"error", "message"} |-> Text])]
     ELSE LET reply == Routes[Min(found)].reply
          IN [status |-> StatusLine(reply.status), body |-> reply.body]

-------------------------------------------------------------------------------
(* verify.rs probes every operation of a document at a live API and judges
   status and body; here the API is the mock server.  validate.rs is the
   stricter judge of a value against an IR type. *)

IsString(v) == v.json = "string"

JsonKinds(scalar) == CASE scalar \in {"String", "DateTime", "Uuid"} -> {"string"}
                       [] scalar = "Integer" -> {"integer"}
                       [] scalar = "Float" -> {"float", "integer"}
                       [] scalar = "Boolean" -> {"boolean"}

(* A value that fits a composition fits any of its members. *)
RECURSIVE Matches(_, _)
Matches(v, ty) ==
  CASE ty.type = "Scalar" -> v.json \in JsonKinds(ty.scalar)
    [] ty.type = "StringEnum" -> IsString(v)
    [] ty.type = "Array" ->
         v.json = "array" /\ \A i \in DOMAIN v.items : Matches(v.items[i], ty.item)
    [] ty.type = "Map" ->
         v.json = "object" /\ \A k \in DOMAIN v.fields : Matches(v.fields[k], ty.value)
    [] ty.type = "Composition" -> \E i \in DOMAIN ty.members : Matches(v, ty.members[i])
    [] ty.type \in {"Any", "Unknown"} -> TRUE
    [] ty.type = "Reference" ->
         \/ ty.name \notin DOMAIN registry
         \/ LET m == registry[ty.name]
            IN IF m.model = "Enum" THEN v = FirstVariant
               ELSE /\ v.json = "object"
                    /\ \A p \in DOMAIN m.props :
                         /\ m.props[p].required => p \in DOMAIN v.fields
                         /\ p \in DOMAIN v.fields => Matches(v.fields[p], m.props[p].ty)

(* validate: a reference is judged by the shape of its model, whose properties
   the shape of an object does not name. *)
RECURSIVE IsValid(_, _)
IsValid(v, ty) ==
  CASE ty.type = "Scalar" -> v.json \in JsonKinds(ty.scalar)
    [] ty.type = "StringEnum" -> v = FirstVariant \/ (ty.nullable /\ v = Null)
    [] ty.type = "Array" ->
         \/ ty.nullable /\ v = Null
         \/ v.json = "array" /\ \A i \in DOMAIN v.items : IsValid(v.items[i], ty.item)
    [] ty.type = "Map" ->
         v.json = "object" => \A k \in DOMAIN v.fields : IsValid(v.fields[k], ty.value)
    [] ty.type = "Composition" ->
         IF ty.kind = "allOf" THEN \A i \in DOMAIN ty.members : IsValid(v, ty.members[i])
         ELSE ty.members = <<>> \/ \E i \in DOMAIN ty.members : IsValid(v, ty.members[i])
    [] ty.type \in {"Any", "Unknown"} -> TRUE
    [] ty.type = "Reference" ->
         \/ ty.name \notin DOMAIN registry
         \/ LET m == registry[ty.name]
            IN IF m.model = "Enum" THEN v = FirstVariant ELSE IsValid(v, m.shape)

(* A parameter of the path is given a dummy value. *)
SubstitutePathParams(path) ==
  [i \in DOMAIN path |-> IF path[i].param THEN [name |-> "dummy", param |-> FALSE] ELSE path[i]]

(* What the HTTP client reads: nothing of a HEAD or a 204. *)
BodyText(method, reply) == IF method = "head" \/ reply.status = 204 THEN None ELSE reply.body

VerifyOperation(op) ==
  LET reply == HandleConnection(op.method, SubstitutePathParams(op.path))
      declared == IF op.responses = <<>> THEN 200 ELSE op.responses[1].status
      expected == IF Parses(declared) THEN declared ELSE 200
      body == BodyText(op.method, reply)
      judged == {i \in DOMAIN op.responses : op.responses[i].status \in {declared, reply.status}}
      ty == IF judged = {} THEN None ELSE op.responses[Min(judged)].body
  IN (IF reply.status # expected THEN {"status mismatch"} ELSE {})
     \cup (IF body = None /\ IsSuccess(expected) THEN {"not JSON"} ELSE {})
     \cup (IF body # None /\ ty # None /\ ~Matches(body, ty) THEN {"schema mismatch"} ELSE {})

VerifyApi == [i \in DOMAIN operations |-> VerifyOperation(operations[i])]
===============================================================================
