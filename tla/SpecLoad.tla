------------------------------- MODULE SpecLoad -------------------------------
(***************************************************************************)
(* From a file to the resolved document: loading with its external         *)
(* references, and resolving.                                              *)
(***************************************************************************)
EXTENDS Naturals, Sequences, FiniteSets, SequencesExt

-------------------------------------------------------------------------------
(* spec.rs: from a text to the document the 3.0 parser accepts.  Webhooks
   are cut out of the raw JSON, a 3.1 document is rewritten in two passes
   over the tree, and the typed parser takes the rest.  Also the choice of
   a file in a directory of versions.

   JSON is [is |-> "object", f], [is |-> "array", s], or a leaf [is, v]. *)

CONSTANTS Texts,     \* the documents: JSON trees, or Garbage
          Garbage,   \* a text that is neither JSON nor YAML
          Folders    \* directories of versions, [name, entries]

VARIABLES text, stage, json, hooks, folder

Obj(f) == [is |-> "object", f |-> f]
Arr(s) == [is |-> "array", s |-> s]
Str(v) == [is |-> "string", v |-> v]
Num(v) == [is |-> "number", v |-> v]
True == [is |-> "bool", v |-> TRUE]
NoKeys == [k \in {} |-> True]

IsObj(j) == j.is = "object"
IsArr(j) == j.is = "array"
Has(j, k) == IsObj(j) /\ k \in DOMAIN j.f
With(j, k, v) == Obj((k :> v) @@ j.f)
Without(j, k) == Obj([x \in DOMAIN j.f \ {k} |-> j.f[x]])

(* Map(Op, j): Op on every child. *)
Children(Op(_), j) ==
  CASE IsObj(j) -> Obj([k \in DOMAIN j.f |-> Op(j.f[k])])
    [] IsArr(j) -> Arr([i \in DOMAIN j.s |-> Op(j.s[i])])
    [] OTHER -> j

Is31(j) == Has(j, "openapi") /\ j.f["openapi"] = Str("3.1")

(* An object with a $ref and siblings becomes allOf of the two parts. *)
Wrap(j) ==
  IF Has(j, "$ref") /\ j.f["$ref"].is = "string" /\ DOMAIN j.f # {"$ref"}
  THEN Obj("allOf" :> Arr(<<Obj("$ref" :> j.f["$ref"]), Without(j, "$ref")>>))
  ELSE j

RECURSIVE ExtractRefSiblings(_)
ExtractRefSiblings(j) == Children(ExtractRefSiblings, Wrap(j))

(* The rewriting of one object, rule after rule. *)
NullType == Str("null")
DowngradeType(j) ==
  IF ~Has(j, "type") \/ ~IsArr(j.f["type"]) THEN j
  ELSE LET all == j.f["type"].s
           rest == SelectSeq(all, LAMBDA t : t # NullType)
       IN CASE Len(rest) < Len(all) /\ Len(rest) = 1 ->
                 With(With(j, "type", rest[1]), "nullable", True)
            [] Len(rest) < Len(all) /\ rest = <<>> ->
                 With(Without(j, "type"), "nullable", True)
            [] OTHER -> j

Bounds == {"exclusiveMinimum", "exclusiveMaximum"}
DowngradeBounds(j) ==
  Obj([k \in DOMAIN j.f |-> IF k \in Bounds /\ j.f[k].is = "number" THEN True ELSE j.f[k]])

DowngradeConst(j) ==
  IF Has(j, "const") THEN With(Without(j, "const"), "enum", Arr(<<j.f["const"]>>)) ELSE j

(* The dependent names join `required`, unless that is something else than a list. *)
DowngradeDependent(j) ==
  IF ~Has(j, "dependentRequired") THEN j
  ELSE LET dep == j.f["dependentRequired"]
           rest == Without(j, "dependentRequired")
           lists == IF IsObj(dep) THEN {dep.f[k] : k \in DOMAIN dep.f} ELSE {}
           extra == UNION {{l.s[i] : i \in DOMAIN l.s} : l \in {m \in lists : IsArr(m)}}
           old == IF Has(rest, "required") THEN rest.f["required"] ELSE Arr(<<>>)
       IN IF extra = {} \/ ~IsArr(old) THEN rest
          ELSE With(rest, "required",
                 Arr(old.s \o SetToSeq(extra \ {old.s[i] : i \in DOMAIN old.s})))

DowngradePrefix(j) ==
  IF ~Has(j, "prefixItems") THEN j
  ELSE LET prefix == j.f["prefixItems"]
           rest == Without(j, "prefixItems")
       IN IF IsArr(prefix) /\ prefix.s # <<>> THEN With(rest, "items", prefix.s[1]) ELSE rest

Rewrite(j) ==
  IF ~IsObj(j) THEN j
  ELSE DowngradePrefix(DowngradeDependent(DowngradeConst(DowngradeBounds(DowngradeType(j)))))

RECURSIVE DowngradeValue(_)
(* Mutant: the children are rewritten before the object itself. *)
DowngradeValueLate(j) ==
  LET done == Children(DowngradeValue, IF IsObj(j) /\ Has(j, "prefixItems") THEN Without(j, "prefixItems") ELSE j)
  IN Rewrite(IF Has(j, "prefixItems") THEN With(done, "prefixItems", j.f["prefixItems"]) ELSE done)

DowngradeValue(j) == Children(DowngradeValue, Rewrite(j))

(* detect_31_features: what a tree still has of 3.1. *)
Own31(j) ==
  IF ~IsObj(j) THEN {}
  ELSE {k \in {"const", "prefixItems", "dependentRequired"} : Has(j, k)}
       \cup {k \in Bounds : Has(j, k) /\ j.f[k].is = "number"}
       \cup (IF Has(j, "type") /\ IsArr(j.f["type"]) THEN {"type"} ELSE {})
       \cup (IF Has(j, "$ref") /\ DOMAIN j.f # {"$ref"} THEN {"$ref"} ELSE {})

RECURSIVE Detect31Features(_)
Detect31Features(j) ==
  Own31(j) \cup CASE IsObj(j) -> UNION {Detect31Features(j.f[k]) : k \in DOMAIN j.f}
                  [] IsArr(j) -> UNION {Detect31Features(j.s[i]) : i \in DOMAIN j.s}
                  [] OTHER -> {}

------------------------------------------------------------------------------
(* parse_str_full, step by step. *)
Read ==
  /\ stage = "text"
  /\ IF text = Garbage THEN stage' = "failed" /\ json' = json
     ELSE stage' = "raw" /\ json' = text
  /\ UNCHANGED <<text, hooks, folder>>

ExtractWebhooks ==
  /\ stage = "raw"
  /\ stage' = "cut"
  /\ hooks' = IF Has(json, "webhooks") /\ IsObj(json.f["webhooks"])
              THEN json.f["webhooks"] ELSE Obj(NoKeys)
  /\ json' = IF Has(json, "webhooks") THEN Without(json, "webhooks") ELSE json
  /\ UNCHANGED <<text, folder>>

Downgrade ==
  /\ stage = "cut"
  /\ stage' = "typed"
  /\ json' = IF ~Is31(json) THEN json
             ELSE DowngradeValue(ExtractRefSiblings(
                    IF Has(json, "paths") THEN json ELSE With(json, "paths", Obj(NoKeys))))
  /\ UNCHANGED <<text, hooks, folder>>

(* The 3.0 parser knows neither a list of types nor a document without paths. *)
ParseOpenApi ==
  /\ stage = "typed"
  /\ stage' = IF Has(json, "paths") /\ "type" \notin Detect31Features(json)
              THEN "parsed" ELSE "failed"
  /\ UNCHANGED <<text, json, hooks, folder>>

LoadInit ==
  /\ text \in Texts
  /\ folder \in Folders
  /\ stage = "text" /\ json = Obj(NoKeys) /\ hooks = Obj(NoKeys)

LoadNext == Read \/ ExtractWebhooks \/ Downgrade \/ ParseOpenApi

------------------------------------------------------------------------------
(* A directory of versions is [name, entries].  An entry is a file [stem, ext,
   version] or a directory [name, files].  Stem or name n stands for "vn",
   version n for "n", and version 0 for a file that is no document, cannot be
   read or names no version.  The operating system lists the entries, and the
   files of a directory, in any order: a listing is a sequence of entries in
   which `files` is a sequence.  The sort keeps the order of equal versions. *)
Openapi == 0
WellKnown == <<"yaml", "yml", "json">>      \* openapi.yaml, openapi.yml, openapi.json

IsDir(e) == "files" \in DOMAIN e

Listings(entries) ==
  LET Orders(e) == IF IsDir(e) THEN {[e EXCEPT !.files = fs] : fs \in SetToSeqs(e.files)}
                               ELSE {e}
      listed == {f \in [entries -> UNION {Orders(e) : e \in entries}] :
                   \A e \in entries : f[e] \in Orders(e)}
  IN {[i \in DOMAIN o |-> f[o[i]]] : o \in SetToSeqs(entries), f \in listed}

Usable(files) == SelectSeq(files, LAMBDA f : f.version # 0)

(* The first of the well-known names that is usable, else the first file listed. *)
ScanVersionDir(files) ==
  LET Known(ext) == SelectSeq(files, LAMBDA f : f.stem = Openapi /\ f.ext = ext)
  IN Usable(FlattenSeq([i \in DOMAIN WellKnown |-> Known(WellKnown[i])]) \o files)

(* What is found at an entry of the directory `dir`, with the names that the
   path ends in. *)
ScanEntry(dir, e) ==
  LET found == IF IsDir(e) THEN ScanVersionDir(e.files) ELSE Usable(<<e>>)
  IN IF found = <<>> THEN <<>>
     ELSE <<[version |-> found[1].version, stem |-> found[1].stem,
             parent |-> IF IsDir(e) THEN e.name ELSE dir, file |-> <<e, found[1]>>]>>

ScanVersions(dir, listing) ==
  LET infos == FlattenSeq([i \in DOMAIN listing |-> ScanEntry(dir, listing[i])])
      sorted == SetToSortSeq({infos[i].version : i \in DOMAIN infos}, <)
  IN FlattenSeq([i \in DOMAIN sorted |->
                   SelectSeq(infos, LAMBDA v : v.version = sorted[i])])

FirstWith(Test(_), vs) ==
  LET good == SelectSeq(vs, Test) IN IF good = <<>> THEN Garbage ELSE good[1]

ResolveSpecPath(dir, listing, wanted) ==
  LET vs == ScanVersions(dir, listing)
      exact == FirstWith(LAMBDA v : v.version = wanted, vs)
  IN IF exact # Garbage THEN exact
     ELSE FirstWith(LAMBDA v : wanted \in {v.stem, v.parent}, vs)

-------------------------------------------------------------------------------
(* resolve.rs: a parsed document becomes the intermediate representation.
   Schemas are resolved one after the other into a registry that later
   schemas consult, then operations, security, base URL and webhooks.

   A schema is a record [kind, nullable, format, of, props, required,
   members, meta]: `of` is an array's items or an object's additional
   properties, `props` a function from names to schemas, `members` the
   parts of allOf, oneOf or anyOf, `meta` says that it carries a
   description.  A reference has kind "ref" and its target in `format`.
   A path is a sequence of segments [name, param]; a status is its number,
   Default, or below 100 for a range such as 2XX. *)

CONSTANTS Schemas,   \* every schema of the documents, closed under parts
          Docs,      \* the documents
          None       \* what is absent

VARIABLES doc, phase, cursor, registry, operations, security, webhooks

resolveVars == <<doc, phase, cursor, registry, operations, security, webhooks>>

Phases == {"schemas", "operations", "security", "webhooks", "done", "failed"}
EmptyFn == [x \in {} |-> None]
Default == 0

(* The IR type of a schema: the nullability of a scalar, of a map and of a
   composition has no place in it, and a bare object is Any. *)
Ref(name) == [type |-> "Reference", name |-> name, described |-> FALSE]

RefSibling(s) ==
  /\ Len(s.members) = 2
  /\ \E i \in 1..2 : /\ s.members[i].kind = "ref"
                     /\ s.members[3 - i].kind = "any"
                     /\ s.members[3 - i].meta

RefOf(s) == s.members[CHOOSE i \in 1..2 : s.members[i].kind = "ref"].format

TypeOf[s \in Schemas] ==
  LET Part == IF s.of = None THEN [type |-> "Unknown"] ELSE TypeOf[s.of]
      Parts == [i \in DOMAIN s.members |-> TypeOf[s.members[i]]]
  IN CASE s.kind = "ref" -> Ref(s.format)
       [] s.kind = "enum" -> [type |-> "StringEnum", nullable |-> s.nullable]
       [] s.kind = "string" ->
            [type |-> "Scalar",
             scalar |-> CASE s.format \in {"date", "date-time"} -> "DateTime"
                          [] s.format = "uuid" -> "Uuid"
                          [] OTHER -> "String"]
       [] s.kind = "integer" -> [type |-> "Scalar", scalar |-> "Integer"]
       [] s.kind = "number" -> [type |-> "Scalar", scalar |-> "Float"]
       [] s.kind = "boolean" -> [type |-> "Scalar", scalar |-> "Boolean"]
       [] s.kind = "array" ->
            [type |-> "Array", item |-> Part, nullable |-> s.nullable]
       [] s.kind = "object" /\ s.of # None -> [type |-> "Map", value |-> Part]
       [] s.kind = "allOf" /\ RefSibling(s) ->
            [Ref(RefOf(s)) EXCEPT !.described = TRUE]
       [] s.kind \in {"allOf", "oneOf", "anyOf"} ->
            [type |-> "Composition", kind |-> s.kind, members |-> Parts]
       [] OTHER -> [type |-> "Any"]      \* any, not, object without a map

(* Models. *)
Property(s, p) == [ty |-> TypeOf[s.props[p]], required |-> p \in s.required]
PropertiesOf(s) == [p \in DOMAIN s.props |-> Property(s, p)]

Named(n) == {i \in DOMAIN doc.schemas : doc.schemas[i].name = n}
Inline(n) == \E i \in Named(n) : doc.schemas[i].schema.kind = "object"
Component(n) == doc.schemas[CHOOSE i \in Named(n) : TRUE].schema

(* Mutant: a reference is looked up in the registry only. *)
FromMemberLate(m) ==
  CASE m.kind = "ref" /\ m.format \in DOMAIN registry
         /\ registry[m.format].model = "Object" ->
         LET P == registry[m.format].props
         IN [props |-> P, required |-> {p \in DOMAIN P : P[p].required}]
    [] m.kind = "object" ->
         [props |-> PropertiesOf(m), required |-> m.required]
    [] OTHER -> [props |-> EmptyFn, required |-> {}]

(* What a member of allOf contributes: an object its own properties, a
   reference to something else what the registry has of it so far. *)
FromMember(m) ==
  CASE m.kind = "ref" /\ Inline(m.format) ->
         [props |-> PropertiesOf(Component(m.format)),
          required |-> Component(m.format).required]
    [] m.kind = "ref" /\ ~Inline(m.format) /\ m.format \in DOMAIN registry
         /\ registry[m.format].model = "Object" ->
         LET P == registry[m.format].props
         IN [props |-> P, required |-> {p \in DOMAIN P : P[p].required}]
    [] m.kind = "object" ->
         [props |-> PropertiesOf(m), required |-> m.required]
    [] OTHER -> [props |-> EmptyFn, required |-> {}]

(* Later members override, required sets are united. *)
MergeAllOf(members) ==
  LET parts == [i \in DOMAIN members |-> FromMember(members[i])]
      having(p) == {i \in DOMAIN parts : p \in DOMAIN parts[i].props}
      required == UNION {parts[i].required : i \in DOMAIN parts}
      names == UNION {DOMAIN parts[i].props : i \in DOMAIN parts}
  IN [p \in names |-> [ty |-> parts[Max(having(p))].props[p].ty,
                       required |-> p \in required]]

BaseType(s) ==
  LET refs == SelectSeq(s.members, LAMBDA m : m.kind = "ref")
  IN IF s.kind = "allOf" /\ Len(refs) = 1 THEN refs[1].format ELSE None

BuildModel(s) ==
  IF s.kind = "enum" THEN [model |-> "Enum", described |-> s.meta]
  ELSE [model |-> "Object", described |-> s.meta,
        props |-> CASE s.kind = "object" -> PropertiesOf(s)
                    [] s.kind = "allOf" -> MergeAllOf(s.members)
                    [] OTHER -> EmptyFn,
        additional |-> IF s.kind = "object" /\ s.of # None
                       THEN TypeOf[s.of] ELSE None,
        shape |-> TypeOf[s],
        base |-> BaseType(s)]

ResolveSchema ==
  /\ phase = "schemas" /\ cursor <= Len(doc.schemas)
  /\ LET entry == doc.schemas[cursor]
     IN IF entry.schema.kind = "ref"        \* deref_schema: InvalidRef
        THEN phase' = "failed" /\ UNCHANGED <<cursor, registry>>
        ELSE /\ registry' = [n \in DOMAIN registry \cup {entry.name} |->
                               IF n = entry.name THEN BuildModel(entry.schema)
                               ELSE registry[n]]
             /\ cursor' = cursor + 1
             /\ UNCHANGED phase
  /\ UNCHANGED <<doc, operations, security, webhooks>>

SchemasDone ==
  /\ phase = "schemas" /\ cursor > Len(doc.schemas)
  /\ phase' = "operations" /\ cursor' = 1
  /\ UNCHANGED <<doc, registry, operations, security, webhooks>>

(* Operations.  A parameter is [name, in, ty, required] or a reference into
   the component parameters; a cookie parameter becomes a header. *)
ResolveParameter(p) ==
  LET item == IF "ref" \in DOMAIN p
              THEN IF p.ref \in DOMAIN doc.parameters
                   THEN doc.parameters[p.ref] ELSE None
              ELSE p
  IN IF item = None \/ "ref" \in DOMAIN item THEN None
     ELSE [name |-> item.name, required |-> item.required,
           location |-> IF item.in = "cookie" THEN "header" ELSE item.in,
           ty |-> IF item.ty = None THEN [type |-> "Unknown"]
                  ELSE TypeOf[item.ty]]

(* The path item's parameters, then the operation's; the first of a name stays. *)
MergeParameters(shared, own) ==
  FoldLeft(LAMBDA out, p :
             LET ir == ResolveParameter(p)
             IN IF ir = None \/ \E i \in DOMAIN out : out[i].name = ir.name
                THEN out ELSE Append(out, ir),
           <<>>, shared \o own)

JsonBody(content) == IF content = None THEN None ELSE TypeOf[content]

(* A response that is a reference has no body; a default that is one is dropped.
   The default comes last, and only it keeps its description. *)
ResolveResponses(rs) ==
  LET numbered == SelectSeq(rs, LAMBDA r : r.status # Default)
      default == SelectSeq(rs, LAMBDA r : r.status = Default /\ ~r.ref)
      kept == numbered \o default
  IN [i \in DOMAIN kept |->
        [status |-> kept[i].status,
         described |-> kept[i].status = Default,
         body |-> IF kept[i].ref THEN None ELSE JsonBody(kept[i].json)]]

(* An id is a sequence of words; the braces of a parameter are not part of it. *)
OperationId(method, path, id) ==
  IF id = None THEN <<method>> \o [i \in DOMAIN path |-> path[i].name] ELSE id

ResolveOperation ==
  /\ phase = "operations" /\ cursor <= Len(doc.operations)
  /\ LET op == doc.operations[cursor]
     IN operations' =
          IF op.item = "ref" THEN operations
          ELSE Append(operations,
                 [id |-> OperationId(op.method, op.path, op.id),
                  method |-> op.method, path |-> op.path,
                  slash |-> op.slash, summary |-> op.summary,
                  parameters |-> MergeParameters(op.shared, op.own),
                  body |-> JsonBody(op.json),
                  responses |-> ResolveResponses(op.responses)])
  /\ cursor' = cursor + 1
  /\ UNCHANGED <<doc, phase, registry, security, webhooks>>

OperationsDone ==
  /\ phase = "operations" /\ cursor > Len(doc.operations)
  /\ phase' = "security" /\ cursor' = 1
  /\ UNCHANGED <<doc, registry, operations, security, webhooks>>

(* The schemes the global requirements name, bearer and API key ones only. *)
MapScheme(s) == CASE s.type = "http" /\ s.name = "bearer" -> <<"HttpBearer">>
                  [] s.type = "apiKey" -> <<"ApiKey", s.name>>
                  [] OTHER -> None

ResolveSecurity ==
  /\ phase = "security"
  /\ LET known == SelectSeq(doc.security, LAMBDA n : n \in DOMAIN doc.schemes)
         mapped == [i \in DOMAIN known |-> MapScheme(doc.schemes[known[i]])]
     IN security' = SelectSeq(mapped, LAMBDA s : s # None)
  /\ phase' = "webhooks"
  /\ UNCHANGED <<doc, cursor, registry, operations, webhooks>>

(* Webhooks come from the raw 3.1 JSON, before the downgrade: a nullable type is
   still an array of types there, and nothing but a reference or one plain type
   is understood. *)
WebhookType[s \in Schemas] ==
  CASE s.kind = "ref" -> Ref(s.format)
    [] s.kind # "ref" /\ s.nullable -> [type |-> "Unknown"]
    [] s.kind \in {"string", "enum"} /\ ~s.nullable ->
         [type |-> "Scalar", scalar |-> "String"]
    [] s.kind \in {"integer", "number", "boolean"} /\ ~s.nullable -> TypeOf[s]
    [] s.kind = "array" /\ ~s.nullable ->
         [type |-> "Array", nullable |-> FALSE,
          item |-> IF s.of = None THEN [type |-> "Unknown"] ELSE WebhookType[s.of]]
    [] s.kind = "object" /\ ~s.nullable -> [type |-> "Any"]
    [] OTHER -> [type |-> "Unknown"]

WebhookBody(s) == IF s = None THEN None ELSE WebhookType[s]

ResolveWebhook ==
  /\ phase = "webhooks" /\ cursor <= Len(doc.webhooks)
  /\ LET w == doc.webhooks[cursor]
     IN webhooks' = Append(webhooks,
          [name |-> w.name, method |-> w.method, required |-> w.required,
           body |-> WebhookBody(w.json),
           responses |-> [i \in DOMAIN w.responses |->
                            [status |-> w.responses[i].status,
                             body |-> WebhookBody(w.responses[i].json)]]])
  /\ cursor' = cursor + 1
  /\ UNCHANGED <<doc, phase, registry, operations, security>>

Finish ==
  /\ phase = "webhooks" /\ cursor > Len(doc.webhooks)
  /\ phase' = "done"
  /\ UNCHANGED <<doc, cursor, registry, operations, security, webhooks>>

ResolveInit ==
  /\ doc \in Docs
  /\ phase = "schemas" /\ cursor = 1
  /\ registry = EmptyFn
  /\ operations = <<>> /\ security = <<>> /\ webhooks = <<>>

ResolveNext ==
  \/ ResolveSchema \/ SchemasDone
  \/ ResolveOperation \/ OperationsDone
  \/ ResolveSecurity \/ ResolveWebhook \/ Finish
===============================================================================
