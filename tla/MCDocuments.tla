----------------------------- MODULE MCDocuments -----------------------------
(***************************************************************************)
(* The pipeline that reads a document and the tools that look at what it   *)
(* resolved to: three schemas that refer to each other in every way, a few *)
(* sets of operations; and, apart from it, the loader on 3.1 trees and     *)
(* directories of versions, and the commands that compare documents, on    *)
(* the histories of MCCompare.                                             *)
(***************************************************************************)
EXTENDS SpecTools, MCCompare

LOCAL G == INSTANCE Graphs

VARIABLE part

(* Schemas. *)
Sch(k) == [kind |-> k, nullable |-> FALSE, format |-> None, of |-> None,
           props |-> EmptyFn, required |-> {}, members |-> <<>>, meta |-> FALSE]
To(n) == [Sch("ref") EXCEPT !.format = n]
Has1(p, s, req) == [Sch("object") EXCEPT !.props = p :> s, !.required = req]
List(s) == [Sch("array") EXCEPT !.of = s]
Values(s) == [Sch("object") EXCEPT !.of = s]
AllOf(a, b) == [Sch("allOf") EXCEPT !.members = <<a, b>>]
OneOf(a, b) == [Sch("oneOf") EXCEPT !.members = <<a, b>>]

Named3 == {"A", "B", "C"}
Strings == Sch("string")
Day == [Sch("string") EXCEPT !.format = "date"]
Note == [Sch("any") EXCEPT !.meta = TRUE]
Own == Has1("z", Sch("boolean"), {"z"})
Optional == Has1("x", To("C"), {})
Demand == [Sch("object") EXCEPT !.required = {"x"}]      \* of a name it does not declare

AnyModel ==
  {Strings, [Sch("enum") EXCEPT !.meta = TRUE], Has1("x", Day, {"x"}), Values(To("A")),
   AllOf(To("B"), Note), List(To("Gone"))}
  \cup {Has1("x", To(n), {"x"}) : n \in Named3}
  \cup {Has1("y", List(To(n)), {}) : n \in {"B", "C"}}
  \cup {AllOf(To(n), Own) : n \in Named3}
  \cup {AllOf(Demand, To("B")), AllOf(Demand, Own), AllOf(To("A"), Optional), AllOf(AllOf(To("B"), Demand), Own)}
  \cup {OneOf(To("B"), Sch("integer")), OneOf(Sch("number"), To("C"))}

Ends == {Has1("x", Day, {"x"}), Has1("y", List(To("B")), {}), AllOf(To("A"), Own),
         OneOf(To("B"), Sch("integer")), [Sch("enum") EXCEPT !.meta = TRUE]}

(* The parts of the schemas above, so that types can be computed for all. *)
Leaves == {To(n) : n \in Named3 \cup {"Gone"}} \cup
          {Strings, Day, Note, Own, Sch("boolean"), Sch("integer"), Sch("number"),
           [Sch("string") EXCEPT !.format = "uuid"], Sch("enum")}
MCSchemas ==
  AnyModel \cup Leaves \cup {List(To(n)) : n \in Named3 \cup {"Gone"}}
           \cup {Demand, AllOf(To("B"), Demand), Optional, Values(To("C")), [List(To("A")) EXCEPT !.nullable = TRUE]}

(* Operations. *)
Seg(n) == [name |-> n, param |-> FALSE]
Hole(n) == [name |-> n, param |-> TRUE]
Reply(status, body) == [status |-> status, json |-> body, ref |-> FALSE]
Elsewhere(status) == [status |-> status, json |-> None, ref |-> TRUE]
Op(method, path, responses) ==
  [item |-> "item", method |-> method, path |-> path, slash |-> FALSE, id |-> None,
   summary |-> TRUE, shared |-> <<>>, own |-> <<>>, json |-> None,
   responses |-> responses, security |-> None]
Param(n, in, ty) == [name |-> n, in |-> in, required |-> in = "path", ty |-> ty]

Operations ==
  [plain |-> <<Op("get", <<Seg("a")>>, <<Reply(200, To("A")), Reply(404, None)>>),
               [Op("post", <<Seg("a")>>, <<Reply(201, List(To("B")))>>) EXCEPT
                  !.json = To("B"), !.security = <<"key">>]>>,
   params |-> <<[Op("get", <<Seg("a"), Hole("id")>>, <<Reply(200, To("A"))>>) EXCEPT
                   !.shared = <<Param("id", "path", Strings), [ref |-> "Gone"]>>,
                   !.own = <<Param("id", "cookie", To("C")), [ref |-> "page"]>>],
                [Op("get", <<Seg("a"), Seg("id")>>, <<>>) EXCEPT !.slash = TRUE]>>,
   statuses |-> <<Op("put", <<Seg("a")>>, <<Reply(202, To("B"))>>),
                  Op("delete", <<Seg("a")>>, <<Reply(204, None)>>),
                  Op("head", <<Seg("a")>>, <<Reply(200, None)>>)>>,
   defaults |-> <<Op("get", <<Seg("a")>>, <<Reply(Default, To("C"))>>),
                  [Op("patch", <<Seg("a")>>, <<Elsewhere(200), Elsewhere(Default)>>) EXCEPT
                     !.security = <<>>, !.summary = FALSE],
                  [Op("get", <<Seg("b")>>, <<>>) EXCEPT !.item = "ref"]>>,
   errors |-> <<Op("get", <<Seg("a")>>, <<Reply(404, To("C")), Reply(200, Values(To("C")))>>)>>]

Hooks == {<<>>, <<[name |-> "hook", method |-> "post", required |-> TRUE, json |-> To("C"),
                   responses |-> <<Reply(200, [List(To("A")) EXCEPT !.nullable = TRUE])>>]>>}

Schemes == [bearer |-> [type |-> "http", name |-> "bearer"],
            key |-> [type |-> "apiKey", name |-> "X-Key"],
            oauth |-> [type |-> "oauth2", flows |-> FALSE]]
Global == [plain |-> <<"key", "bearer">>, params |-> <<"bearer">>, statuses |-> <<>>,
           defaults |-> <<"oauth">>, errors |-> <<"ghost", "key">>]

Doc(a, b, c, use, hook) ==
  [schemas |-> <<[name |-> "A", schema |-> a], [name |-> "B", schema |-> b],
                 [name |-> "C", schema |-> c]>>,
   operations |-> Operations[use], parameters |-> "page" :> Param("page", "query", None),
   schemes |-> Schemes, security |-> Global[use], webhooks |-> hook]

MCDocs ==
  {Doc(a, b, c, "plain", <<>>) : a, b \in AnyModel, c \in Ends} \cup
  {Doc(a, b, c, use, hook) : a \in AnyModel \cup {To("B")}, hook \in Hooks,
                             b \in {Optional, AllOf(To("A"), Own)},
                             c \in {Strings, AllOf(To("B"), Own), Has1("x", Day, {"x"})},
                             use \in DOMAIN Operations}

(* Trees for the loader. *)
Ref31 == Obj("$ref" :> Str("A") @@ "description" :> Str("text"))
Types31 == {Str("string"), Arr(<<Str("string"), NullType>>), Arr(<<NullType>>),
            Arr(<<Str("string"), Str("integer")>>)}
Parts31 ==
  {"const" :> Num(1), "prefixItems" :> Arr(<<Obj("const" :> Num(2)), Ref31>>),
   "prefixItems" :> Arr(<<>>), "exclusiveMinimum" :> Num(3), "items" :> Ref31,
   "required" :> Arr(<<Str("b")>>),
   "dependentRequired" :> Obj("a" :> Arr(<<Str("b"), Str("c")>>))}
Trees31 ==
  {Obj("type" :> t @@ p @@ q) : t \in Types31, p, q \in Parts31} \cup {Ref31}
MCTexts ==
  {Garbage} \cup
  {Obj("openapi" :> Str(v) @@ "schemas" :> Obj("A" :> t)) : v \in {"3.0", "3.1"}, t \in Trees31}
  \cup
  {Obj("openapi" :> Str("3.1") @@ "paths" :> Obj(NoKeys) @@ "webhooks" :> w
        @@ "allOf" :> Arr(<<t, Ref31>>)) : t \in Trees31, w \in {Obj("hook" :> Ref31), Str("x")}}

File(n, ext, v) == [stem |-> n, ext |-> ext, version |-> v]
Folder(n, files) == [name |-> n, files |-> files]
Directory(n, entries) == [name |-> n, entries |-> entries]
MCFolders ==
  {Directory(9, {File(1, "yaml", 2), File(2, "json", 3),
                 Folder(3, {File(3, "yaml", 1), File(Openapi, "yaml", 4)})}),
   Directory(2, {File(1, "yaml", 0), File(3, "yaml", 5),
                 Folder(2, {File(3, "json", 1), File(Openapi, "yml", 0)})}),
   Directory(9, {File(4, "yaml", 1),
                 Folder(1, {File(Openapi, "json", 2), File(Openapi, "yml", 3),
                            File(Openapi, "yaml", 0)})}),
   Directory(9, {File(2, "yaml", 4), Folder(1, {File(2, "yaml", 3), File(4, "json", 2)})})}

--------------------------------------------------------------------------------
NoDoc == [schemas |-> <<>>]
loadVars == <<text, stage, json, hooks, folder>>

MCInit ==
  /\ part \in {"resolve", "load", "compare"}
  /\ IF part = "resolve" THEN ResolveInit
     ELSE /\ doc = NoDoc /\ phase = "idle" /\ cursor = 1 /\ registry = EmptyFn
          /\ operations = <<>> /\ security = <<>> /\ webhooks = <<>>
  /\ IF part = "load" THEN LoadInit
     ELSE /\ text = Garbage /\ folder = Directory(9, {}) /\ stage = "idle"
          /\ json = Obj(NoKeys) /\ hooks = Obj(NoKeys)
  /\ IF part = "compare" THEN Init
     ELSE history = <<>> /\ pos = 1 /\ snapshots = <<>> /\ report = NoReport

MCNext ==
  \/ part = "resolve" /\ ResolveNext /\ UNCHANGED <<loadVars, vars, part>>
  \/ part = "load" /\ LoadNext /\ UNCHANGED <<resolveVars, vars, part>>
  \/ part = "compare" /\ Next /\ UNCHANGED <<resolveVars, loadVars, part>>

MCSpec == MCInit /\ [][MCNext]_<<resolveVars, loadVars, vars, part>>

--------------------------------------------------------------------------------
(* What an allOf has to offer: everything its members have, theirs included. *)
RECURSIVE Flattened(_, _)
Flattened(s, seen) ==
  CASE s.kind = "object" -> DOMAIN s.props
    [] s.kind = "allOf" -> UNION {Flattened(s.members[i], seen) : i \in DOMAIN s.members}
    [] s.kind = "ref" /\ Named(s.format) # {} /\ s.format \notin seen ->
         Flattened(Component(s.format), seen \cup {s.format})
    [] OTHER -> {}

(* What its members require, theirs included.  If `own`, an allOf that is a
   member by reference counts only with the names it has as properties. *)
RECURSIVE Demanded(_, _, _)
Demanded(s, seen, own) ==
  CASE s.kind = "object" -> s.required
    [] s.kind = "allOf" -> UNION {Demanded(s.members[i], seen, own) : i \in DOMAIN s.members}
    [] s.kind = "ref" /\ Named(s.format) # {} /\ s.format \notin seen ->
         LET target == Component(s.format)
             names == Demanded(target, seen \cup {s.format}, own)
         IN IF own /\ target.kind = "allOf" THEN names \cap Flattened(target, {}) ELSE names
    [] OTHER -> {}

(* The members that are objects, there or behind a reference. *)
Direct(s) ==
  {s.members[i] : i \in {k \in DOMAIN s.members : s.members[k].kind = "object"}} \cup
  {Component(s.members[i].format) :
     i \in {k \in DOMAIN s.members : s.members[k].kind = "ref" /\ Inline(s.members[k].format)}}

(* No member is an allOf itself, but for references to earlier schemas. *)
InOrder(i) ==
  LET s == doc.schemas[i].schema
  IN \A k \in DOMAIN s.members :
       /\ s.kind = "allOf" => s.members[k].kind # "allOf"
       /\ (s.members[k].kind = "ref" /\ Named(s.members[k].format) # {}) =>
            \/ Component(s.members[k].format).kind # "allOf"
            \/ \E j \in 1..i - 1 : doc.schemas[j].name = s.members[k].format

(* resolve_schemas consults a registry that is still growing.  In any order of
   the schemas, cycles included, the model of an allOf has at least the properties
   of the members that are objects and at most those of all its members, however
   deep; a property is required if an object among them requires it, and only if
   some member does.  If every allOf comes after the allOf schemas it refers to,
   and none is written inside another, the model has all the properties, and one
   is required exactly if a member requires it, where an allOf that is a member
   counts only with the names that are properties of its own: what else it
   requires is lost. *)
AllOfComplete ==
  (part = "resolve" /\ phase = "done") =>
    \A i \in DOMAIN doc.schemas :
      LET s == doc.schemas[i].schema
          m == registry[doc.schemas[i].name]
          names == DOMAIN m.props
          required == {p \in names : m.props[p].required}
          direct == Direct(s)
      IN s.kind = "allOf" =>
           /\ UNION {DOMAIN d.props : d \in direct} \subseteq names
           /\ names \subseteq Flattened(s, {})
           /\ names \cap UNION {d.required : d \in direct} \subseteq required
           /\ required \subseteq Demanded(s, {}, FALSE)
           /\ (\A j \in DOMAIN doc.schemas : InOrder(j)) =>
                /\ names = Flattened(s, {})
                /\ required = names \cap Demanded(s, {}, TRUE)

(* Chains of k references. *)
Chains(k) ==
  LET W[j \in 0..k] == IF j = 0 THEN DOMAIN registry \cup UNION {RefGraph[n] : n \in DOMAIN registry}
                       ELSE {n \in DOMAIN registry : RefGraph[n] \cap W[j - 1] # {}}
  IN W[k]

UnusedAgree ==
  LET nodes == {n.id : n \in GraphNodes} \cup {e.to : e \in GraphEdges} \cup Roots
      linked == G!ConnectionsIn([node |-> nodes, edge |-> {<<e.from, e.to>> : e \in GraphEdges}])
      From(S) == {n \in nodes : \E r \in S : linked[r, n]}
  IN /\ UnusedSchemas = DOMAIN registry \ From(Roots)
     /\ LintReferenced \subseteq From(LintRoots)

DepthsAgree ==
  LET base == [A |-> 1, B |-> 2, C |-> 3, Gone |-> 4]
      size == Cardinality(DOMAIN base)
      Rank(perm) == [n \in DOMAIN base |-> IF base[n] = 4 THEN 4 ELSE perm[base[n]]]
  IN \A perm \in Permutations(1..3) :
       LET depths == Depths(Rank(perm))
       IN \A n \in DOMAIN registry \ Chains(size) :
            LET longest == Max({k \in 0..size : n \in Chains(k)})
            IN /\ depths[n] = longest
               /\ n \in AnalyzeSpec(Rank(perm)).deep <=> longest > 2

LintAgree ==
  LET default == LintWithConfig(DefaultConfig)
      editor == LintSwaggerEditor({"components", "file", "pointer"}).rules
  IN /\ \A r \in DOMAIN default : /\ r \in DOMAIN editor
                                  /\ editor[r].at = default[r].at
                                  /\ default[r].severity = "error" => editor[r].severity = "error"
     /\ \A r \in Rules :
          LET off == SetEnabled(SetSeverity(LoadConfig(None), r, "off"), r, TRUE)
          IN LintWithConfig(off) = [q \in DOMAIN default \ {r} |-> default[q]]

SecurityAgree ==
  /\ \A n \in Range(doc.security) \ DOMAIN doc.schemes : <<"undefined", n>> \in SecurityIssues
  /\ (/\ \A i \in DOMAIN doc.operations : doc.operations[i].security = None
      /\ \A i \in DOMAIN doc.security : /\ doc.security[i] \in DOMAIN doc.schemes
                                        /\ MapScheme(doc.schemes[doc.security[i]]) # None)
     => \A i \in DOMAIN operations :
          LET a == AnalyzeSecurity[i]
              b == AnalyzeSecurityDetailed[i]
          IN /\ a.requires = b.requires
             /\ b.requires => a.header = SchemeInfo(b.scheme).header

(* The tools that walk the same document agree: the analyzer's unused schemas
   are the ones no path of the reference graph leads to from a body; the linter
   marks nothing as used that is not reachable; the depth of a reference chain
   that meets no cycle is the longest one, in whatever order the hash set gives
   the targets; a rule that is off stays off and the editor profile reports
   whatever the default does, as gravely; and the two security views name the
   same scheme when nothing overrides it and the resolver kept it. *)
ToolsAgree ==
  (part = "resolve" /\ phase = "done") => UnusedAgree /\ DepthsAgree /\ LintAgree /\ SecurityAgree

(* Types whose example validate accepts too: the example of an allOf is that of
   its first member, and the one of a schema that is no object is an object. *)
RECURSIVE Plain(_)
Plain(ty) ==
  CASE ty.type = "Array" -> Plain(ty.item)
    [] ty.type = "Map" -> Plain(ty.value)
    [] ty.type = "Composition" -> ty.kind # "allOf" /\ Plain(ty.members[1])
    [] ty.type = "Reference" /\ ty.name \in Objects -> registry[ty.name].shape.type = "Any"
    [] OTHER -> TRUE

(* The mock server answers what the verifier expects: it starts on a document
   without recursive schemas, and then an operation with a literal path, not a
   HEAD, whose first declared response is a 200 or 201 with a body verifies
   without an issue; the example is also valid for validate.rs if its type is
   plain. *)
VerifyAcceptsMock ==
  (part = "resolve" /\ phase = "done" /\ MockStarts) =>
    \A i \in DOMAIN operations :
      LET op == operations[i]
          r == op.responses[1]
      IN (/\ op.method # "head" /\ op.responses # <<>>
          /\ \A k \in DOMAIN op.path : ~op.path[k].param
          /\ r.status \in {200, 201} /\ r.body # None)
         => /\ VerifyApi[i] = {}
            /\ Plain(r.body) => IsValid(Routes[i].reply.body, r.body)

(* A directory is decided: at most one usable file, or one of a well-known name. *)
Decided(e) ==
  IsDir(e) => LET usable == {f \in e.files : f.version # 0}
              IN Cardinality(usable) <= 1 \/ \E f \in usable : f.stem = Openapi

VersionsAgree ==
  LET listings == Listings(folder.entries)
      Found(l) == Range(ScanVersions(folder.name, l))
      decided ==
        /\ \A e \in folder.entries : Decided(e)
        /\ \A l \in listings : \A v, w \in Found(l) : v.version = w.version => v = w
      Answers(wanted) == {LET v == ResolveSpecPath(folder.name, l, wanted)
                          IN IF v = Garbage THEN v ELSE <<v.version, v.parent, v.stem>> :
                            l \in listings}
  IN \A wanted \in 1..5 :
       /\ decided => Cardinality(Answers(wanted)) = 1
       /\ \A l \in listings :
            (\E v \in Found(l) : v.version = wanted) =>
              ResolveSpecPath(folder.name, l, wanted).version = wanted

(* What the loader hands to the 3.0 parser has nothing of 3.1 left, at any depth
   and whatever rule moved it there, except a list of types that no rule
   understands; webhooks are kept as they were.  In a directory of versions a
   file that names the wanted version is taken before one that is called so; and
   in whatever order the directories are listed the same file is found, when the
   versions differ and each subdirectory has a usable openapi file or no more than
   one usable file. *)
LoadingIsExact ==
  /\ (part = "load" /\ stage = "parsed" /\ Is31(json)) => Detect31Features(json) = {}
  /\ (part = "load" /\ stage = "typed" /\ Is31(json)) =>
       /\ Detect31Features(json) \subseteq {"type"}
       /\ DowngradeValue(ExtractRefSiblings(json)) = json
       /\ Has(text, "webhooks") /\ IsObj(text.f["webhooks"]) => hooks = text.f["webhooks"]
  /\ (part = "load" /\ stage = "text") => VersionsAgree
================================================================================
