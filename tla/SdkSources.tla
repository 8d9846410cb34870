------------------------------ MODULE SdkSources ------------------------------
(***************************************************************************)
(* What the emitters write, identifiers, the members of a model and the    *)
(* files of an SDK, and what the written code does: a call of a method and *)
(* the reader of a union.                                                  *)
(***************************************************************************)
EXTENDS Integers, SequencesExt, FiniteSets

-------------------------------------------------------------------------------
(* How the three emitters turn a name of the document into an identifier.
   A name is a sequence of characters over a small alphabet: two letters,
   one of them in both cases, a digit, the underscore and the minus sign,
   which stands for every character the emitters spell out.  A suffix or a
   spelled-out character is one symbol that counts as a letter.  The names
   matter only through what makes two of them collide and what makes one
   unusable, so one reserved word, "if", stands for the three lists, and
   one type, "F", for the types the SDKs declare themselves. *)

Lowers == {"i", "f"}

Uppers == {"I", "F"}

Digits == {"2", "3", "4", "5"}

Words == {"Minus", "Model", "Field", "Val", "X", "minus", "x", "n", "p",
          "AdditionalProperties"}

Upper(c) == CASE c = "i" -> "I" [] c = "f" -> "F" [] OTHER -> c

Lower(c) == CASE c = "I" -> "i" [] c = "F" -> "f" [] OTHER -> c

IsAlnum(c) == c \in Lowers \cup Uppers \cup Digits \cup Words

DigitOf(n) == <<"0", "1", "2", "3", "4", "5">>[n + 1]

StartsWithDigit(name) == name # <<>> /\ name[1] \in Digits

is_reserved(name) == name = <<"i", "f">>

is_sdk_builtin_type(name) == name = <<"F">>

-----------------------------------------------------------------------------
\* Everything but letters and digits ends a word; each word starts in upper
\* case.  Rust and Go pad with X, TypeScript with an underscore.
PascalStep(acc, c) ==
  IF ~IsAlnum(c) THEN [acc EXCEPT !.up = TRUE]
  ELSE [out |-> Append(acc.out, IF acc.up THEN Upper(c) ELSE c), up |-> FALSE]

pascal(name, pad) ==
  LET out == FoldLeft(PascalStep, [out |-> <<>>, up |-> TRUE], name).out
  IN IF out = <<>> \/ StartsWithDigit(out) THEN <<pad>> \o out ELSE out

safe_model_name(name) ==
  IF is_sdk_builtin_type(name) THEN Append(name, "Model") ELSE name

\* The TypeScript form of a type name.
ts_pascal(name) == pascal(name, "_")

camel(name) ==
  LET p == ts_pascal(name) IN <<Lower(p[1])>> \o SubSeq(p, 2, Len(p))

-----------------------------------------------------------------------------
\* Rust: the minus sign is spelled out, every upper-case letter but the first
\* character opens a word, runs of underscores written as such collapse, and
\* the ends are trimmed.
Expand(name) ==
  FlattenSeq([k \in DOMAIN name |->
    IF name[k] = "-" THEN <<"minus", "_">> ELSE <<name[k]>>])

EndsWithUnderscore(s) == s # <<>> /\ s[Len(s)] = "_"

SnakeStep(s, k, out) ==
  LET c == s[k]
  IN CASE c \in Uppers -> out \o (IF k > 1 THEN <<"_">> ELSE <<>>) \o <<Lower(c)>>
       [] IsAlnum(c) -> Append(out, c)
       [] c = "_" /\ ~EndsWithUnderscore(out) -> Append(out, "_")
       [] OTHER -> out

Trim(s) ==
  LET kept == {k \in DOMAIN s : s[k] # "_"}
  IN IF kept = {} THEN <<>>
     ELSE SubSeq(s, CHOOSE k \in kept : \A j \in kept : k <= j,
                    CHOOSE k \in kept : \A j \in kept : j <= k)

snake(name) ==
  LET s == Expand(name)
      scan[k \in 0..Len(s)] == IF k = 0 THEN <<>> ELSE SnakeStep(s, k, scan[k - 1])
      word == Trim(scan[Len(s)])
      out == IF word = <<>> THEN <<"x">>
             ELSE IF StartsWithDigit(word) THEN <<"n", "_">> \o word ELSE word
  IN IF is_reserved(out) THEN Append(out, "_") ELSE out

-----------------------------------------------------------------------------
\* Go: exported type and field names, and parameter names.
GoWordStep(name, k, out) ==
  IF name[k] \in Uppers
  THEN out \o (IF k > 1 THEN <<"_">> ELSE <<>>) \o <<Lower(name[k])>>
  ELSE Append(out, IF IsAlnum(name[k]) THEN name[k] ELSE "_")

go_snake(name) ==
  LET scan[k \in 0..Len(name)] ==
        IF k = 0 THEN <<>> ELSE GoWordStep(name, k, scan[k - 1])
  IN scan[Len(name)]

export_ident(name) == safe_model_name(pascal(name, "X"))

field_name(name) ==
  LET spelled == [k \in DOMAIN name |-> IF name[k] = "-" THEN "Minus" ELSE name[k]]
      out == pascal(spelled, "X")
  IN IF is_reserved([k \in DOMAIN out |-> Lower(out[k])]) THEN Append(out, "Field") ELSE out

GoParamStep(name, k, acc) ==
  IF ~IsAlnum(name[k]) THEN [acc EXCEPT !.up = TRUE]
  ELSE IF k = 1 THEN [acc EXCEPT !.out = Append(@, Lower(name[k]))]
  ELSE [out |-> Append(acc.out, IF acc.up THEN Upper(name[k]) ELSE name[k]), up |-> FALSE]

go_param_ident(name) ==
  LET scan[k \in 0..Len(name)] ==
        IF k = 0 THEN [out |-> <<>>, up |-> FALSE] ELSE GoParamStep(name, k, scan[k - 1])
      out == scan[Len(name)].out
  IN IF out = <<>> THEN <<"p">>
     ELSE IF is_reserved(out) THEN Append(out, "Val") ELSE out

-----------------------------------------------------------------------------
\* TypeScript: a property keeps its name, in quotes when it is no identifier.
is_valid_identifier(name) ==
  /\ name # <<>> /\ ~StartsWithDigit(name)
  /\ \A k \in DOMAIN name : IsAlnum(name[k]) \/ name[k] = "_"

property_key(name) ==
  [text |-> name, quoted |-> ~is_valid_identifier(name) \/ is_reserved(name)]

-----------------------------------------------------------------------------
\* The first of base, base<sep>2, base<sep>3, ... that is not used yet.
unique_field_name(base, sep, used) ==
  LET candidate(n) == IF n = 1 THEN base ELSE base \o sep \o <<DigitOf(n)>>
      n == CHOOSE n \in 1..(Cardinality(used) + 1) :
             candidate(n) \notin used /\ \A m \in 1..(n - 1) : candidate(m) \in used
  IN candidate(n)

-------------------------------------------------------------------------------
(* The emission of one model by each of the three emitters, member by
   member: a struct or an interface from the properties of an object, with
   the base it inherits from, or an enumeration from its values; and, the
   same way, the signature of a method from its parameters.  Doc comments,
   deprecation attributes and the rendering of types are left out.  A
   member keeps the identifier it is declared under and the wire names it
   reads and writes. *)

CONSTANTS WireNames,   \* the property names and enumeration values of a document
          BaseNames,   \* the names of the models one may inherit from
          MaxMembers   \* bound: properties or values of one model

ASSUME NamesAssumption ==
  WireNames \subseteq Seq(STRING) /\ BaseNames \subseteq Seq(STRING)
ASSUME MembersAssumption == MaxMembers \in Nat

VARIABLES lang, model, at, used, members

NoBase == [name |-> <<>>, props |-> {}]

Lists == UNION {{s \in [1..n -> WireNames] : IsInjective(s)} : n \in 1..MaxMembers}

Structs ==
  {[kind |-> "struct", props |-> s, required |-> req, base |-> b, addl |-> a] :
     s \in Lists, req \in {{}, WireNames},
     b \in {NoBase} \cup [name : BaseNames, props : {{w} : w \in WireNames}], a \in BOOLEAN}

\* The base's properties are among the model's own: the resolver merges them.
Models ==
  {m \in Structs : m.base.props \subseteq Range(m.props)}
    \cup {[kind |-> k, props |-> s, required |-> {}, base |-> NoBase, addl |-> FALSE] :
            k \in {"enum", "method"}, s \in Lists}

ModelsInit ==
  /\ lang \in {"rust", "go", "ts"}
  /\ model \in Models
  /\ at = 0 /\ used = {} /\ members = <<>>

Name == model.props[at]

Add(ident, wires, role) == members' = Append(members, [ident |-> ident, wires |-> wires, role |-> role])

-----------------------------------------------------------------------------
\* The base is a flattened field in Rust and an embedded struct in Go, and its
\* name is not entered among the used ones; an interface does without it.
EmitBase ==
  /\ at = 0
  /\ at' = 1
  /\ IF model.base = NoBase \/ lang = "ts" THEN UNCHANGED members
     ELSE Add(IF lang = "rust" THEN snake(model.base.name) ELSE export_ident(model.base.name),
              model.base.props, "base")
  /\ UNCHANGED <<lang, model, used>>

AtStruct == model.kind = "struct" /\ at \in DOMAIN model.props

Inherited == lang # "ts" /\ Name \in model.base.props

SkipInherited ==
  /\ AtStruct /\ Inherited
  /\ at' = at + 1
  /\ UNCHANGED <<lang, model, used, members>>

\* Mutant: the rename is decided before the identifier is made unique.
RustWireEarly(ident, renamed) == IF snake(Name) # Name THEN Name ELSE ident

\* serde reads the identifier unless a rename gives the wire name.
RustWire(ident, renamed) == IF renamed THEN Name ELSE ident

RustField ==
  /\ AtStruct /\ lang = "rust" /\ ~Inherited
  /\ LET field == unique_field_name(snake(Name), <<"_">>, used)
     IN /\ used' = used \cup {field}
        /\ Add(field, {RustWire(field, field # Name)}, "field")
  /\ at' = at + 1
  /\ UNCHANGED <<lang, model>>

\* encoding/json leaves out a field whose whole tag is a minus sign.
GoTag(required) == IF Name = <<"-">> /\ required THEN {} ELSE {Name}

GoField ==
  /\ AtStruct /\ lang = "go" /\ ~Inherited
  /\ LET field == unique_field_name(field_name(Name), <<>>, used)
     IN /\ used' = used \cup {field}
        /\ Add(field, GoTag(Name \in model.required), "field")
  /\ at' = at + 1
  /\ UNCHANGED <<lang, model>>

TsProperty ==
  /\ AtStruct /\ lang = "ts"
  /\ Add(property_key(Name), {Name}, "field")
  /\ at' = at + 1
  /\ UNCHANGED <<lang, model, used>>

\* Go keeps the additional properties in a field that is never on the wire.
EmitAdditional ==
  /\ model.kind = "struct" /\ at = Len(model.props) + 1
  /\ at' = at + 1
  /\ IF model.addl /\ lang = "go" THEN Add(<<"AdditionalProperties">>, {}, "additional") ELSE UNCHANGED members
  /\ UNCHANGED <<lang, model, used>>

-----------------------------------------------------------------------------
AtEnum == model.kind = "enum" /\ at \in DOMAIN model.props

\* A Rust variant is the value in pascal case made unique, renamed to the value.
RustVariant ==
  /\ AtEnum /\ lang = "rust"
  /\ LET variant == unique_field_name(pascal(Name, "X"), <<>>, used)
     IN used' = used \cup {variant} /\ Add(variant, {Name}, "field")
  /\ at' = at + 1
  /\ UNCHANGED <<lang, model>>

\* A Go constant is the value in pascal case after the name of the type; two
\* values may give one name.
GoConstant ==
  /\ AtEnum /\ lang = "go"
  /\ Add(<<"I">> \o pascal(Name, "X"), {Name}, "constant")
  /\ at' = at + 1
  /\ UNCHANGED <<lang, model, used>>

\* TypeScript keeps the literals in a union of strings.
TsLiteral ==
  /\ AtEnum /\ lang = "ts"
  /\ Add([text |-> Name, quoted |-> TRUE], {Name}, "field")
  /\ at' = at + 1
  /\ UNCHANGED <<lang, model, used>>

\* The parameters of a method are named one by one; nothing keeps two of them
\* apart.  In TypeScript they are the members of an interface.
EmitParameter ==
  /\ model.kind = "method" /\ at \in DOMAIN model.props
  /\ Add(CASE lang = "rust" -> snake(Name)
           [] lang = "go" -> go_param_ident(Name)
           [] lang = "ts" -> property_key(Name), {Name}, "parameter")
  /\ at' = at + 1
  /\ UNCHANGED <<lang, model, used>>

\* The method itself, named after the operation (here as its first parameter).
EmitMethodName ==
  /\ model.kind = "method" /\ at = Len(model.props) + 1
  /\ LET id == model.props[1]
     IN Add(CASE lang = "rust" -> snake(id)
              [] lang = "go" -> export_ident(id)
              [] lang = "ts" -> camel(id), {}, "method")
  /\ at' = at + 1
  /\ UNCHANGED <<lang, model, used>>

Emitted == at = Len(model.props) + (IF model.kind = "enum" THEN 1 ELSE 2)

EmitStep ==
  \/ EmitBase \/ SkipInherited \/ RustField \/ GoField \/ TsProperty
  \/ EmitAdditional \/ RustVariant \/ GoConstant \/ TsLiteral
  \/ EmitParameter \/ EmitMethodName

-----------------------------------------------------------------------------
\* Something the language takes for a name there.
Usable(m) ==
  CASE lang = "ts" /\ m.role # "method" ->
         m.ident.quoted \/ (is_valid_identifier(m.ident.text) /\ ~is_reserved(m.ident.text))
    [] lang = "go" /\ m.role # "parameter" ->
         is_valid_identifier(m.ident) /\ m.ident[1] \notin Lowers \cup {"_"}
    [] lang = "ts" /\ m.role = "method" -> is_valid_identifier(m.ident)
    [] OTHER -> is_valid_identifier(m.ident) /\ ~is_reserved(m.ident)

\* The members that are kept apart: the fields of an object, the variants or
\* literals of an enumeration, and in TypeScript the parameters.  The constants
\* of a Go enumeration, the parameters of Rust and Go, the base and the
\* AdditionalProperties of Go are not, and may clash.
Apart(m) == m.role = "field" \/ (lang = "ts" /\ m.role = "parameter")

\* FieldsAreSound: whatever names a document uses, the members emitted for a
\* model or a method have usable identifiers, but for a Go parameter, which may
\* start with a digit; no two fields, variants, literals or TypeScript
\* parameters share one, while of the other members nothing is said; and once
\* the model is complete every wire name is read and written by exactly one
\* member, with the exception of a required Go property called "-".
FieldsAreSound ==
  /\ \A k \in DOMAIN members :
       \/ Usable(members[k])
       \/ lang = "go" /\ members[k].role = "parameter" /\ StartsWithDigit(members[k].ident)
  /\ \A j, k \in DOMAIN members :
       (/\ Apart(members[j]) /\ Apart(members[k])
        /\ members[j].ident = members[k].ident) => j = k
  /\ Emitted => \A w \in Range(model.props) :
       \/ Cardinality({k \in DOMAIN members : w \in members[k].wires}) = 1
       \/ lang = "go" /\ w = <<"-">> /\ w \in model.required

-------------------------------------------------------------------------------
(* How an SDK is written to disk.  The emitters group the operations by
   tag, derive one file per tag, append the barrel that names them, and
   write all of them in parallel; a write that fails is not noticed.  The
   content of a file is the set of operations in it; the static files and
   the ones for models are left out. *)

CONSTANTS Tags,        \* the tags of a document; <<>> for an operation without one
          Ops          \* the operations

ASSUME TagsAssumption == Tags \subseteq Seq(STRING)
ASSUME OpsAssumption == "torn" \notin Ops

VARIABLES target, tagOf, files, opened, disk, report, failed

\* Stands for the tag "Default", which a document may use as well.
Default == <<"I", "i", "2">>

Barrel == <<"barrel">>

Torn == {"torn"}

\* An operation without a tag goes to the group called Default.
TagOf(o) == IF tagOf[o] = <<>> THEN Default ELSE tagOf[o]

Groups == {TagOf(o) : o \in Ops}

\* The name of a tag's file.
Stem(tag) ==
  CASE target = "ts" -> ts_pascal(tag)
    [] target = "rust" -> snake(pascal(tag, "X"))
    [] target = "go" -> go_snake(pascal(tag, "X"))

\* No group's file is taken for the barrel: "mod" is a reserved word of Rust and
\* gets an underscore, and "index" an upper-case letter in TypeScript.
PathOf(tag) == <<"api", Stem(tag)>>

\* The TypeScript barrels list the tags the operations name, so not the group
\* of the ones without a tag.
TsListed == {PathOf(tagOf[o]) : o \in {p \in Ops : tagOf[p] # <<>>}}

FilesInit ==
  /\ target \in {"rust", "go", "ts"}
  /\ tagOf \in [Ops -> Tags]
  /\ files = {} /\ opened = {} /\ disk = <<>> /\ report = {} /\ failed = {}

\* Mutant: the group is matched with the tag as the operation has it.
GroupFileTagged(g) == [path |-> PathOf(g), content |-> {o \in Ops : tagOf[o] = g}]

GroupFile(g) == [path |-> PathOf(g), content |-> {o \in Ops : TagOf(o) = g}]

\* The triples generate() collects before it writes anything; barrel is what
\* the file that names the others lists.
CollectWith(barrel) ==
  /\ files = {}
  /\ files' = {GroupFile(g) : g \in Groups} \cup barrel
  /\ UNCHANGED <<target, tagOf, opened, disk, report, failed>>

BarrelOf(paths) == {[path |-> Barrel, content |-> paths]}

\* api/mod.rs names the module of every group.
RustCollect == target = "rust" /\ CollectWith(BarrelOf({PathOf(g) : g \in Groups}))

\* Go has one package and no barrel.
GoCollect == target = "go" /\ CollectWith({})

TsCollect == target = "ts" /\ CollectWith(BarrelOf(TsListed))

\* One worker writes one file: it opens the path, which truncates it, and then
\* writes the content from the start.  Over what another worker wrote to the
\* same path meanwhile the result is either whole or torn.  The outcome of
\* the write is thrown away and the path reported all the same.
OpenFile(f) ==
  /\ f \in files \ (opened \cup report)
  /\ opened' = opened \cup {f}
  /\ disk' = [p \in DOMAIN disk \cup {f.path} |-> IF p = f.path THEN {} ELSE disk[p]]
  /\ UNCHANGED <<target, tagOf, files, report, failed>>

FillFile(f) ==
  /\ f \in opened
  /\ opened' = opened \ {f} /\ report' = report \cup {f}
  /\ \E c \in {f.content} \cup (IF disk[f.path] = {} THEN {} ELSE {Torn}) :
       disk' = [disk EXCEPT ![f.path] = c]
  /\ UNCHANGED <<target, tagOf, files, failed>>

WriteFails(f) ==
  /\ f \in files \ report
  /\ opened' = opened \ {f} /\ report' = report \cup {f}
  /\ failed' = failed \cup {f.path}
  /\ UNCHANGED <<target, tagOf, files, disk>>

FileStep ==
  \/ RustCollect \/ GoCollect \/ TsCollect
  \/ \E f \in files : OpenFile(f) \/ FillFile(f) \/ WriteFails(f)

Generated == files # {} /\ report = files

-----------------------------------------------------------------------------
\* Two groups whose files have one name.
Clash(g, h) == g # h /\ Stem(g) = Stem(h)

\* FilesComplete: whatever order the workers write in, once generation has
\* ended every operation whose group has a file name of its own is in that file,
\* unless its write failed, in no other file whole, and every module the barrel
\* lists is one of the files.
FilesComplete ==
  Generated =>
    /\ \A o \in Ops :
         LET g == TagOf(o) IN
         \/ PathOf(g) \in failed \/ (\E h \in Groups : Clash(g, h))
         \/ {p \in DOMAIN disk \ {Barrel} : o \in disk[p]} = {PathOf(g)}
    /\ target = "go" \/ Barrel \in failed \/ disk[Barrel] \subseteq {f.path : f \in files}

-------------------------------------------------------------------------------
(* One call of a generated method in each of the three SDKs: the path is
   filled in segment by segment, the query parameter by parameter, the
   request sent and the answer decoded.  The path of the operation is
   /items/{id}; "id" may be declared as a path parameter or not; "q" is a
   query parameter and "h" a header one.  A value is told apart only as
   far as the emitted code does: absent, the zero value of its type, a
   plain value, or a string with a slash in it. *)

VARIABLES sdk, op, args, step, path, query, headers, outcome

Kinds == {"string", "int", "ref", "array"}

Template == <<"items", "{id}">>

\* The bodies of the responses an operation may declare; "none" has no body.
Statuses == {"200", "201", "404"}

Operations ==
  {[declared |-> d, kind |-> k, required |-> r, header |-> h, body |-> b, responses |-> rs] :
     d \in BOOLEAN, k \in Kinds, r \in BOOLEAN, h \in BOOLEAN, b \in BOOLEAN,
     rs \in UNION {[S -> {"none", "Pet"}] : S \in SUBSET Statuses}}

\* A required argument has a value; Go has no absent one and passes the zero.
\* `validate` is the option of the client, which only the methods of TypeScript
\* read.
Arguments(o) ==
  {a \in [id : {"zero", "plain", "slash"}, q : {"absent", "zero", "plain", "slash"},
          h : {"absent", "plain"}, validate : BOOLEAN] :
     /\ o.required => a.q # "absent"
     /\ a.q = "slash" => o.kind = "string"}

MethodsInit ==
  /\ sdk \in {"rust", "go", "ts"}
  /\ op \in Operations
  /\ args \in Arguments(op) /\ (args.validate => sdk = "ts")
  /\ step = "path" /\ path = <<>> /\ query = <<>> /\ headers = {} /\ outcome = "pending"

-----------------------------------------------------------------------------
\* A filled-in segment.  Rust and Go escape the slash; the TypeScript template
\* does not, so that the value becomes two segments.
Filled(v) == IF v = "slash" /\ sdk = "ts" THEN <<"slash", "slash">> ELSE <<v>>

\* Only a declared parameter is filled in: Rust leaves the bare name, the
\* others the placeholder.
Unfilled == IF sdk = "rust" THEN <<"id">> ELSE <<"{id}">>

Segment ==
  LET s == Template[Len(path) + 1]
  IN IF s # "{id}" THEN <<s>> ELSE IF op.declared THEN Filled(args.id) ELSE Unfilled

PathSegment ==
  /\ step = "path" /\ Len(path) < Len(Template)
  /\ path' = path \o Segment
  /\ UNCHANGED <<sdk, op, args, step, query, headers, outcome>>

PathDone ==
  /\ step = "path" /\ Len(path) >= Len(Template)
  /\ step' = "query"
  /\ UNCHANGED <<sdk, op, args, path, query, headers, outcome>>

-----------------------------------------------------------------------------
\* An array is written as JSON in Rust, as Go prints it, and as one pair per
\* element (two here, none for the empty one) in TypeScript.
rust_coerce_string(v) == IF op.kind = "array" THEN <<"json">> ELSE <<v>>

coerce_to_string(v) == IF op.kind = "array" THEN <<"printed">> ELSE <<v>>

encodeQuery(v) ==
  IF op.kind # "array" THEN <<v>> ELSE IF v = "zero" THEN <<>> ELSE <<"element", "element">>

\* What the caller passes in Go for an argument it does not have.
GoValue == IF args.q = "absent" THEN "zero" ELSE args.q

\* Mutant: a reference is checked like a scalar and everything else goes out.
zero_check_flipped(v) == v # "zero" \/ op.kind # "ref"

\* An optional Go parameter goes out unless it is the zero value of a scalar
\* or an empty array; a reference always goes out.
zero_check(v) == v # "zero" \/ op.kind = "ref"

ToSend(q, h) ==
  /\ step = "query" /\ step' = "send"
  /\ query' = q /\ headers' = h
  /\ UNCHANGED <<sdk, op, args, path, outcome>>

\* Header parameters are part of the TypeScript signature only.
RustQuery ==
  /\ sdk = "rust"
  /\ ToSend(IF args.q = "absent" THEN <<>> ELSE rust_coerce_string(args.q), {})

GoQuery ==
  /\ sdk = "go"
  /\ ToSend(IF op.required \/ zero_check(GoValue) THEN coerce_to_string(GoValue) ELSE <<>>, {})

TsOptions ==
  /\ sdk = "ts"
  /\ ToSend(IF args.q = "absent" THEN <<>> ELSE encodeQuery(args.q),
            IF op.header /\ args.h # "absent" THEN {args.h} ELSE {})

\* validateRequest throws before anything is sent if the body, which is not
\* modelled, does not conform.
TsRefused ==
  /\ sdk = "ts" /\ args.validate /\ op.body
  /\ step = "query" /\ step' = "refused" /\ outcome' = "error"
  /\ UNCHANGED <<sdk, op, args, path, query, headers>>

-----------------------------------------------------------------------------
\* The body of the lowest success status, if it has one.
success_body ==
  LET twos == DOMAIN op.responses \ {"404"}
      first == IF "200" \in twos THEN "200" ELSE "201"
  IN IF twos = {} THEN "none" ELSE op.responses[first]

\* The answer is decoded into the result, if the method has one.  Its body is
\* JSON of that type, JSON of another one ("alien"), other text, or empty.  Rust
\* fails on all but the first, and a method without a result takes the decoding
\* error for success.
RustDecoded(b) == IF success_body = "none" \/ b = "json" THEN "ok" ELSE "error"

\* Go leaves the result at its zero value for an empty body.
GoDecoded(b) ==
  IF success_body = "none" \/ b \in {"json", "empty"} THEN "ok" ELSE "error"

\* TypeScript hands over the text of what is not JSON; validateResponse throws
\* on that and on JSON that does not conform, and passes over nothing at all.
TsDecoded(b) ==
  IF args.validate /\ success_body # "none" /\ b \in {"alien", "text"} THEN "error" ELSE "ok"

\* The API answers with success.
Answer(b) ==
  /\ step = "send" /\ step' = "answered"
  /\ outcome' = CASE sdk = "rust" -> RustDecoded(b)
                  [] sdk = "go" -> GoDecoded(b)
                  [] sdk = "ts" -> TsDecoded(b)
  /\ UNCHANGED <<sdk, op, args, path, query, headers>>

CallStep ==
  \/ PathSegment \/ PathDone \/ RustQuery \/ GoQuery \/ TsOptions \/ TsRefused
  \/ \E b \in {"json", "alien", "empty", "text"} : Answer(b)

-----------------------------------------------------------------------------
\* Arguments the three SDKs agree on: a declared path parameter without a
\* slash, a scalar query parameter, or a reference that is there, never the
\* zero value of an optional one.
Plain ==
  /\ op.declared /\ args.id # "slash"
  /\ op.kind \in {"string", "int"} \/ (op.kind = "ref" /\ args.q # "absent")
  /\ ~op.required => args.q # "zero"

\* No response of status 2xx has a body.
NoResult == \A s \in DOMAIN op.responses \ {"404"} : op.responses[s] = "none"

\* RequestsAgree: for plain arguments the request each SDK builds is the one
\* the operation describes: the template with its parameter filled in, the
\* query parameter exactly if the caller gave it one, whatever the SDK's way of
\* saying "absent"; and a method of an operation whose successes have no body
\* succeeds on every answer.
RequestsAgree ==
  /\ step \in {"send", "answered"} /\ Plain =>
       /\ path = <<"items", args.id>>
       /\ query = IF args.q = "absent" THEN <<>> ELSE <<args.q>>
  /\ step = "answered" /\ NoResult => outcome = "ok"

-------------------------------------------------------------------------------
(* How the generated code reads a value of a oneOf/anyOf model: the Rust
   untagged enum, the Go constructors New<Union> and New<Union>FromJSON,
   and the TypeScript narrow<Union>, each trying the arms in order.  An
   arm has the properties "u" and "v", some required, "u" a number or a
   string; with a discriminator every arm also requires the tag, which is
   an inline enumeration of one literal, a reference to such a model, or a
   plain string.  A value is a valid instance of one arm. *)

VARIABLES reader, union, value, trying, picked

None == "none"

Shapes ==
  {s \in [props : {{"u"}, {"u", "v"}}, req : SUBSET {"u", "v"}, num : BOOLEAN] : s.req \subseteq s.props}

\* The literal of the k-th arm.
LitOf(k) == <<"one", "two">>[k]

Arms(tags) ==
  {[props |-> s.props, req |-> s.req, num |-> s.num, tag |-> t] : s \in Shapes, t \in tags}

TaggedArms == Arms({"inline", "model", "plain"})
PlainArms == Arms({"absent"})

Unions ==
  {[disc |-> TRUE, mapped |-> m, arms |-> <<a, b>>] :
     m \in BOOLEAN, a \in TaggedArms, b \in TaggedArms}
    \cup {[disc |-> FALSE, mapped |-> FALSE, arms |-> <<a, b>>] : a \in PlainArms, b \in PlainArms}

Instances(u) ==
  UNION {{[of |-> k, fields |-> f, num |-> u.arms[k].num,
           tag |-> IF u.disc THEN LitOf(k) ELSE None] :
            f \in {f \in SUBSET u.arms[k].props : u.arms[k].req \subseteq f}} : k \in 1..2}

UnionsInit ==
  /\ reader \in {"rust", "go", "ts"}
  /\ union \in Unions
  /\ value \in Instances(union)
  /\ trying = 1 /\ picked = -1

Arm(k) == union.arms[k]

-----------------------------------------------------------------------------
\* The literal of the arm's tag property, where it has exactly one; only the
\* TypeScript emitter follows a reference to a model.
OwnLiteral(k, lng) ==
  IF Arm(k).tag = "inline" \/ (lng = "ts" /\ Arm(k).tag = "model") THEN LitOf(k) ELSE None

\* Mutant: the arm's own literal is not looked at.
discriminant_value_mapped(k, lng) == IF union.mapped THEN LitOf(k) ELSE None

\* The arm's own literal, else the one the mapping gives it.
discriminant_value(k, lng) ==
  IF OwnLiteral(k, lng) # None THEN OwnLiteral(k, lng)
  ELSE IF union.mapped THEN LitOf(k) ELSE None

TypesMatch(k) == "u" \in value.fields => (Arm(k).num = value.num)

\* serde tries the structure: the required fields are there, the fields both
\* know have the declared type, and a tag that is a model of its own fits.
RustAccepts(k) ==
  /\ Arm(k).req \subseteq value.fields
  /\ TypesMatch(k)
  /\ Arm(k).tag = "model" => value.tag = LitOf(k)

\* The switch of New<Union>; without a discriminator, json.Unmarshal, which
\* minds only a field of another type.
GoAccepts(k) ==
  IF union.disc THEN discriminant_value(k, "go") # None /\ discriminant_value(k, "go") = value.tag
  ELSE TypesMatch(k)

\* The required fields of the arm, all its properties when it requires none.
required_field_check(k) ==
  IF Arm(k).req # {} THEN Arm(k).req \subseteq value.fields
  ELSE Arm(k).props \subseteq value.fields

TsAccepts(k) ==
  IF union.disc /\ discriminant_value(k, "ts") # None
  THEN value.tag = discriminant_value(k, "ts")
  ELSE required_field_check(k)

Accepts(k) ==
  CASE reader = "rust" -> RustAccepts(k)
    [] reader = "go" -> GoAccepts(k)
    [] reader = "ts" -> TsAccepts(k)

PickArm ==
  /\ picked = -1 /\ trying \in DOMAIN union.arms
  /\ Accepts(trying)
  /\ picked' = trying
  /\ UNCHANGED <<reader, union, value, trying>>

NextArm ==
  /\ picked = -1 /\ trying \in DOMAIN union.arms
  /\ ~Accepts(trying)
  /\ trying' = trying + 1
  /\ UNCHANGED <<reader, union, value, picked>>

NoArm ==
  /\ picked = -1 /\ trying \notin DOMAIN union.arms
  /\ picked' = 0
  /\ UNCHANGED <<reader, union, value, trying>>

ReadStep == PickArm \/ NextArm \/ NoArm

\* What <Union>Discriminant answers in Go, and discriminant() in Rust, which
\* takes the name of the arm for a missing literal.
GoDiscriminant(k) == discriminant_value(k, "go")

RustDiscriminant(k) ==
  IF union.disc /\ discriminant_value(k, "rust") # None THEN discriminant_value(k, "rust")
  ELSE <<"Arm1", "Arm2">>[k]

-----------------------------------------------------------------------------
\* The document gives every arm a literal: in its mapping or, where the emitter
\* looks for it, in the tag property of the arm.
Literals ==
  /\ union.disc
  /\ union.mapped \/ \A k \in DOMAIN union.arms :
       Arm(k).tag \in IF reader = "ts" THEN {"inline", "model"} ELSE {"inline"}

\* RightArm: where the discriminator gives every arm a literal, the Go and
\* TypeScript readers return the arm the value was made from, and the
\* discriminant the Go and Rust helpers give for that arm is the tag of the
\* value; the Rust reader always finds an arm, never one after the value's own,
\* and an earlier one only if its structure does not tell the two apart.
RightArm ==
  picked >= 0 =>
    /\ reader # "rust" /\ Literals => picked = value.of
    /\ reader = "go" /\ Literals => GoDiscriminant(picked) = value.tag
    /\ reader = "rust" =>
         /\ picked \in 1..value.of
         /\ picked = value.of /\ Literals => RustDiscriminant(picked) = value.tag
         /\ picked # value.of =>
              Arm(picked).req \subseteq value.fields /\ Arm(picked).tag # "model"
    /\ reader = "ts" /\ ~union.disc /\ Arm(value.of).req # {} => picked \in 1..value.of
===============================================================================
