----------------------------- MODULE SpecCompare ------------------------------
(***************************************************************************)
(* The commands that compare documents: diff, changelog, migration guide   *)
(* and the evolution of a file in git.                                     *)
(***************************************************************************)
EXTENDS Naturals, FiniteSets, Sequences, SequencesExt

-------------------------------------------------------------------------------
(* diff.rs: what changed between two resolved documents, and which changes
   break a client.

   A document is [ir, ops, schemas]: the version <<major, minor>> of the
   representation; a function from operation ids, which are unique, to
   [params, body, responses, old], `params` telling whether a parameter is
   required; and a function from names to models, an Enum or an Object with
   [ty, required] for each property.  A type is a leaf, a tuple whose head is
   the variant, inside so many arrays. *)

Finding(severity, what, at) == [severity |-> severity, what |-> what, at |-> at]
Breaking(fs) == {f \in fs : f.severity = "Breaking"}
Info(fs) == {f \in fs : f.severity = "Info"}

DiffIrVersion(old, new) ==
  IF old.ir = new.ir THEN {}
  ELSE {Finding(IF old.ir[1] # new.ir[1] THEN "Breaking" ELSE "Info",
                "IR version changed", <<"ir">>)}

DiffOperation(id, old, new) ==
  LET removed == DOMAIN old.params \ DOMAIN new.params
      added == {p \in DOMAIN new.params \ DOMAIN old.params : new.params[p]}
  IN {Finding("Breaking", "new required parameter", <<"op", id, p>>) : p \in added}
     \cup {Finding("Breaking", "parameter removed", <<"op", id, p>>) : p \in removed}
     \cup (IF old.body = "none" /\ new.body = "required"
           THEN {Finding("Breaking", "new required request body", <<"op", id>>)}
           ELSE {})
     \cup {Finding("Breaking", "response removed", <<"op", id, r>>) :
             r \in old.responses \ new.responses}

DiffOperations(old, new) ==
  LET o == DOMAIN old.ops
      n == DOMAIN new.ops
  IN {Finding("Breaking", "operation removed", <<"op", id>>) : id \in o \ n}
     \cup {Finding("Info", "operation added", <<"op", id>>) : id \in n \ o}
     \cup (UNION {DiffOperation(id, old.ops[id], new.ops[id]) : id \in o \cap n})

(* Scalars, references and enumerations are compared, arrays by their items,
   everything else by its variant only. *)
TypeChanged(old, new) ==
  \/ old.arrays # new.arrays \/ old.leaf[1] # new.leaf[1]
  \/ old.leaf[1] \in {"Scalar", "Reference", "StringEnum"} /\ old.leaf[2] # new.leaf[2]

(* The change of one property, None when there is none to report. *)
PropertyChange(op, np, p) ==
  CASE p \notin DOMAIN op /\ np[p].required -> "AddedRequired"
    [] p \notin DOMAIN op /\ ~np[p].required -> "Added"
    [] p \notin DOMAIN np -> "Removed"
    [] p \in DOMAIN op \cap DOMAIN np /\ TypeChanged(op[p].ty, np[p].ty) ->
         "TypeChanged"
    [] p \in DOMAIN op \cap DOMAIN np /\ ~TypeChanged(op[p].ty, np[p].ty)
         /\ op[p].required # np[p].required ->
         IF np[p].required THEN "NowRequired" ELSE "NowOptional"
    [] OTHER -> "Same"

(* Mutant: a property that is removed counts as harmless. *)
SeverityRemovedInfo(c) ==
  IF c \in {"Added", "NowOptional", "Removed"} THEN "Info" ELSE "Breaking"

ChangeSeverity(c) == IF c \in {"Added", "NowOptional"} THEN "Info" ELSE "Breaking"

(* schema_diffs: the changed properties of the schemas that are objects twice. *)
SchemaChanges(old, new) ==
  LET common == {n \in DOMAIN old.schemas \cap DOMAIN new.schemas :
                   /\ old.schemas[n].model = "Object"
                   /\ new.schemas[n].model = "Object"}
      op(n) == old.schemas[n].props
      np(n) == new.schemas[n].props
      changed(n) == {p \in DOMAIN op(n) \cup DOMAIN np(n) :
                       PropertyChange(op(n), np(n), p) # "Same"}
  IN UNION {{<<n, p, PropertyChange(op(n), np(n), p)>> : p \in changed(n)} : n \in common}

DiffSchemas(old, new) ==
  LET o == DOMAIN old.schemas
      n == DOMAIN new.schemas
  IN {Finding("Breaking", "schema removed", <<"schema", s>>) : s \in o \ n}
     \cup {Finding("Info", "schema added", <<"schema", s>>) : s \in n \ o}
     \cup {Finding(ChangeSeverity(c[3]), c[3], <<"schema", c[1], c[2]>>) :
             c \in SchemaChanges(old, new)}

DiffDetailed(old, new) ==
  DiffIrVersion(old, new) \cup DiffOperations(old, new) \cup DiffSchemas(old, new)

(* The reports: text counts the findings by severity and, in colour, lists the
   changed schemas; Markdown and JSON list the two severities apart. *)
DiffText(fs, changes) ==
  [findings |-> fs, breaking_count |-> Cardinality(Breaking(fs)),
   info_count |-> Cardinality(fs) - Cardinality(Breaking(fs)),
   schemas |-> {c[1] : c \in changes}]

DiffMarkdown(fs, changes) ==
  [breaking |-> Breaking(fs), info |-> Info(fs),
   breaking_count |-> Cardinality(Breaking(fs)),
   info_count |-> Cardinality(Info(fs)), schemas |-> {c[1] : c \in changes}]

DiffJson(fs, changes) ==
  [breaking |-> Breaking(fs), info |-> Info(fs), schema_diffs |-> changes,
   breaking_count |-> Cardinality(Breaking(fs)),
   info_count |-> Cardinality(Info(fs))]

DiffReport(format, fs, changes) ==
  CASE format = "text" -> DiffText(fs, changes)
    [] format = "markdown" -> DiffMarkdown(fs, changes)
    [] format = "json" -> DiffJson(fs, changes)

-------------------------------------------------------------------------------
(* changelog.rs: the findings of a comparison with the previous document,
   sorted by impact, and the version bump they suggest.  A previous
   document that cannot be read counts as one without differences. *)

ComputeSuggestedBump(fs) ==
  CASE Breaking(fs) # {} -> "major"
    [] Breaking(fs) = {} /\ Info(fs) # {} -> "minor"
    [] OTHER -> "none"

ClassifyFinding(f) ==
  CASE f.severity = "Breaking" -> "Breaking"
    [] f.severity = "Info"
         /\ f.what \in {"operation added", "schema added", "Added"} -> "Feature"
    [] OTHER -> "Fix"

(* One entry per operation; the worst finding decides its impact.  Method and
   path are looked up in the new document, where a removed operation is not. *)
OperationEntries(fs, new) ==
  LET of(id) == {f \in fs : f.at[1] = "op" /\ f.at[2] = id}
      kind(id) == IF \E f \in of(id) : f.what = "operation removed" THEN "Removed"
                  ELSE IF \E f \in of(id) : f.what = "operation added" THEN "Added"
                  ELSE "Modified"
      impact(id) == IF \E f \in of(id) : ClassifyFinding(f) = "Breaking" THEN "Breaking"
                    ELSE IF \E f \in of(id) : ClassifyFinding(f) = "Feature" THEN "Feature"
                    ELSE "Fix"
  IN {[id |-> id, change |-> kind(id), impact |-> impact(id),
       known |-> id \in DOMAIN new.ops] :
        id \in {f.at[2] : f \in {g \in fs : g.at[1] = "op"}}}

PropertyImpact(c) ==
  CASE c = "Added" -> "Feature" [] c = "NowOptional" -> "Fix" [] OTHER -> "Breaking"

SchemaEntries(changes) ==
  {[schema |-> n,
    impact |-> IF \E c \in changes : c[1] = n /\ PropertyImpact(c[3]) = "Breaking"
               THEN "Breaking" ELSE "Feature"] : n \in {c[1] : c \in changes}}

(* Mutant: centuries are leap years too. *)
IsLeapJulian(y) == y % 4 = 0

(* Today, from the days since 1970-01-01: whole years are taken off, then whole
   months. *)
IsLeap(y) == (y % 4 = 0 /\ y % 100 # 0) \/ y % 400 = 0

MonthDays(y) ==
  <<31, IF IsLeap(y) THEN 29 ELSE 28, 31, 30, 31, 30, 31, 31, 30, 31, 30, 31>>

InYear(y, days) == days < (IF IsLeap(y) THEN 366 ELSE 365)

TakeYears[y \in Nat, days \in Nat] ==
  IF InYear(y, days) THEN <<y, days>>
  ELSE TakeYears[y + 1, days - (IF IsLeap(y) THEN 366 ELSE 365)]

CurrentDate(days) ==
  LET y == TakeYears[1970, days][1]
      month[m \in 1..13, left \in Nat] ==
        IF m = 13 \/ left < MonthDays(y)[m] THEN <<y, m, left + 1>>
        ELSE month[m + 1, left - MonthDays(y)[m]]
  IN month[1, TakeYears[1970, days][2]]

(* `previous` is "none" (no option), "unreadable" or "read". *)
GenerateChangelog(previous, old, new, days) ==
  LET fs == IF previous = "read" THEN DiffDetailed(old, new) ELSE {}
      changes == IF previous = "read" THEN SchemaChanges(old, new) ELSE {}
  IN [bump |-> ComputeSuggestedBump(fs), date |-> CurrentDate(days),
      operations |-> IF previous = "none"
                     THEN {[id |-> id, change |-> "Added", impact |-> "Feature",
                            known |-> TRUE] : id \in DOMAIN new.ops}
                     ELSE OperationEntries(fs, new),
      schemas |-> SchemaEntries(changes),
      breaking |-> Cardinality(Breaking(fs)),
      nonBreaking |-> Cardinality(fs) - Cardinality(Breaking(fs))]

(* The Markdown groups the operations by impact, and shows a bump on demand. *)
RenderMarkdown(result, suggest) ==
  LET group(impact) == {e \in result.operations : e.impact = impact}
  IN [date |-> result.date, schemas |-> result.schemas,
      bump |-> IF suggest /\ result.bump # "none" THEN result.bump ELSE "hidden",
      operations |-> <<group("Breaking"), group("Feature"), group("Fix")>>,
      counts |-> <<Cardinality(result.operations), Cardinality(result.schemas)>>]

-------------------------------------------------------------------------------
(* deprecation.rs: the elements whose text says "deprecated", and the
   migration guide between two documents, as the set of its entries.
   The text of an element is "none", "plain", "deprecated", or "replaced"
   when it also names an alternative.  The `old` part of an operation has
   the texts of its summary and description and of its parameters and
   responses that have one. *)

ContainsDeprecated(text) == text \in {"deprecated", "replaced"}

ExtractAlternative(text) == text = "replaced"

Deprecation(kind, name, text) ==
  IF ContainsDeprecated(text)
  THEN {[kind |-> kind, name |-> name, alternative |-> ExtractAlternative(text)]}
  ELSE {}

(* The summary counts first, the description when it says nothing. *)
OperationText(op) ==
  IF ContainsDeprecated(op.old.summary) THEN op.old.summary ELSE op.old.description

FindDeprecations(doc) ==
  (UNION {Deprecation("Operation", id, OperationText(doc.ops[id]))
          \cup (UNION {Deprecation("Parameter", <<id, p>>, doc.ops[id].old.params[p]) :
                         p \in DOMAIN doc.ops[id].old.params})
          \cup (UNION {Deprecation("Response", <<id, r>>, doc.ops[id].old.responses[r]) :
                         r \in DOMAIN doc.ops[id].old.responses}) : id \in DOMAIN doc.ops})
  \cup (UNION {Deprecation("Schema", n, doc.schemas[n].text) : n \in DOMAIN doc.schemas})

(* Mutant: every added property is listed, required or not. *)
GuideAddedAnyway(old, new) ==
  LET op(n) == old.schemas[n].props
      np(n) == new.schemas[n].props
      common == {n \in DOMAIN old.schemas \cap DOMAIN new.schemas :
                   old.schemas[n].model = "Object" /\ new.schemas[n].model = "Object"}
      entries(n) ==
        {<<"property removed", n, p>> : p \in DOMAIN op(n) \ DOMAIN np(n)}
        \cup {<<"type changed", n, p>> :
                p \in {q \in DOMAIN op(n) \cap DOMAIN np(n) : op(n)[q].ty # np(n)[q].ty}}
        \cup {<<"added as required", n, p>> : p \in DOMAIN np(n) \ DOMAIN op(n)}
  IN UNION {entries(n) : n \in common}

GuideSchemaChanges(old, new) ==
  LET common == {n \in DOMAIN old.schemas \cap DOMAIN new.schemas :
                   /\ old.schemas[n].model = "Object"
                   /\ new.schemas[n].model = "Object"}
      entries(n) ==
        LET op == old.schemas[n].props
            np == new.schemas[n].props
        IN {<<"property removed", n, p>> : p \in DOMAIN op \ DOMAIN np}
           \cup {<<"type changed", n, p>> :     \* by the Debug text of the types
                   p \in {q \in DOMAIN op \cap DOMAIN np : op[q].ty # np[q].ty}}
           \cup {<<"added as required", n, p>> :
                   p \in {q \in DOMAIN np \ DOMAIN op : np[q].required}}
  IN UNION {entries(n) : n \in common}

GenerateMigrationGuide(old, new) ==
  LET oo == DOMAIN old.ops       no == DOMAIN new.ops
      os == DOMAIN old.schemas   ns == DOMAIN new.schemas
      required(id) == {p \in DOMAIN new.ops[id].params \ DOMAIN old.ops[id].params :
                         new.ops[id].params[p]}
  IN {<<"deprecated", d>> : d \in {e \in FindDeprecations(new) :
                                      e.kind \in {"Operation", "Schema"}}}
     \cup {<<"operation removed", id>> : id \in oo \ no}
     \cup {<<"schema removed", s>> : s \in os \ ns}
     \cup (UNION {{<<"now requires", id, p>> : p \in required(id)} : id \in oo \cap no})
     \cup GuideSchemaChanges(old, new)
     \cup {<<"new operation", id>> : id \in no \ oo}
     \cup {<<"new schema", s>> : s \in ns \ os}

-------------------------------------------------------------------------------
(* evolution.rs: the documents a file held at the commits of its history,
   oldest first, without the commits where it cannot be shown, parsed or
   resolved, and the breaking changes between neighbours.  Beside it the
   other comparisons of two documents: diff, changelog, migration guide. *)

CONSTANTS Histories,   \* sequences of documents, [broken |-> TRUE] where there is none
          Days,        \* today, as days since 1970-01-01
          NoReport

IsDocument(d) ==
  /\ IsFiniteSet(DOMAIN d.ops) /\ IsFiniteSet(DOMAIN d.schemas)
  /\ \A id \in DOMAIN d.ops :
       IsFiniteSet(DOMAIN d.ops[id].params) /\ IsFiniteSet(d.ops[id].responses)
  /\ \A n \in DOMAIN d.schemas :
       d.schemas[n].model = "Object" =>
         /\ IsFiniteSet(DOMAIN d.schemas[n].props)
         /\ \A p \in DOMAIN d.schemas[n].props : d.schemas[n].props[p].required \in BOOLEAN

ASSUME HistoriesAssumption ==
  \A h \in Histories :
    /\ Len(h) \in Nat /\ DOMAIN h = 1..Len(h)
    /\ \A i \in DOMAIN h : "broken" \in DOMAIN h[i] \/ IsDocument(h[i])

VARIABLES history,     \* what git shows at each commit, oldest first
          pos,         \* the next commit
          snapshots,   \* the documents kept
          report       \* what the command prints

vars == <<history, pos, snapshots, report>>

(* git show, parse_str and resolve of one commit; a failure skips it. *)
Show ==
  /\ report = NoReport /\ pos <= Len(history)
  /\ snapshots' = IF "broken" \in DOMAIN history[pos] THEN snapshots
                  ELSE Append(snapshots, history[pos])
  /\ pos' = pos + 1
  /\ UNCHANGED <<history, report>>

(* Mutant: the arguments of diff are swapped. *)
BreakingChangesBackwards(i) ==
  IF i = 1 THEN 0
  ELSE Cardinality(Breaking(DiffDetailed(snapshots[i], snapshots[i - 1])))

BreakingChanges(i) ==
  IF i = 1 THEN 0
  ELSE Cardinality(Breaking(DiffDetailed(snapshots[i - 1], snapshots[i])))

(* All formats list the versions; text and Markdown end with the totals. *)
Totals(versions) ==
  [versions |-> Len(versions),
   breaking |-> FoldLeft(LAMBDA sum, v : sum + v.breaking, 0, versions)]

Evolution ==
  LET versions == [i \in DOMAIN snapshots |->
                     [schemas |-> Cardinality(DOMAIN snapshots[i].schemas),
                      operations |-> Cardinality(DOMAIN snapshots[i].ops),
                      breaking |-> BreakingChanges(i)]]
  IN [tool |-> "evolution", versions |-> versions, totals |-> Totals(versions)]

TrackEvolution ==
  /\ report = NoReport /\ pos > Len(history)
  /\ report' = Evolution
  /\ UNCHANGED <<history, pos, snapshots>>

(* The commands that compare the first document with the last. *)
Compare(result) ==
  /\ report = NoReport /\ pos > Len(history) /\ snapshots # <<>>
  /\ report' = result
  /\ UNCHANGED <<history, pos, snapshots>>

Oldest == snapshots[1]
Newest == snapshots[Len(snapshots)]

Diffed(format) ==
  [tool |-> "diff", result |-> DiffReport(format, DiffDetailed(Oldest, Newest),
                                          SchemaChanges(Oldest, Newest))]
DiffCommand == \E format \in {"text", "markdown", "json"} : Compare(Diffed(format))

Changelog(previous, days, json) ==
  LET result == GenerateChangelog(previous, Oldest, Newest, days)
  IN [tool |-> "changelog", previous |-> previous, today |-> days, json |-> json,
      result |-> IF json THEN result ELSE RenderMarkdown(result, TRUE)]
ChangelogCommand ==
  \E previous \in {"none", "unreadable", "read"}, days \in Days, json \in BOOLEAN :
    Compare(Changelog(previous, days, json))

Guide == [tool |-> "guide", result |-> GenerateMigrationGuide(Oldest, Newest)]
MigrationCommand == Compare(Guide)

Init ==
  /\ history \in Histories
  /\ pos = 1 /\ snapshots = <<>> /\ report = NoReport

Next ==
  \/ Show \/ TrackEvolution \/ DiffCommand \/ ChangelogCommand \/ MigrationCommand

Spec == Init /\ [][Next]_vars
===============================================================================
