------------------------------- MODULE MCCompare -------------------------------
(***************************************************************************)
(* Histories of up to three commits in which one operation, or one schema, *)
(* or the version of the representation takes every value, for the         *)
(* commands that compare documents.                                        *)
(***************************************************************************)
EXTENDS SpecCompare

Type(arrays, leaf) == [arrays |-> arrays, leaf |-> leaf]
MCTypes == {Type(0, <<"Scalar", "Integer">>), Type(1, <<"Scalar", "Integer">>),
            Type(0, <<"Reference", "Pet", "plain">>), Type(0, <<"Reference", "Pet", "described">>)}

Absent == [x \in {} |-> 0]
Old(text) == [summary |-> "plain", description |-> text,
              params |-> Absent, responses |-> Absent]
SomeOps ==
  {Absent} \cup
  {"list" :> [params |-> ps, body |-> b, responses |-> rs, old |-> Old(text)] :
     ps \in {Absent} \cup {"limit" :> r : r \in BOOLEAN},
     b \in {"none", "optional", "required"},
     rs \in {{"200"}, {"200", "404"}},
     text \in {"plain", "replaced"}}

SomeSchemas ==
  {Absent, "Pet" :> [model |-> "Enum", text |-> "none"]} \cup
  {"Pet" :> [model |-> "Object", props |-> ps, text |-> "none"] :
     ps \in {Absent} \cup {"id" :> [ty |-> t, required |-> r] :
                             t \in MCTypes, r \in BOOLEAN}}

Document(ir, ops, schemas) == [ir |-> ir, ops |-> ops, schemas |-> schemas]
Versions == {Document(v, Absent, Absent) : v \in {<<0, 1>>, <<0, 2>>, <<1, 0>>}}
Apis == {Document(<<0, 1>>, ops, Absent) : ops \in SomeOps}
Models == {Document(<<0, 1>>, Absent, s) : s \in SomeSchemas}
MCDays == {0, 58, 59, 789, 11016, 11322, 47540, 47541}
Commits(S) == {<<a, b, c>> : a, b, c \in S \cup {[broken |-> TRUE]}}
MCHistories == Commits(Versions) \cup Commits(Models) \cup
               {<<a, b>> : a, b \in Apis}

--------------------------------------------------------------------------------
(* No break of a schema hides in small steps: when the newest document breaks a
   schema or a property of the oldest, track_evolution counts a breaking change
   at some commit between them, although it compares neighbours only and leaves
   out the commits it cannot read (no schema turning from object to enum). *)
SchemaBreaksAreSeen ==
  (/\ report # NoReport /\ report.tool = "evolution" /\ snapshots # <<>>
   /\ \A i, j \in DOMAIN snapshots :
        \A n \in DOMAIN snapshots[i].schemas \cap DOMAIN snapshots[j].schemas :
          snapshots[i].schemas[n].model = snapshots[j].schemas[n].model
   /\ Breaking(DiffSchemas(Oldest, Newest)) # {})
  => \E i \in DOMAIN report.versions : report.versions[i].breaking > 0

(* An upgrade that the diff calls harmless cannot be rolled back harmlessly: if
   all its findings are informational, and they are more than a new version of
   the representation, the diff in the other direction reports a break. *)
RollbackBreaks ==
  (report # NoReport /\ report.tool = "diff")
  => LET fs == DiffDetailed(Oldest, Newest)
     IN (fs \ DiffIrVersion(Oldest, Newest) # {} /\ Breaking(fs) = {} /\ report.result.breaking_count = 0)
        => Breaking(DiffDetailed(Newest, Oldest)) # {}

(* Part of ReportsAreBacked.  The changelog's two lists and its version bump,
   computed from findings and from property changes separately, agree: an entry
   of breaking impact comes with a major bump, any entry with some bump, and a
   major bump with a breaking entry, a removed schema or a new major version of
   the representation. *)
BumpMatchesEntries ==
  (report # NoReport /\ report.tool = "changelog" /\ report.json /\ report.previous = "read")
  => LET entries == report.result.operations \cup report.result.schemas
         breaking == {e \in entries : e.impact = "Breaking"}
     IN /\ breaking # {} => report.result.bump = "major"
        /\ entries # {} => report.result.bump # "none"
        /\ report.result.bump = "major"
           => \/ breaking # {}
              \/ DOMAIN Oldest.schemas \ DOMAIN Newest.schemas # {}
              \/ Oldest.ir[1] # Newest.ir[1]

(* Days from 1970-01-01 to a day of the Gregorian calendar, counted in years that
   begin in March. *)
DaysTo(y, m, d) ==
  LET year == IF m <= 2 THEN y - 1 ELSE y
      leaps == year \div 4 - year \div 100 + year \div 400
  IN 365 * year + leaps + (153 * ((m + 9) % 12) + 2) \div 5 + d - 1 - 719468

(* The date of a changelog is the day the clock shows: counting the days up to it
   gives the clock back, and it is a day of its month, at the ends of months, of
   leap years and in the year 2100 too. *)
DatesAreCivil ==
  (report # NoReport /\ report.tool = "changelog")
  => LET y == report.result.date[1]
         m == report.result.date[2]
     IN /\ m \in 1..12 /\ report.result.date[3] >= 1
        /\ DaysTo(y, m, report.result.date[3]) = report.today
        /\ report.today < (IF m = 12 THEN DaysTo(y + 1, 1, 1) ELSE DaysTo(y, m + 1, 1))

(* The findings an entry of the guide stands for: none for a deprecation and
   for a change of type. *)
AsFinding(e) ==
  CASE e[1] = "operation removed" -> {Finding("Breaking", e[1], <<"op", e[2]>>)}
    [] e[1] = "schema removed" -> {Finding("Breaking", e[1], <<"schema", e[2]>>)}
    [] e[1] = "now requires" -> {Finding("Breaking", "new required parameter", <<"op", e[2], e[3]>>)}
    [] e[1] = "property removed" -> {Finding("Breaking", "Removed", <<"schema", e[2], e[3]>>)}
    [] e[1] = "added as required" ->
         {Finding("Breaking", "AddedRequired", <<"schema", e[2], e[3]>>)}
    [] e[1] = "new operation" -> {Finding("Info", "operation added", <<"op", e[2]>>)}
    [] e[1] = "new schema" -> {Finding("Info", "schema added", <<"schema", e[2]>>)}
    [] OTHER -> {}

(* The findings that have an entry in the guide. *)
Shown == {"operation removed", "schema removed", "new required parameter", "Removed",
          "AddedRequired", "operation added", "schema added"}

(* Part of ReportsAreBacked.  The entries of the guide for what was removed, is
   newly required or is new are, one for one, the findings of the diff of these
   kinds, as grave and at the same place; and each change of type the diff
   reports has its entry.  Nothing is said of the deprecations, which are no
   differences, and of the further changes of type that the guide lists because
   it compares the Debug text of the types, descriptions included. *)
GuideIsBacked ==
  (report # NoReport /\ report.tool = "guide")
  => LET found == DiffDetailed(Oldest, Newest)
     IN /\ UNION {AsFinding(e) : e \in report.result} = {f \in found : f.what \in Shown}
        /\ \A f \in found : f.what = "TypeChanged" =>
             \E e \in report.result : e[1] = "type changed" /\ f.at = <<"schema", e[2], e[3]>>

(* The two reports for people say what the diff found. *)
ReportsAreBacked == BumpMatchesEntries /\ GuideIsBacked
================================================================================
