--------------------------- MODULE CompareProofs ---------------------------
(***************************************************************************)
(* Proofs about the commands that compare documents: for any histories of  *)
(* any documents, not only the small ones that TLC enumerates.             *)
(***************************************************************************)
EXTENDS MCCompare, TLAPS, FiniteSetTheorems, SequenceTheorems, NaturalsInduction

-----------------------------------------------------------------------------
(* The documents kept, and what a report shows of them. *)
Docs == {d \in {history[i] : i \in DOMAIN history} :
           "broken" \notin DOMAIN d /\ IsDocument(d)}

Kept ==
  /\ history \in Histories /\ pos \in Nat \ {0}
  /\ snapshots \in Seq(Docs)

Reported ==
  \/ report = NoReport
  \/ report = Evolution
  \/ /\ snapshots # <<>>
     /\ \/ \E format \in {"text", "markdown", "json"} : report = Diffed(format)
        \/ \E previous \in {"none", "unreadable", "read"}, days \in Days, json \in BOOLEAN :
             report = Changelog(previous, days, json)
        \/ report = Guide

CompareInv == Kept /\ Reported

LEMMA CompareStart == Init => CompareInv
  BY DEF Init, CompareInv, Kept, Reported

LEMMA CompareStep == CompareInv /\ [Next]_vars => CompareInv'
  <1> SUFFICES ASSUME CompareInv, [Next]_vars PROVE CompareInv'
    OBVIOUS
  <1>1. CASE UNCHANGED vars
    BY <1>1 DEF vars, CompareInv, Kept, Reported, Docs, Evolution, Diffed, Changelog, Guide,
                Oldest, Newest, BreakingChanges
  <1>2. CASE Show
    <2>1. history' = history /\ report' = report /\ report = NoReport /\ Docs' = Docs
      BY <1>2 DEF Show, Docs
    <2>2. pos \in DOMAIN history
      BY <1>2, HistoriesAssumption DEF Show, CompareInv, Kept
    <2>3. "broken" \notin DOMAIN history[pos] => history[pos] \in Docs
      BY <2>2, HistoriesAssumption DEF CompareInv, Kept, Docs
    <2>4. snapshots' \in Seq(Docs)
      BY <1>2, <2>3 DEF Show, CompareInv, Kept
    <2> QED  BY <1>2, <2>1, <2>4 DEF Show, CompareInv, Kept, Reported
  <1>3. CASE TrackEvolution \/ DiffCommand \/ ChangelogCommand \/ MigrationCommand
    <2>1. UNCHANGED <<history, pos, snapshots>>
      BY <1>3 DEF TrackEvolution, DiffCommand, ChangelogCommand, MigrationCommand, Compare
    <2>2. /\ Evolution' = Evolution /\ Guide' = Guide /\ Docs' = Docs
          /\ \A f : Diffed(f)' = Diffed(f)
          /\ \A p, d, j : Changelog(p, d, j)' = Changelog(p, d, j)
      BY <2>1 DEF Evolution, Diffed, Changelog, Guide, Docs, Oldest, Newest, BreakingChanges
    <2>3. Reported'
      BY <1>3, <2>1, <2>2
         DEF TrackEvolution, DiffCommand, ChangelogCommand, MigrationCommand, Compare, Reported
    <2> QED  BY <2>1, <2>2, <2>3 DEF CompareInv, Kept
  <1> QED  BY <1>1, <1>2, <1>3 DEF Next

LEMMA SnapshotsAreDocuments ==
    ASSUME CompareInv
    PROVE  /\ DOMAIN snapshots = 1 .. Len(snapshots) /\ Len(snapshots) \in Nat
           /\ snapshots = <<>> <=> Len(snapshots) = 0
           /\ \A i \in DOMAIN snapshots : IsDocument(snapshots[i])
  BY DEF CompareInv, Kept, Docs

(* A report tells which command made it. *)
LEMMA ToolNames ==
    /\ Evolution.tool = "evolution" /\ Guide.tool = "guide"
    /\ \A f : Diffed(f).tool = "diff"
    /\ \A p, d, j : Changelog(p, d, j).tool = "changelog"
  <1>1. Evolution.tool = "evolution"
    BY DEF Evolution
  <1>2. Guide.tool = "guide"
    BY DEF Guide
  <1>3. \A f : Diffed(f).tool = "diff"
    BY DEF Diffed
  <1>4. \A p, d, j : Changelog(p, d, j).tool = "changelog"
    BY DEF Changelog
  <1> QED  BY <1>1, <1>2, <1>3, <1>4

-----------------------------------------------------------------------------
(* What schema_diffs reports. *)
LEMMA SchemaChangesFacts ==
    ASSUME NEW a, NEW b, NEW c
    PROVE  c \in SchemaChanges(a, b) <=>
             \E n \in DOMAIN a.schemas \cap DOMAIN b.schemas :
               /\ a.schemas[n].model = "Object" /\ b.schemas[n].model = "Object"
               /\ \E p \in DOMAIN a.schemas[n].props \cup DOMAIN b.schemas[n].props :
                    LET change == PropertyChange(a.schemas[n].props, b.schemas[n].props, p)
                    IN change # "Same" /\ c = <<n, p, change>>
  BY DEF SchemaChanges

(* No breaking finding about schemas, said of the documents. *)
SchemasKept(a, b) ==
  /\ DOMAIN a.schemas \subseteq DOMAIN b.schemas
  /\ \A n \in DOMAIN a.schemas :
       (a.schemas[n].model = "Object" /\ b.schemas[n].model = "Object") =>
         LET op == a.schemas[n].props
             np == b.schemas[n].props
         IN /\ \A p \in DOMAIN op : /\ p \in DOMAIN np /\ ~TypeChanged(op[p].ty, np[p].ty)
                                    /\ np[p].required => op[p].required
            /\ \A p \in DOMAIN np : np[p].required => p \in DOMAIN op


(* Findings by their place. *)
LEMMA DiffSchemasFacts ==
    ASSUME NEW a, NEW b, NEW f
    PROVE  f \in DiffSchemas(a, b) <=>
             \/ \E s \in DOMAIN a.schemas \ DOMAIN b.schemas :
                  f = Finding("Breaking", "schema removed", <<"schema", s>>)
             \/ \E s \in DOMAIN b.schemas \ DOMAIN a.schemas :
                  f = Finding("Info", "schema added", <<"schema", s>>)
             \/ \E c \in SchemaChanges(a, b) :
                  f = Finding(ChangeSeverity(c[3]), c[3], <<"schema", c[1], c[2]>>)
  BY DEF DiffSchemas

LEMMA FindingParts ==
    \A s, w, p : /\ Finding(s, w, p).severity = s /\ Finding(s, w, p).what = w
                 /\ Finding(s, w, p).at = p
  BY DEF Finding

LEMMA UnbrokenIsKept ==
    ASSUME NEW a, NEW b, IsDocument(a), IsDocument(b), Breaking(DiffSchemas(a, b)) = {}
    PROVE  SchemasKept(a, b)
  <1>1. \A f \in DiffSchemas(a, b) : f.severity # "Breaking"
    BY DEF Breaking
  <1>2. DOMAIN a.schemas \subseteq DOMAIN b.schemas
    <2> SUFFICES ASSUME NEW s \in DOMAIN a.schemas \ DOMAIN b.schemas PROVE FALSE
      OBVIOUS
    <2>1. Finding("Breaking", "schema removed", <<"schema", s>>) \in DiffSchemas(a, b)
      BY DiffSchemasFacts
    <2> QED  BY <1>1, <2>1 DEF Finding
  <1>3. \A c \in SchemaChanges(a, b) : c[3] \in {"Added", "NowOptional"}
    <2> TAKE c \in SchemaChanges(a, b)
    <2>1. Finding(ChangeSeverity(c[3]), c[3], <<"schema", c[1], c[2]>>) \in DiffSchemas(a, b)
      BY DiffSchemasFacts
    <2>2. ChangeSeverity(c[3]) # "Breaking"
      BY <1>1, <2>1 DEF Finding
    <2> QED  BY <2>2 DEF ChangeSeverity
  <1>4. ASSUME NEW n \in DOMAIN a.schemas, a.schemas[n].model = "Object",
               b.schemas[n].model = "Object",
               NEW p \in DOMAIN a.schemas[n].props \cup DOMAIN b.schemas[n].props
        PROVE  PropertyChange(a.schemas[n].props, b.schemas[n].props, p)
                 \in {"Same", "Added", "NowOptional"}
    <2> DEFINE change == PropertyChange(a.schemas[n].props, b.schemas[n].props, p)
    <2> HIDE DEF change
    <2>1. CASE change # "Same"
      <3>1. <<n, p, change>> \in SchemaChanges(a, b)
        BY <1>2, <1>4, <2>1, SchemaChangesFacts DEF change
      <3> QED  BY <1>3, <3>1 DEF change
    <2> QED  BY <2>1 DEF change
  <1>5. ASSUME NEW n \in DOMAIN a.schemas, a.schemas[n].model = "Object",
               b.schemas[n].model = "Object"
        PROVE  LET op == a.schemas[n].props
                   np == b.schemas[n].props
               IN /\ \A p \in DOMAIN op : /\ p \in DOMAIN np /\ ~TypeChanged(op[p].ty, np[p].ty)
                                          /\ np[p].required => op[p].required
                  /\ \A p \in DOMAIN np : np[p].required => p \in DOMAIN op
    <2> DEFINE op == a.schemas[n].props
               np == b.schemas[n].props
    <2>1. \A p \in DOMAIN op \cup DOMAIN np :
            PropertyChange(op, np, p) \in {"Same", "Added", "NowOptional"}
      BY <1>4, <1>5
    <2>2. /\ \A p \in DOMAIN op : op[p].required \in BOOLEAN
          /\ \A p \in DOMAIN np : np[p].required \in BOOLEAN
      BY <1>2, <1>5 DEF IsDocument
    <2> HIDE DEF op, np
    <2>3. ASSUME NEW p \in DOMAIN op
          PROVE  /\ p \in DOMAIN np /\ ~TypeChanged(op[p].ty, np[p].ty)
                 /\ np[p].required => op[p].required
      <3>1. PropertyChange(op, np, p) \in {"Same", "Added", "NowOptional"}
        BY <2>1
      <3> QED  BY <2>2, <3>1 DEF PropertyChange
    <2>4. ASSUME NEW p \in DOMAIN np, np[p].required PROVE p \in DOMAIN op
      <3>1. PropertyChange(op, np, p) \in {"Same", "Added", "NowOptional"}
        BY <2>1
      <3> QED  BY <2>2, <2>4, <3>1 DEF PropertyChange
    <2> QED  BY <2>3, <2>4 DEF op, np
  <1> QED  BY <1>2, <1>5 DEF SchemasKept

LEMMA KeptIsUnbroken ==
    ASSUME NEW a, NEW b, IsDocument(a), IsDocument(b), SchemasKept(a, b)
    PROVE  Breaking(DiffSchemas(a, b)) = {}
  <1> SUFFICES ASSUME NEW f \in DiffSchemas(a, b) PROVE f.severity # "Breaking"
    BY DEF Breaking
  <1>1. ASSUME NEW c \in SchemaChanges(a, b) PROVE c[3] \in {"Added", "NowOptional"}
    <2>1. PICK n \in DOMAIN a.schemas \cap DOMAIN b.schemas :
            /\ a.schemas[n].model = "Object" /\ b.schemas[n].model = "Object"
            /\ \E p \in DOMAIN a.schemas[n].props \cup DOMAIN b.schemas[n].props :
                 LET change == PropertyChange(a.schemas[n].props, b.schemas[n].props, p)
                 IN change # "Same" /\ c = <<n, p, change>>
      BY SchemaChangesFacts
    <2> DEFINE op == a.schemas[n].props
               np == b.schemas[n].props
    <2>2. PICK p \in DOMAIN op \cup DOMAIN np :
            PropertyChange(op, np, p) # "Same" /\ c = <<n, p, PropertyChange(op, np, p)>>
      BY <2>1
    <2>3. /\ \A q \in DOMAIN op : /\ q \in DOMAIN np /\ ~TypeChanged(op[q].ty, np[q].ty)
                                  /\ np[q].required => op[q].required
          /\ \A q \in DOMAIN np : np[q].required => q \in DOMAIN op
      BY <2>1 DEF SchemasKept
    <2>4. /\ \A q \in DOMAIN op : op[q].required \in BOOLEAN
          /\ \A q \in DOMAIN np : np[q].required \in BOOLEAN
      BY <2>1 DEF IsDocument
    <2> HIDE DEF op, np
    <2>5. PropertyChange(op, np, p) \in {"Same", "Added", "NowOptional"}
      BY <2>3, <2>4 DEF PropertyChange
    <2> QED  BY <2>2, <2>5
  <1>2. DOMAIN a.schemas \subseteq DOMAIN b.schemas
    BY DEF SchemasKept
  <1>3. CASE \E s \in DOMAIN b.schemas \ DOMAIN a.schemas :
               f = Finding("Info", "schema added", <<"schema", s>>)
    <2>1. PICK s : f = Finding("Info", "schema added", <<"schema", s>>)
      BY <1>3, Zenon
    <2>2. f.severity = "Info"
      BY <2>1 DEF Finding
    <2> QED  BY <2>2
  <1>4. CASE \E c \in SchemaChanges(a, b) :
               f = Finding(ChangeSeverity(c[3]), c[3], <<"schema", c[1], c[2]>>)
    BY <1>1, <1>4 DEF ChangeSeverity, Finding
  <1>5. ~\E s \in DOMAIN a.schemas \ DOMAIN b.schemas :
            f = Finding("Breaking", "schema removed", <<"schema", s>>)
    BY <1>2
  <1>6. \/ \E s \in DOMAIN a.schemas \ DOMAIN b.schemas :
             f = Finding("Breaking", "schema removed", <<"schema", s>>)
        \/ \E s \in DOMAIN b.schemas \ DOMAIN a.schemas :
             f = Finding("Info", "schema added", <<"schema", s>>)
        \/ \E c \in SchemaChanges(a, b) :
             f = Finding(ChangeSeverity(c[3]), c[3], <<"schema", c[1], c[2]>>)
    BY DEF DiffSchemas
  <1> QED  BY <1>3, <1>4, <1>5, <1>6, Zenon

(* The relation has no gaps: what holds between neighbours holds between the
   ends, as long as a schema stays an object or an enum. *)
LEMMA KeptIsTransitive ==
    ASSUME NEW a, NEW b, NEW c, SchemasKept(a, b), SchemasKept(b, c),
           \A n \in DOMAIN a.schemas \cap DOMAIN b.schemas :
             a.schemas[n].model = b.schemas[n].model
    PROVE  SchemasKept(a, c)
  <1>1. DOMAIN a.schemas \subseteq DOMAIN b.schemas /\ DOMAIN b.schemas \subseteq DOMAIN c.schemas
    BY DEF SchemasKept
  <1>2. ASSUME NEW n \in DOMAIN a.schemas, a.schemas[n].model = "Object",
               c.schemas[n].model = "Object"
        PROVE  LET op == a.schemas[n].props
                   np == c.schemas[n].props
               IN /\ \A p \in DOMAIN op : /\ p \in DOMAIN np /\ ~TypeChanged(op[p].ty, np[p].ty)
                                          /\ np[p].required => op[p].required
                  /\ \A p \in DOMAIN np : np[p].required => p \in DOMAIN op
    <2> DEFINE x == a.schemas[n].props
               y == b.schemas[n].props
               z == c.schemas[n].props
    <2>1. n \in DOMAIN b.schemas /\ b.schemas[n].model = "Object"
      BY <1>1, <1>2
    <2>2. /\ \A p \in DOMAIN x : /\ p \in DOMAIN y /\ ~TypeChanged(x[p].ty, y[p].ty)
                                 /\ y[p].required => x[p].required
          /\ \A p \in DOMAIN y : y[p].required => p \in DOMAIN x
      BY <1>2, <2>1 DEF SchemasKept
    <2>3. /\ \A p \in DOMAIN y : /\ p \in DOMAIN z /\ ~TypeChanged(y[p].ty, z[p].ty)
                                 /\ z[p].required => y[p].required
          /\ \A p \in DOMAIN z : z[p].required => p \in DOMAIN y
      BY <1>2, <2>1 DEF SchemasKept
    <2> HIDE DEF x, y, z
    <2>4. \A p \in DOMAIN x : p \in DOMAIN z /\ (z[p].required => x[p].required)
      BY <2>2, <2>3
    <2>5. \A p \in DOMAIN x : ~TypeChanged(x[p].ty, z[p].ty)
      BY <2>2, <2>3 DEF TypeChanged
    <2>6. \A p \in DOMAIN z : z[p].required => p \in DOMAIN x
      BY <2>2, <2>3
    <2> QED  BY <2>4, <2>5, <2>6 DEF x, z
  <1> QED  BY <1>1, <1>2 DEF SchemasKept


LEMMA KeptIsReflexive ==
    ASSUME NEW a
    PROVE  SchemasKept(a, a)
  BY DEF SchemasKept, TypeChanged

-----------------------------------------------------------------------------
(* A comparison finds finitely much, so that counting it means something. *)
LEMMA ImageFinite ==
    ASSUME NEW S, IsFiniteSet(S), NEW f
    PROVE  IsFiniteSet({f[x] : x \in S})
  <1> DEFINE T == {f[x] : x \in S}
             g == [x \in S |-> f[x]]
  <1>1. g \in Surjection(S, T)
    BY DEF Surjection
  <1> HIDE DEF g, T
  <1>2. IsFiniteSet(T)
    BY <1>1, FS_Surjection
  <1> QED  BY <1>2 DEF T

LEMMA OperationDiffFinite ==
    ASSUME NEW id, NEW old, NEW new, IsFiniteSet(DOMAIN old.params),
           IsFiniteSet(DOMAIN new.params), IsFiniteSet(old.responses)
    PROVE  IsFiniteSet(DiffOperation(id, old, new))
  <1> DEFINE removed == DOMAIN old.params \ DOMAIN new.params
             added == {p \in DOMAIN new.params \ DOMAIN old.params : new.params[p]}
             gone == old.responses \ new.responses
             fa == [p \in added |-> Finding("Breaking", "new required parameter", <<"op", id, p>>)]
             fr == [p \in removed |-> Finding("Breaking", "parameter removed", <<"op", id, p>>)]
             fg == [r \in gone |-> Finding("Breaking", "response removed", <<"op", id, r>>)]
             A == {fa[p] : p \in added}
             R == {fr[p] : p \in removed}
             G == {fg[r] : r \in gone}
             N == IF old.body = "none" /\ new.body = "required"
                  THEN {Finding("Breaking", "new required request body", <<"op", id>>)} ELSE {}
  <1>1. IsFiniteSet(removed) /\ IsFiniteSet(added) /\ IsFiniteSet(gone)
    BY FS_Subset
  <1>2. IsFiniteSet(A) /\ IsFiniteSet(R) /\ IsFiniteSet(G)
    <2> HIDE DEF fa, fr, fg, added, removed, gone
    <2> QED  BY <1>1, ImageFinite
  <1>3. IsFiniteSet(N)
    BY FS_EmptySet, FS_Singleton
  <1>4. DiffOperation(id, old, new) = A \cup R \cup N \cup G
    <2>1. /\ A = {Finding("Breaking", "new required parameter", <<"op", id, p>>) : p \in added}
          /\ R = {Finding("Breaking", "parameter removed", <<"op", id, p>>) : p \in removed}
          /\ G = {Finding("Breaking", "response removed", <<"op", id, r>>) : r \in gone}
      OBVIOUS
    <2> HIDE DEF A, R, G
    <2> QED  BY <2>1, Zenon DEF DiffOperation
  <1> HIDE DEF A, R, N, G
  <1>5. IsFiniteSet(A \cup R)
    BY <1>2, FS_Union
  <1>6. IsFiniteSet((A \cup R) \cup N)
    BY <1>3, <1>5, FS_Union
  <1>7. IsFiniteSet(((A \cup R) \cup N) \cup G)
    BY <1>2, <1>6, FS_Union
  <1> QED  BY <1>4, <1>7


LEMMA OperationsDiffFinite ==
    ASSUME NEW a, NEW b, IsDocument(a), IsDocument(b)
    PROVE  IsFiniteSet(DiffOperations(a, b))
  <1> DEFINE o == DOMAIN a.ops
             n == DOMAIN b.ops
             fr == [id \in o \ n |-> Finding("Breaking", "operation removed", <<"op", id>>)]
             fa == [id \in n \ o |-> Finding("Info", "operation added", <<"op", id>>)]
             fc == [id \in o \cap n |-> DiffOperation(id, a.ops[id], b.ops[id])]
             R == {fr[id] : id \in o \ n}
             A == {fa[id] : id \in n \ o}
             C == {fc[id] : id \in o \cap n}
  <1>1. IsFiniteSet(o \ n) /\ IsFiniteSet(n \ o) /\ IsFiniteSet(o \cap n)
    BY FS_Subset DEF IsDocument
  <1>2. IsFiniteSet(R) /\ IsFiniteSet(A) /\ IsFiniteSet(C)
    <2> HIDE DEF fr, fa, fc, o, n
    <2> QED  BY <1>1, ImageFinite
  <1>3. ASSUME NEW id \in o \cap n PROVE IsFiniteSet(DiffOperation(id, a.ops[id], b.ops[id]))
    BY OperationDiffFinite DEF IsDocument
  <1>4. IsFiniteSet(UNION C)
    <2>1. \A T \in C : IsFiniteSet(T)
      BY <1>3
    <2> HIDE DEF C
    <2> QED  BY <1>2, <2>1, FS_UNION
  <1>5. DiffOperations(a, b) = R \cup A \cup UNION C
    <2>1. /\ R = {Finding("Breaking", "operation removed", <<"op", id>>) : id \in o \ n}
          /\ A = {Finding("Info", "operation added", <<"op", id>>) : id \in n \ o}
          /\ C = {DiffOperation(id, a.ops[id], b.ops[id]) : id \in o \cap n}
      OBVIOUS
    <2> HIDE DEF R, A, C
    <2> QED  BY <2>1, Zenon DEF DiffOperations
  <1> HIDE DEF R, A, C
  <1>6. IsFiniteSet(R \cup A)
    BY <1>2, FS_Union
  <1>7. IsFiniteSet((R \cup A) \cup UNION C)
    BY <1>4, <1>6, FS_Union
  <1> QED  BY <1>5, <1>7

LEMMA SchemaChangesFinite ==
    ASSUME NEW a, NEW b, IsDocument(a), IsDocument(b)
    PROVE  IsFiniteSet(SchemaChanges(a, b))
  <1> DEFINE common == {n \in DOMAIN a.schemas \cap DOMAIN b.schemas :
                          a.schemas[n].model = "Object" /\ b.schemas[n].model = "Object"}
             op(n) == a.schemas[n].props
             np(n) == b.schemas[n].props
             changed(n) == {p \in DOMAIN op(n) \cup DOMAIN np(n) :
                              PropertyChange(op(n), np(n), p) # "Same"}
             of(n) == {<<n, p, PropertyChange(op(n), np(n), p)>> : p \in changed(n)}
             fc == [n \in common |-> of(n)]
             C == {fc[n] : n \in common}
  <1>1. IsFiniteSet(common)
    BY FS_Subset DEF IsDocument
  <1>2. IsFiniteSet(C)
    <2> HIDE DEF fc, common
    <2> QED  BY <1>1, ImageFinite
  <1>3. ASSUME NEW n \in common PROVE IsFiniteSet(of(n))
    <2>1. IsFiniteSet(DOMAIN op(n)) /\ IsFiniteSet(DOMAIN np(n))
      BY DEF IsDocument
    <2>2. IsFiniteSet(DOMAIN op(n) \cup DOMAIN np(n))
      BY <2>1, FS_Union
    <2>3. IsFiniteSet(changed(n))
      BY <2>2, FS_Subset
    <2> DEFINE f == [p \in changed(n) |-> <<n, p, PropertyChange(op(n), np(n), p)>>]
    <2>4. of(n) = {f[p] : p \in changed(n)}
      OBVIOUS
    <2> HIDE DEF f, changed, of
    <2>5. IsFiniteSet({f[p] : p \in changed(n)})
      BY <2>3, ImageFinite
    <2> QED  BY <2>4, <2>5
  <1>4. IsFiniteSet(UNION C)
    <2>1. \A T \in C : IsFiniteSet(T)
      <3> HIDE DEF of
      <3> QED  BY <1>3
    <2> HIDE DEF C
    <2> QED  BY <1>2, <2>1, FS_UNION
  <1>5. SchemaChanges(a, b) = UNION C
    <2>1. C = {of(n) : n \in common}
      OBVIOUS
    <2> HIDE DEF C
    <2> QED  BY <2>1, Zenon DEF SchemaChanges
  <1> QED  BY <1>4, <1>5

LEMMA DiffFinite ==
    ASSUME NEW a, NEW b, IsDocument(a), IsDocument(b)
    PROVE  IsFiniteSet(DiffDetailed(a, b))
  <1> DEFINE o == DOMAIN a.schemas
             n == DOMAIN b.schemas
             ch == SchemaChanges(a, b)
             fr == [s \in o \ n |-> Finding("Breaking", "schema removed", <<"schema", s>>)]
             fa == [s \in n \ o |-> Finding("Info", "schema added", <<"schema", s>>)]
             fc == [c \in ch |-> Finding(ChangeSeverity(c[3]), c[3], <<"schema", c[1], c[2]>>)]
             R == {fr[s] : s \in o \ n}
             A == {fa[s] : s \in n \ o}
             C == {fc[c] : c \in ch}
  <1>1. IsFiniteSet(o \ n) /\ IsFiniteSet(n \ o) /\ IsFiniteSet(ch)
    BY FS_Subset, SchemaChangesFinite DEF IsDocument
  <1>2. IsFiniteSet(R) /\ IsFiniteSet(A) /\ IsFiniteSet(C)
    <2> HIDE DEF fr, fa, fc, o, n, ch
    <2> QED  BY <1>1, ImageFinite
  <1>3. DiffSchemas(a, b) = R \cup A \cup C
    <2>1. /\ R = {Finding("Breaking", "schema removed", <<"schema", s>>) : s \in o \ n}
          /\ A = {Finding("Info", "schema added", <<"schema", s>>) : s \in n \ o}
          /\ C = {Finding(ChangeSeverity(c[3]), c[3], <<"schema", c[1], c[2]>>) : c \in ch}
      OBVIOUS
    <2> HIDE DEF R, A, C
    <2> QED  BY <2>1, Zenon DEF DiffSchemas
  <1> HIDE DEF R, A, C
  <1>4. IsFiniteSet(R \cup A)
    BY <1>2, FS_Union
  <1>5. IsFiniteSet((R \cup A) \cup C)
    BY <1>2, <1>4, FS_Union
  <1>6. IsFiniteSet(DiffIrVersion(a, b))
    BY FS_EmptySet, FS_Singleton DEF DiffIrVersion
  <1>7. IsFiniteSet(DiffIrVersion(a, b) \cup DiffOperations(a, b))
    BY <1>6, OperationsDiffFinite, FS_Union
  <1>8. IsFiniteSet((DiffIrVersion(a, b) \cup DiffOperations(a, b)) \cup DiffSchemas(a, b))
    BY <1>3, <1>5, <1>7, FS_Union
  <1> QED  BY <1>8 DEF DiffDetailed

LEMMA LeastIndex ==
    ASSUME NEW S, S \subseteq Nat, S # {}
    PROVE  \E m \in S : \A k \in S : m <= k
  <1>1. IsWellFoundedOn(OpToRel(<, Nat), Nat)
    BY NatLessThanWellFounded
  <1>2. PICK m \in S : \A k \in S : ~(<<k, m>> \in OpToRel(<, Nat))
    BY <1>1, WFMin
  <1>3. \A k \in S : ~(k < m)
    BY <1>2 DEF OpToRel
  <1> QED  BY <1>3

(* Evolution counts a break wherever there is one. *)
LEMMA BreaksAreCounted ==
    ASSUME CompareInv, NEW i \in DOMAIN snapshots, i # 1,
           Breaking(DiffSchemas(snapshots[i - 1], snapshots[i])) # {}
    PROVE  BreakingChanges(i) > 0
  <1>1. i - 1 \in DOMAIN snapshots
    BY SnapshotsAreDocuments
  <1> DEFINE a == snapshots[i - 1]
             b == snapshots[i]
             B == Breaking(DiffDetailed(a, b))
  <1>2. IsDocument(a) /\ IsDocument(b)
    BY <1>1, SnapshotsAreDocuments
  <1>3. IsFiniteSet(B)
    <2>1. B \subseteq DiffDetailed(a, b)
      BY DEF Breaking
    <2> HIDE DEF B
    <2> QED  BY <1>2, <2>1, DiffFinite, FS_Subset
  <1>4. B # {}
    BY DEF Breaking, DiffDetailed
  <1> HIDE DEF B
  <1>5. Cardinality(B) \in Nat /\ Cardinality(B) # 0
    BY <1>3, <1>4, FS_CardinalityType, FS_EmptySet
  <1>6. BreakingChanges(i) = Cardinality(B)
    BY DEF BreakingChanges, B
  <1> QED  BY <1>5, <1>6

(* SchemaBreaksAreSeen for every history: comparing neighbours only, evolution
   misses no break between the ends. *)
LEMMA BreaksSeenInReport == CompareInv => SchemaBreaksAreSeen
  <1> SUFFICES ASSUME CompareInv,
                      report # NoReport, report.tool = "evolution", snapshots # <<>>,
                      \A i, j \in DOMAIN snapshots :
                        \A n \in DOMAIN snapshots[i].schemas \cap DOMAIN snapshots[j].schemas :
                          snapshots[i].schemas[n].model = snapshots[j].schemas[n].model,
                      Breaking(DiffSchemas(Oldest, Newest)) # {}
               PROVE  \E i \in DOMAIN report.versions : report.versions[i].breaking > 0
    BY DEF SchemaBreaksAreSeen
  <1>1. report = Evolution
    BY ToolNames DEF CompareInv, Reported
  <1>2. /\ DOMAIN report.versions = DOMAIN snapshots
        /\ \A i \in DOMAIN snapshots : report.versions[i].breaking = BreakingChanges(i)
    BY <1>1 DEF Evolution
  <1>3. PICK m \in Nat : m = Len(snapshots)
    BY SnapshotsAreDocuments
  <1>4. /\ m # 0 /\ DOMAIN snapshots = 1 .. m
        /\ \A i \in 1 .. m : IsDocument(snapshots[i])
    BY <1>3, SnapshotsAreDocuments
  <1> DEFINE S == {j \in 1 .. m : ~SchemasKept(snapshots[1], snapshots[j])}
  <1>5. m \in S
    <2>1. m \in 1 .. m /\ 1 \in 1 .. m
      BY <1>4
    <2>2. ~SchemasKept(snapshots[1], snapshots[m])
      BY <1>3, <1>4, <2>1, KeptIsUnbroken DEF Oldest, Newest
    <2> QED  BY <2>1, <2>2
  <1>6. S \subseteq Nat
    OBVIOUS
  <1>7. PICK j \in S : \A k \in S : j <= k
    <2> HIDE DEF S
    <2> QED  BY <1>5, <1>6, LeastIndex
  <1>8. j \in 1 .. m /\ ~SchemasKept(snapshots[1], snapshots[j])
    BY <1>7
  <1>9. j # 1
    BY <1>8, KeptIsReflexive
  <1>10. j - 1 \in 1 .. m /\ ~(j <= j - 1)
    BY <1>8, <1>9
  <1>11. SchemasKept(snapshots[1], snapshots[j - 1])
    BY <1>7, <1>10
  <1>12. ~SchemasKept(snapshots[j - 1], snapshots[j])
    <2>1. \A n \in DOMAIN snapshots[1].schemas \cap DOMAIN snapshots[j - 1].schemas :
            snapshots[1].schemas[n].model = snapshots[j - 1].schemas[n].model
      BY <1>4, <1>10
    <2> QED  BY <1>8, <1>11, <2>1, KeptIsTransitive
  <1>13. Breaking(DiffSchemas(snapshots[j - 1], snapshots[j])) # {}
    BY <1>4, <1>8, <1>10, <1>12, UnbrokenIsKept
  <1>14. BreakingChanges(j) > 0
    BY <1>4, <1>8, <1>9, <1>13, BreaksAreCounted
  <1> QED  BY <1>2, <1>4, <1>8, <1>14


-----------------------------------------------------------------------------
(* Upgrades and their way back. *)
LEMMA OperationFindings ==
    ASSUME NEW id, NEW old, NEW new, NEW f \in DiffOperation(id, old, new)
    PROVE  f.severity = "Breaking" /\ f.at[1] = "op" /\ f.at[2] = id
  <1> DEFINE removed == DOMAIN old.params \ DOMAIN new.params
             added == {p \in DOMAIN new.params \ DOMAIN old.params : new.params[p]}
             gone == old.responses \ new.responses
  <1>1. \/ \E p \in added : f = Finding("Breaking", "new required parameter", <<"op", id, p>>)
        \/ \E p \in removed : f = Finding("Breaking", "parameter removed", <<"op", id, p>>)
        \/ f = Finding("Breaking", "new required request body", <<"op", id>>)
        \/ \E r \in gone : f = Finding("Breaking", "response removed", <<"op", id, r>>)
    BY DEF DiffOperation
  <1> HIDE DEF removed, added, gone
  <1>2. CASE f = Finding("Breaking", "new required request body", <<"op", id>>)
    BY <1>2 DEF Finding
  <1>3. CASE \E w, p : f = Finding("Breaking", w, <<"op", id, p>>)
    <2>1. PICK w, p : f = Finding("Breaking", w, <<"op", id, p>>)
      BY <1>3
    <2> QED  BY <2>1 DEF Finding
  <1> QED  BY <1>1, <1>2, <1>3

LEMMA OperationsFindings ==
    ASSUME NEW a, NEW b, NEW f \in DiffOperations(a, b)
    PROVE  \/ \E id \in DOMAIN a.ops \ DOMAIN b.ops :
                f = Finding("Breaking", "operation removed", <<"op", id>>)
           \/ \E id \in DOMAIN b.ops \ DOMAIN a.ops :
                f = Finding("Info", "operation added", <<"op", id>>)
           \/ \E id \in DOMAIN a.ops \cap DOMAIN b.ops :
                f \in DiffOperation(id, a.ops[id], b.ops[id])
  BY DEF DiffOperations

(* A harmless change is a break the other way round. *)
LEMMA ChangeRollsBack ==
    ASSUME NEW op, NEW np, NEW p \in DOMAIN op \cup DOMAIN np,
           p \in DOMAIN op => op[p].required \in BOOLEAN,
           p \in DOMAIN np => np[p].required \in BOOLEAN,
           PropertyChange(op, np, p) \in {"Added", "NowOptional"}
    PROVE  PropertyChange(np, op, p) \in {"Removed", "NowRequired"}
  <1>1. CASE p \notin DOMAIN op
    BY <1>1 DEF PropertyChange
  <1>2. CASE p \in DOMAIN op
    <2>1. p \in DOMAIN np
      BY <1>2 DEF PropertyChange
    <2>2. ~TypeChanged(op[p].ty, np[p].ty)
      BY <1>2, <2>1 DEF PropertyChange
    <2>3. op[p].required # np[p].required /\ ~np[p].required
      BY <1>2, <2>1, <2>2 DEF PropertyChange
    <2>4. ~TypeChanged(np[p].ty, op[p].ty)
      BY <2>2 DEF TypeChanged
    <2> QED  BY <1>2, <2>1, <2>3, <2>4 DEF PropertyChange
  <1> QED  BY <1>1, <1>2

LEMMA HarmlessRollsBack ==
    ASSUME NEW a, NEW b, IsDocument(a), IsDocument(b),
           NEW f \in DiffOperations(a, b) \cup DiffSchemas(a, b), f.severity # "Breaking"
    PROVE  Breaking(DiffDetailed(b, a)) # {}
  <1> SUFFICES \E g \in DiffOperations(b, a) \cup DiffSchemas(b, a) : g.severity = "Breaking"
    BY DEF Breaking, DiffDetailed
  <1>1. CASE f \in DiffOperations(a, b)
    <2>1. ~\E id \in DOMAIN a.ops \ DOMAIN b.ops :
             f = Finding("Breaking", "operation removed", <<"op", id>>)
      <3> SUFFICES ASSUME NEW id, f = Finding("Breaking", "operation removed", <<"op", id>>)
                   PROVE  FALSE
        OBVIOUS
      <3> QED  BY DEF Finding
    <2>2. ~\E id \in DOMAIN a.ops \cap DOMAIN b.ops :
             f \in DiffOperation(id, a.ops[id], b.ops[id])
      BY OperationFindings
    <2>3. PICK id \in DOMAIN b.ops \ DOMAIN a.ops :
            f = Finding("Info", "operation added", <<"op", id>>)
      BY <1>1, <2>1, <2>2, OperationsFindings
    <2>4. Finding("Breaking", "operation removed", <<"op", id>>) \in DiffOperations(b, a)
      BY <2>3 DEF DiffOperations
    <2>5. Finding("Breaking", "operation removed", <<"op", id>>).severity = "Breaking"
      BY DEF Finding
    <2> QED  BY <2>4, <2>5
  <1>2. CASE f \in DiffSchemas(a, b)
    <2>1. CASE \E s \in DOMAIN b.schemas \ DOMAIN a.schemas :
                 f = Finding("Info", "schema added", <<"schema", s>>)
      <3>1. PICK s \in DOMAIN b.schemas \ DOMAIN a.schemas : TRUE
        BY <2>1
      <3>2. Finding("Breaking", "schema removed", <<"schema", s>>) \in DiffSchemas(b, a)
        BY <3>1 DEF DiffSchemas
      <3>3. Finding("Breaking", "schema removed", <<"schema", s>>).severity = "Breaking"
        BY DEF Finding
      <3> QED  BY <3>2, <3>3
    <2>2. CASE \E c \in SchemaChanges(a, b) :
                 f = Finding(ChangeSeverity(c[3]), c[3], <<"schema", c[1], c[2]>>)
      <3>1. PICK c \in SchemaChanges(a, b) :
              f = Finding(ChangeSeverity(c[3]), c[3], <<"schema", c[1], c[2]>>)
        BY <2>2
      <3>2. c[3] \in {"Added", "NowOptional"}
        <4>1. f.severity = ChangeSeverity(c[3])
          BY <3>1 DEF Finding
        <4> QED  BY <4>1 DEF ChangeSeverity
      <3>3. PICK n \in DOMAIN a.schemas \cap DOMAIN b.schemas :
              /\ a.schemas[n].model = "Object" /\ b.schemas[n].model = "Object"
              /\ \E p \in DOMAIN a.schemas[n].props \cup DOMAIN b.schemas[n].props :
                   LET change == PropertyChange(a.schemas[n].props, b.schemas[n].props, p)
                   IN change # "Same" /\ c = <<n, p, change>>
        BY SchemaChangesFacts
      <3> DEFINE op == a.schemas[n].props
                 np == b.schemas[n].props
      <3>4. PICK p \in DOMAIN op \cup DOMAIN np : c[3] = PropertyChange(op, np, p)
        BY <3>3
      <3>5. /\ \A q \in DOMAIN op : op[q].required \in BOOLEAN
            /\ \A q \in DOMAIN np : np[q].required \in BOOLEAN
        BY <3>3 DEF IsDocument
      <3> DEFINE back == PropertyChange(np, op, p)
      <3>6. back \in {"Removed", "NowRequired"}
        <4> HIDE DEF op, np
        <4> QED  BY <3>2, <3>4, <3>5, ChangeRollsBack
      <3> HIDE DEF back
      <3>7. <<n, p, back>> \in SchemaChanges(b, a)
        <4>1. p \in DOMAIN np \cup DOMAIN op /\ back # "Same"
          BY <3>6
        <4> QED  BY <3>3, <4>1, SchemaChangesFacts DEF back
      <3>8. Finding(ChangeSeverity(back), back, <<"schema", n, p>>) \in DiffSchemas(b, a)
        <4>1. LET c1 == <<n, p, back>>
              IN Finding(ChangeSeverity(c1[3]), c1[3], <<"schema", c1[1], c1[2]>>)
                   \in DiffSchemas(b, a)
          BY <3>7, DiffSchemasFacts
        <4> QED  BY <4>1
      <3>9. Finding(ChangeSeverity(back), back, <<"schema", n, p>>).severity = "Breaking"
        BY <3>6 DEF Finding, ChangeSeverity
      <3> QED  BY <3>8, <3>9
    <2>3. ~\E s \in DOMAIN a.schemas \ DOMAIN b.schemas :
             f = Finding("Breaking", "schema removed", <<"schema", s>>)
      <3> SUFFICES ASSUME NEW s, f = Finding("Breaking", "schema removed", <<"schema", s>>)
                   PROVE  FALSE
        OBVIOUS
      <3> QED  BY DEF Finding
    <2>4. \/ \E s \in DOMAIN a.schemas \ DOMAIN b.schemas :
               f = Finding("Breaking", "schema removed", <<"schema", s>>)
          \/ \E s \in DOMAIN b.schemas \ DOMAIN a.schemas :
               f = Finding("Info", "schema added", <<"schema", s>>)
          \/ \E c \in SchemaChanges(a, b) :
               f = Finding(ChangeSeverity(c[3]), c[3], <<"schema", c[1], c[2]>>)
      BY <1>2 DEF DiffSchemas
    <2> QED  BY <2>1, <2>2, <2>3, <2>4, Zenon
  <1> QED  BY <1>1, <1>2

LEMMA RollbackInReport == CompareInv => RollbackBreaks
  <1> SUFFICES ASSUME CompareInv, report # NoReport, report.tool = "diff",
                      DiffDetailed(Oldest, Newest) \ DiffIrVersion(Oldest, Newest) # {},
                      Breaking(DiffDetailed(Oldest, Newest)) = {}
               PROVE  Breaking(DiffDetailed(Newest, Oldest)) # {}
    BY DEF RollbackBreaks
  <1>1. snapshots # <<>>
    BY ToolNames DEF CompareInv, Reported
  <1>2. IsDocument(Oldest) /\ IsDocument(Newest)
    BY <1>1, SnapshotsAreDocuments DEF Oldest, Newest
  <1>3. PICK f \in DiffOperations(Oldest, Newest) \cup DiffSchemas(Oldest, Newest) : TRUE
    BY DEF DiffDetailed
  <1>4. f.severity # "Breaking"
    BY <1>3 DEF Breaking, DiffDetailed
  <1> QED  BY <1>2, <1>3, <1>4, HarmlessRollsBack


-----------------------------------------------------------------------------
(* The changelog. *)
LEMMA Severities ==
    ASSUME NEW a, NEW b, NEW f \in DiffDetailed(a, b)
    PROVE  f.severity \in {"Breaking", "Info"}
  <1>1. ASSUME NEW s \in {"Breaking", "Info"}, NEW w, NEW at, f = Finding(s, w, at)
        PROVE  f.severity \in {"Breaking", "Info"}
    BY <1>1 DEF Finding
  <1>2. CASE f \in DiffIrVersion(a, b)
    <2>1. f = Finding(IF a.ir[1] # b.ir[1] THEN "Breaking" ELSE "Info",
                      "IR version changed", <<"ir">>)
      BY <1>2 DEF DiffIrVersion
    <2>2. (IF a.ir[1] # b.ir[1] THEN "Breaking" ELSE "Info") \in {"Breaking", "Info"}
      OBVIOUS
    <2> QED  BY <1>1, <2>1, <2>2
  <1>3. CASE f \in DiffOperations(a, b)
    <2>1. CASE \E id \in DOMAIN a.ops \ DOMAIN b.ops :
                 f = Finding("Breaking", "operation removed", <<"op", id>>)
      BY <1>1, <2>1
    <2>2. CASE \E id \in DOMAIN b.ops \ DOMAIN a.ops :
                 f = Finding("Info", "operation added", <<"op", id>>)
      BY <1>1, <2>2
    <2>3. CASE \E id \in DOMAIN a.ops \cap DOMAIN b.ops :
                 f \in DiffOperation(id, a.ops[id], b.ops[id])
      BY <2>3, OperationFindings
    <2> QED  BY <1>3, <2>1, <2>2, <2>3 DEF DiffOperations
  <1>4. CASE f \in DiffSchemas(a, b)
    <2>1. CASE \E s \in DOMAIN a.schemas \ DOMAIN b.schemas :
                 f = Finding("Breaking", "schema removed", <<"schema", s>>)
      BY <1>1, <2>1
    <2>2. CASE \E s \in DOMAIN b.schemas \ DOMAIN a.schemas :
                 f = Finding("Info", "schema added", <<"schema", s>>)
      BY <1>1, <2>2
    <2>3. CASE \E c \in SchemaChanges(a, b) :
                 f = Finding(ChangeSeverity(c[3]), c[3], <<"schema", c[1], c[2]>>)
      <3>1. \A x : ChangeSeverity(x) \in {"Breaking", "Info"}
        BY DEF ChangeSeverity
      <3> QED  BY <1>1, <2>3, <3>1
    <2> QED  BY <1>4, <2>1, <2>2, <2>3 DEF DiffSchemas
  <1> QED  BY <1>2, <1>3, <1>4 DEF DiffDetailed

LEMMA BumpFacts ==
    ASSUME NEW a, NEW b
    PROVE  LET fs == DiffDetailed(a, b)
           IN /\ ComputeSuggestedBump(fs) = "major" <=> \E f \in fs : f.severity = "Breaking"
              /\ fs # {} => ComputeSuggestedBump(fs) # "none"
  <1> DEFINE fs == DiffDetailed(a, b)
  <1>1. \A f \in fs : f.severity \in {"Breaking", "Info"}
    BY Severities
  <1> HIDE DEF fs
  <1>2. Breaking(fs) # {} <=> \E f \in fs : f.severity = "Breaking"
    BY DEF Breaking
  <1>3. fs # {} => Breaking(fs) # {} \/ Info(fs) # {}
    BY <1>1 DEF Breaking, Info
  <1>4. /\ ComputeSuggestedBump(fs) = "major" <=> \E f \in fs : f.severity = "Breaking"
        /\ fs # {} => ComputeSuggestedBump(fs) # "none"
    BY <1>2, <1>3 DEF ComputeSuggestedBump
  <1> QED  BY <1>4 DEF fs

LEMMA OperationEntryFacts ==
    ASSUME NEW fs, NEW new, \A f \in fs : f.severity \in {"Breaking", "Info"}
    PROVE  /\ \A e \in OperationEntries(fs, new) :
                /\ fs # {}
                /\ e.impact = "Breaking" => \E f \in fs : f.severity = "Breaking"
           /\ \A f \in fs : f.severity = "Breaking" /\ f.at[1] = "op" =>
                \E e \in OperationEntries(fs, new) : e.impact = "Breaking"
  <1>1. \A f \in fs : ClassifyFinding(f) = "Breaking" <=> f.severity = "Breaking"
    BY DEF ClassifyFinding
  <1> DEFINE of(id) == {f \in fs : f.at[1] = "op" /\ f.at[2] = id}
             kind(id) == IF \E f \in of(id) : f.what = "operation removed" THEN "Removed"
                         ELSE IF \E f \in of(id) : f.what = "operation added" THEN "Added"
                         ELSE "Modified"
             impact(id) == IF \E f \in of(id) : ClassifyFinding(f) = "Breaking" THEN "Breaking"
                           ELSE IF \E f \in of(id) : ClassifyFinding(f) = "Feature" THEN "Feature"
                           ELSE "Fix"
             ids == {f.at[2] : f \in {g \in fs : g.at[1] = "op"}}
             entry(id) == [id |-> id, change |-> kind(id), impact |-> impact(id),
                           known |-> id \in DOMAIN new.ops]
  <1>2. OperationEntries(fs, new) = {entry(id) : id \in ids}
    BY DEF OperationEntries
  <1> HIDE DEF kind
  <1>3. \A id : entry(id).impact = impact(id)
    OBVIOUS
  <1>4. \A id : impact(id) = "Breaking" => \E f \in of(id) : ClassifyFinding(f) = "Breaking"
    OBVIOUS
  <1>5. \A id : (\E f \in of(id) : ClassifyFinding(f) = "Breaking") => impact(id) = "Breaking"
    OBVIOUS
  <1> HIDE DEF impact, entry
  <1>6. ASSUME NEW e \in OperationEntries(fs, new)
        PROVE  fs # {} /\ (e.impact = "Breaking" => \E f \in fs : f.severity = "Breaking")
    <2>1. PICK id \in ids : e = entry(id)
      BY <1>2
    <2>2. fs # {}
      BY <2>1
    <2>3. e.impact = "Breaking" => \E f \in of(id) : ClassifyFinding(f) = "Breaking"
      BY <1>3, <1>4, <2>1
    <2> QED  BY <1>1, <2>2, <2>3
  <1>7. ASSUME NEW f \in fs, f.severity = "Breaking", f.at[1] = "op"
        PROVE  \E e \in OperationEntries(fs, new) : e.impact = "Breaking"
    <2>1. f.at[2] \in ids /\ f \in of(f.at[2])
      BY <1>7
    <2>2. impact(f.at[2]) = "Breaking"
      BY <1>1, <1>5, <1>7, <2>1
    <2>3. entry(f.at[2]) \in OperationEntries(fs, new)
      BY <1>2, <2>1
    <2> QED  BY <1>3, <2>2, <2>3
  <1> QED  BY <1>6, <1>7


LEMMA SchemaEntryFacts ==
    ASSUME NEW changes
    PROVE  /\ SchemaEntries(changes) # {} => changes # {}
           /\ \A e \in SchemaEntries(changes) :
                e.impact = "Breaking" => \E c \in changes : ChangeSeverity(c[3]) = "Breaking"
           /\ \A c \in changes : ChangeSeverity(c[3]) = "Breaking" =>
                \E e \in SchemaEntries(changes) : e.impact = "Breaking"
  <1>1. \A x : PropertyImpact(x) = "Breaking" <=> ChangeSeverity(x) = "Breaking"
    BY DEF PropertyImpact, ChangeSeverity
  <1> DEFINE impact(n) ==
               IF \E c \in changes : c[1] = n /\ PropertyImpact(c[3]) = "Breaking"
               THEN "Breaking" ELSE "Feature"
             entry(n) == [schema |-> n, impact |-> impact(n)]
             names == {c[1] : c \in changes}
  <1>2. SchemaEntries(changes) = {entry(n) : n \in names}
    BY DEF SchemaEntries
  <1>3. \A n : entry(n).impact = impact(n)
    OBVIOUS
  <1>4. \A n : impact(n) = "Breaking" <=>
                 \E c \in changes : c[1] = n /\ PropertyImpact(c[3]) = "Breaking"
    OBVIOUS
  <1> HIDE DEF impact, entry
  <1>5. ASSUME NEW e \in SchemaEntries(changes), e.impact = "Breaking"
        PROVE  \E c \in changes : ChangeSeverity(c[3]) = "Breaking"
    BY <1>1, <1>2, <1>3, <1>4, <1>5
  <1>6. ASSUME NEW c \in changes, ChangeSeverity(c[3]) = "Breaking"
        PROVE  \E e \in SchemaEntries(changes) : e.impact = "Breaking"
    <2>1. impact(c[1]) = "Breaking"
      BY <1>1, <1>4, <1>6
    <2>2. entry(c[1]) \in SchemaEntries(changes)
      BY <1>2
    <2> QED  BY <1>3, <2>1, <2>2
  <1>7. SchemaEntries(changes) # {} => changes # {}
    BY <1>2
  <1> QED  BY <1>5, <1>6, <1>7

LEMMA ChangeIsFound ==
    ASSUME NEW a, NEW b, NEW c \in SchemaChanges(a, b)
    PROVE  \E f \in DiffDetailed(a, b) : f.severity = ChangeSeverity(c[3])
  <1> DEFINE g == Finding(ChangeSeverity(c[3]), c[3], <<"schema", c[1], c[2]>>)
  <1>1. g \in DiffDetailed(a, b)
    BY DiffSchemasFacts DEF DiffDetailed
  <1>2. g.severity = ChangeSeverity(c[3])
    BY DEF Finding
  <1> QED  BY <1>1, <1>2

(* A breaking finding shows in an entry, unless it is about a schema that is
   gone or about the version of the representation. *)
LEMMA BreakIsListed ==
    ASSUME NEW a, NEW b, NEW f \in DiffDetailed(a, b), f.severity = "Breaking",
           DOMAIN a.schemas \subseteq DOMAIN b.schemas, a.ir[1] = b.ir[1]
    PROVE  \/ \E e \in OperationEntries(DiffDetailed(a, b), b) : e.impact = "Breaking"
           \/ \E e \in SchemaEntries(SchemaChanges(a, b)) : e.impact = "Breaking"
  <1>1. CASE f \in DiffIrVersion(a, b)
    <2>1. f = Finding("Info", "IR version changed", <<"ir">>)
      BY <1>1 DEF DiffIrVersion
    <2> QED  BY <2>1, FindingParts
  <1>2. CASE f \in DiffOperations(a, b)
    <2>1. f.at[1] = "op"
      <3>1. CASE \E id \in DOMAIN a.ops \ DOMAIN b.ops :
                   f = Finding("Breaking", "operation removed", <<"op", id>>)
        <4>1. PICK id : f = Finding("Breaking", "operation removed", <<"op", id>>)
          BY <3>1
        <4>2. f.at = <<"op", id>>
          BY <4>1 DEF Finding
        <4> QED  BY <4>2
      <3>2. CASE \E id \in DOMAIN b.ops \ DOMAIN a.ops :
                   f = Finding("Info", "operation added", <<"op", id>>)
        <4>1. PICK id : f = Finding("Info", "operation added", <<"op", id>>)
          BY <3>2
        <4>2. f.at = <<"op", id>>
          BY <4>1 DEF Finding
        <4> QED  BY <4>2
      <3>3. CASE \E id \in DOMAIN a.ops \cap DOMAIN b.ops :
                   f \in DiffOperation(id, a.ops[id], b.ops[id])
        BY <3>3, OperationFindings
      <3> QED  BY <1>2, <3>1, <3>2, <3>3, OperationsFindings
    <2>2. \A g \in DiffDetailed(a, b) : g.severity \in {"Breaking", "Info"}
      BY Severities
    <2> QED  BY <2>1, <2>2, OperationEntryFacts
  <1>3. CASE f \in DiffSchemas(a, b)
    <2>1. CASE \E s \in DOMAIN b.schemas \ DOMAIN a.schemas :
                 f = Finding("Info", "schema added", <<"schema", s>>)
      <3>1. PICK s : f = Finding("Info", "schema added", <<"schema", s>>)
        BY <2>1
      <3>2. f.severity = "Info"
        BY <3>1 DEF Finding
      <3> QED  BY <3>2
    <2>2. CASE \E c \in SchemaChanges(a, b) :
                 f = Finding(ChangeSeverity(c[3]), c[3], <<"schema", c[1], c[2]>>)
      <3>1. \E c \in SchemaChanges(a, b) : ChangeSeverity(c[3]) = "Breaking"
        BY <2>2, FindingParts
      <3> QED  BY <3>1, SchemaEntryFacts
    <2>3. ~\E s \in DOMAIN a.schemas \ DOMAIN b.schemas :
             f = Finding("Breaking", "schema removed", <<"schema", s>>)
      OBVIOUS
    <2>4. \/ \E s \in DOMAIN a.schemas \ DOMAIN b.schemas :
               f = Finding("Breaking", "schema removed", <<"schema", s>>)
          \/ \E s \in DOMAIN b.schemas \ DOMAIN a.schemas :
               f = Finding("Info", "schema added", <<"schema", s>>)
          \/ \E c \in SchemaChanges(a, b) :
               f = Finding(ChangeSeverity(c[3]), c[3], <<"schema", c[1], c[2]>>)
      BY <1>3 DEF DiffSchemas
    <2> QED  BY <2>1, <2>2, <2>3, <2>4, Zenon
  <1> QED  BY <1>1, <1>2, <1>3 DEF DiffDetailed

LEMMA BumpInReport == CompareInv => BumpMatchesEntries
  <1> SUFFICES ASSUME CompareInv, report # NoReport, report.tool = "changelog",
                      report.json, report.previous = "read"
               PROVE  BumpMatchesEntries
    BY DEF BumpMatchesEntries
  <1> DEFINE fs == DiffDetailed(Oldest, Newest)
             changes == SchemaChanges(Oldest, Newest)
  <1>1. PICK previous, days, json : report = Changelog(previous, days, json)
    BY ToolNames DEF CompareInv, Reported
  <1>2. /\ Changelog(previous, days, json).previous = previous
        /\ Changelog(previous, days, json).json = json
    BY DEF Changelog
  <1>3. previous = "read" /\ json
    BY <1>1, <1>2
  <1>4. report.result = GenerateChangelog("read", Oldest, Newest, days)
    BY <1>1, <1>3 DEF Changelog
  <1>5. /\ report.result.bump = ComputeSuggestedBump(fs)
        /\ report.result.operations = OperationEntries(fs, Newest)
        /\ report.result.schemas = SchemaEntries(changes)
    BY <1>4 DEF GenerateChangelog
  <1>6. \A f \in fs : f.severity \in {"Breaking", "Info"}
    BY Severities
  <1>7. /\ ComputeSuggestedBump(fs) = "major" <=> \E f \in fs : f.severity = "Breaking"
        /\ fs # {} => ComputeSuggestedBump(fs) # "none"
    BY BumpFacts
  <1>8. \A c \in changes : \E f \in fs : f.severity = ChangeSeverity(c[3])
    BY ChangeIsFound
  <1>9. \A e \in OperationEntries(fs, Newest) \cup SchemaEntries(changes) :
           /\ fs # {}
           /\ e.impact = "Breaking" => \E f \in fs : f.severity = "Breaking"
    <2>1. \A e \in OperationEntries(fs, Newest) :
             fs # {} /\ (e.impact = "Breaking" => \E f \in fs : f.severity = "Breaking")
      BY <1>6, OperationEntryFacts
    <2>2. ASSUME NEW e \in SchemaEntries(changes)
          PROVE  fs # {} /\ (e.impact = "Breaking" => \E f \in fs : f.severity = "Breaking")
      BY <1>8, SchemaEntryFacts
    <2> QED  BY <2>1, <2>2
  <1>10. (\E f \in fs : f.severity = "Breaking") =>
            \/ \E e \in OperationEntries(fs, Newest) \cup SchemaEntries(changes) :
                 e.impact = "Breaking"
            \/ DOMAIN Oldest.schemas \ DOMAIN Newest.schemas # {}
            \/ Oldest.ir[1] # Newest.ir[1]
    BY BreakIsListed
  <1> HIDE DEF fs, changes
  <1> QED  BY <1>5, <1>7, <1>9, <1>10 DEF BumpMatchesEntries


-----------------------------------------------------------------------------
(* The migration guide. *)
LEMMA EntryFindings ==
    ASSUME NEW x, NEW y
    PROVE  /\ AsFinding(<<"operation removed", x>>) =
                {Finding("Breaking", "operation removed", <<"op", x>>)}
           /\ AsFinding(<<"schema removed", x>>) =
                {Finding("Breaking", "schema removed", <<"schema", x>>)}
           /\ AsFinding(<<"now requires", x, y>>) =
                {Finding("Breaking", "new required parameter", <<"op", x, y>>)}
           /\ AsFinding(<<"property removed", x, y>>) =
                {Finding("Breaking", "Removed", <<"schema", x, y>>)}
           /\ AsFinding(<<"added as required", x, y>>) =
                {Finding("Breaking", "AddedRequired", <<"schema", x, y>>)}
           /\ AsFinding(<<"new operation", x>>) =
                {Finding("Info", "operation added", <<"op", x>>)}
           /\ AsFinding(<<"new schema", x>>) =
                {Finding("Info", "schema added", <<"schema", x>>)}
           /\ AsFinding(<<"deprecated", x>>) = {} /\ AsFinding(<<"type changed", x, y>>) = {}
  <1>1. AsFinding(<<"operation removed", x>>) =
          {Finding("Breaking", "operation removed", <<"op", x>>)}
    BY DEF AsFinding
  <1>2. AsFinding(<<"schema removed", x>>) =
          {Finding("Breaking", "schema removed", <<"schema", x>>)}
    BY DEF AsFinding
  <1>3. AsFinding(<<"now requires", x, y>>) =
          {Finding("Breaking", "new required parameter", <<"op", x, y>>)}
    BY DEF AsFinding
  <1>4. AsFinding(<<"property removed", x, y>>) =
          {Finding("Breaking", "Removed", <<"schema", x, y>>)}
    BY DEF AsFinding
  <1>5. AsFinding(<<"added as required", x, y>>) =
          {Finding("Breaking", "AddedRequired", <<"schema", x, y>>)}
    BY DEF AsFinding
  <1>6. AsFinding(<<"new operation", x>>) =
          {Finding("Info", "operation added", <<"op", x>>)}
    BY DEF AsFinding
  <1>7. AsFinding(<<"new schema", x>>) =
          {Finding("Info", "schema added", <<"schema", x>>)}
    BY DEF AsFinding
  <1>8. AsFinding(<<"deprecated", x>>) = {} /\ AsFinding(<<"type changed", x, y>>) = {}
    BY DEF AsFinding
  <1> QED  BY <1>1, <1>2, <1>3, <1>4, <1>5, <1>6, <1>7, <1>8

(* What an entry of the guide says, of a schema and in general. *)
IsSchemaEntry(a, b, e) ==
  \E n \in DOMAIN a.schemas \cap DOMAIN b.schemas :
    /\ a.schemas[n].model = "Object" /\ b.schemas[n].model = "Object"
    /\ LET op == a.schemas[n].props
           np == b.schemas[n].props
       IN \/ \E p \in DOMAIN op \ DOMAIN np : e = <<"property removed", n, p>>
          \/ \E p \in DOMAIN op \cap DOMAIN np :
               op[p].ty # np[p].ty /\ e = <<"type changed", n, p>>
          \/ \E p \in DOMAIN np \ DOMAIN op :
               np[p].required /\ e = <<"added as required", n, p>>

IsGuideEntry(a, b, e) ==
  \/ \E d \in {x \in FindDeprecations(b) : x.kind \in {"Operation", "Schema"}} :
       e = <<"deprecated", d>>
  \/ \E id \in DOMAIN a.ops \ DOMAIN b.ops : e = <<"operation removed", id>>
  \/ \E s \in DOMAIN a.schemas \ DOMAIN b.schemas : e = <<"schema removed", s>>
  \/ \E id \in DOMAIN a.ops \cap DOMAIN b.ops :
       \E p \in DOMAIN b.ops[id].params \ DOMAIN a.ops[id].params :
         b.ops[id].params[p] /\ e = <<"now requires", id, p>>
  \/ e \in GuideSchemaChanges(a, b)
  \/ \E id \in DOMAIN b.ops \ DOMAIN a.ops : e = <<"new operation", id>>
  \/ \E s \in DOMAIN b.schemas \ DOMAIN a.schemas : e = <<"new schema", s>>

LEMMA GuideSchemaFacts ==
    ASSUME NEW a, NEW b, NEW e
    PROVE  e \in GuideSchemaChanges(a, b) <=> IsSchemaEntry(a, b, e)
  <1> DEFINE common == {n \in DOMAIN a.schemas \cap DOMAIN b.schemas :
                          /\ a.schemas[n].model = "Object"
                          /\ b.schemas[n].model = "Object"}
             op(n) == a.schemas[n].props
             np(n) == b.schemas[n].props
             removed(n) == {<<"property removed", n, p>> : p \in DOMAIN op(n) \ DOMAIN np(n)}
             changed(n) == {<<"type changed", n, p>> :
                              p \in {q \in DOMAIN op(n) \cap DOMAIN np(n) :
                                       op(n)[q].ty # np(n)[q].ty}}
             added(n) == {<<"added as required", n, p>> :
                            p \in {q \in DOMAIN np(n) \ DOMAIN op(n) : np(n)[q].required}}
  <1>1. GuideSchemaChanges(a, b) = UNION {removed(n) \cup changed(n) \cup added(n) : n \in common}
    BY Zenon DEF GuideSchemaChanges
  <1>2. ASSUME NEW n
        PROVE  /\ e \in removed(n) <=>
                    \E p \in DOMAIN op(n) \ DOMAIN np(n) : e = <<"property removed", n, p>>
               /\ e \in changed(n) <=>
                    \E p \in DOMAIN op(n) \cap DOMAIN np(n) :
                      op(n)[p].ty # np(n)[p].ty /\ e = <<"type changed", n, p>>
               /\ e \in added(n) <=>
                    \E p \in DOMAIN np(n) \ DOMAIN op(n) :
                      np(n)[p].required /\ e = <<"added as required", n, p>>
    <2>1. e \in removed(n) <=>
            \E p \in DOMAIN op(n) \ DOMAIN np(n) : e = <<"property removed", n, p>>
      OBVIOUS
    <2>2. e \in changed(n) <=>
            \E p \in DOMAIN op(n) \cap DOMAIN np(n) :
              op(n)[p].ty # np(n)[p].ty /\ e = <<"type changed", n, p>>
      OBVIOUS
    <2>3. e \in added(n) <=>
            \E p \in DOMAIN np(n) \ DOMAIN op(n) :
              np(n)[p].required /\ e = <<"added as required", n, p>>
      OBVIOUS
    <2> QED  BY <2>1, <2>2, <2>3
  <1> HIDE DEF removed, changed, added
  <1>3. e \in GuideSchemaChanges(a, b) <=>
          \E n \in common : e \in removed(n) \/ e \in changed(n) \/ e \in added(n)
    BY <1>1
  <1> HIDE DEF op, np
  <1>4. e \in GuideSchemaChanges(a, b) <=>
          \E n \in DOMAIN a.schemas \cap DOMAIN b.schemas :
            /\ a.schemas[n].model = "Object" /\ b.schemas[n].model = "Object"
            /\ \/ \E p \in DOMAIN op(n) \ DOMAIN np(n) : e = <<"property removed", n, p>>
               \/ \E p \in DOMAIN op(n) \cap DOMAIN np(n) :
                    op(n)[p].ty # np(n)[p].ty /\ e = <<"type changed", n, p>>
               \/ \E p \in DOMAIN np(n) \ DOMAIN op(n) :
                    np(n)[p].required /\ e = <<"added as required", n, p>>
    BY <1>2, <1>3
  <1> QED  BY <1>4, Zenon DEF op, np, IsSchemaEntry

LEMMA GuideFacts ==
    ASSUME NEW a, NEW b, NEW e
    PROVE  e \in GenerateMigrationGuide(a, b) <=> IsGuideEntry(a, b, e)
  <1> DEFINE required(id) == {p \in DOMAIN b.ops[id].params \ DOMAIN a.ops[id].params :
                                b.ops[id].params[p]}
             deprecated == {<<"deprecated", d>> : d \in
                              {x \in FindDeprecations(b) : x.kind \in {"Operation", "Schema"}}}
             removedOps == {<<"operation removed", id>> : id \in DOMAIN a.ops \ DOMAIN b.ops}
             removedSchemas == {<<"schema removed", s>> :
                                  s \in DOMAIN a.schemas \ DOMAIN b.schemas}
             requires(id) == {<<"now requires", id, p>> : p \in required(id)}
             both == DOMAIN a.ops \cap DOMAIN b.ops
             newOps == {<<"new operation", id>> : id \in DOMAIN b.ops \ DOMAIN a.ops}
             newSchemas == {<<"new schema", s>> : s \in DOMAIN b.schemas \ DOMAIN a.schemas}
  <1> DEFINE needs == UNION {requires(id) : id \in both}
  <1>1. GenerateMigrationGuide(a, b) =
          deprecated \cup removedOps \cup removedSchemas \cup needs
          \cup GuideSchemaChanges(a, b) \cup newOps \cup newSchemas
    BY Zenon DEF GenerateMigrationGuide
  <1>2. e \in needs <=>
          \E id \in both :
            \E p \in DOMAIN b.ops[id].params \ DOMAIN a.ops[id].params :
              b.ops[id].params[p] /\ e = <<"now requires", id, p>>
    <2>1. \A id : e \in requires(id) <=>
                  \E p \in DOMAIN b.ops[id].params \ DOMAIN a.ops[id].params :
                    b.ops[id].params[p] /\ e = <<"now requires", id, p>>
      OBVIOUS
    <2> HIDE DEF requires
    <2> QED  BY <2>1
  <1>3. /\ e \in deprecated <=>
             \E d \in {x \in FindDeprecations(b) : x.kind \in {"Operation", "Schema"}} :
               e = <<"deprecated", d>>
        /\ e \in removedOps <=>
             \E id \in DOMAIN a.ops \ DOMAIN b.ops : e = <<"operation removed", id>>
        /\ e \in removedSchemas <=>
             \E s \in DOMAIN a.schemas \ DOMAIN b.schemas : e = <<"schema removed", s>>
        /\ e \in newOps <=>
             \E id \in DOMAIN b.ops \ DOMAIN a.ops : e = <<"new operation", id>>
        /\ e \in newSchemas <=>
             \E s \in DOMAIN b.schemas \ DOMAIN a.schemas : e = <<"new schema", s>>
    OBVIOUS
  <1> HIDE DEF deprecated, removedOps, removedSchemas, needs, newOps, newSchemas
  <1>4. e \in GenerateMigrationGuide(a, b) <=>
          \/ e \in deprecated \/ e \in removedOps \/ e \in removedSchemas
          \/ e \in needs \/ e \in GuideSchemaChanges(a, b) \/ e \in newOps \/ e \in newSchemas
    BY <1>1
  <1> QED  BY <1>2, <1>3, <1>4, Zenon DEF IsGuideEntry

LEMMA RemovedOrAdded ==
    ASSUME NEW op, NEW np, NEW p \in DOMAIN op \cup DOMAIN np
    PROVE  /\ p \in DOMAIN op \ DOMAIN np => PropertyChange(op, np, p) = "Removed"
           /\ (p \in DOMAIN np \ DOMAIN op /\ np[p].required) =>
                PropertyChange(op, np, p) = "AddedRequired"
           /\ PropertyChange(op, np, p) = "Removed" => p \in DOMAIN op \ DOMAIN np
           /\ PropertyChange(op, np, p) = "AddedRequired" =>
                p \in DOMAIN np \ DOMAIN op /\ np[p].required
           /\ PropertyChange(op, np, p) = "TypeChanged" =>
                p \in DOMAIN op \cap DOMAIN np /\ TypeChanged(op[p].ty, np[p].ty)
           /\ PropertyChange(op, np, p) \in
                {"AddedRequired", "Added", "Removed", "TypeChanged", "NowRequired",
                 "NowOptional", "Same"}
  BY DEF PropertyChange

(* A type is not a change of itself. *)
LEMMA ChangedDiffer ==
    ASSUME NEW x, NEW y, TypeChanged(x, y)
    PROVE  x # y
  BY DEF TypeChanged

(* A change of a property of a breaking kind is a finding at that property. *)
LEMMA ChangeIsBreak ==
    ASSUME NEW a, NEW b, NEW n \in DOMAIN a.schemas \cap DOMAIN b.schemas,
           a.schemas[n].model = "Object", b.schemas[n].model = "Object",
           NEW p \in DOMAIN a.schemas[n].props \cup DOMAIN b.schemas[n].props,
           NEW w \in {"Removed", "AddedRequired"},
           PropertyChange(a.schemas[n].props, b.schemas[n].props, p) = w
    PROVE  Finding("Breaking", w, <<"schema", n, p>>) \in DiffDetailed(a, b)
  <1>1. <<n, p, w>> \in SchemaChanges(a, b)
    BY SchemaChangesFacts
  <1>2. LET c == <<n, p, w>>
        IN Finding(ChangeSeverity(c[3]), c[3], <<"schema", c[1], c[2]>>) \in DiffSchemas(a, b)
    BY <1>1, DiffSchemasFacts
  <1>3. ChangeSeverity(w) = "Breaking"
    BY DEF ChangeSeverity
  <1> QED  BY <1>2, <1>3 DEF DiffDetailed

LEMMA ListedIsFound ==
    ASSUME NEW a, NEW b, NEW e \in GenerateMigrationGuide(a, b), NEW f \in AsFinding(e)
    PROVE  f \in DiffDetailed(a, b) /\ f.what \in Shown
  <1> USE DEF Shown
  <1>1. CASE \E d : e = <<"deprecated", d>>
    BY <1>1, EntryFindings
  <1>2. CASE \E x \in DOMAIN a.ops \ DOMAIN b.ops : e = <<"operation removed", x>>
    <2>1. PICK x \in DOMAIN a.ops \ DOMAIN b.ops : e = <<"operation removed", x>>
      BY <1>2
    <2>2. Finding("Breaking", "operation removed", <<"op", x>>) \in DiffDetailed(a, b)
      BY DEF DiffDetailed, DiffOperations
    <2>3. f = Finding("Breaking", "operation removed", <<"op", x>>)
      BY <2>1, EntryFindings
    <2>4. f.what = "operation removed"
      BY <2>3 DEF Finding
    <2> QED  BY <2>2, <2>3, <2>4
  <1>3. CASE \E x \in DOMAIN a.schemas \ DOMAIN b.schemas : e = <<"schema removed", x>>
    <2>1. PICK x \in DOMAIN a.schemas \ DOMAIN b.schemas : e = <<"schema removed", x>>
      BY <1>3
    <2>2. Finding("Breaking", "schema removed", <<"schema", x>>) \in DiffDetailed(a, b)
      BY DEF DiffDetailed, DiffSchemas
    <2>3. f = Finding("Breaking", "schema removed", <<"schema", x>>)
      BY <2>1, EntryFindings
    <2>4. f.what = "schema removed"
      BY <2>3 DEF Finding
    <2> QED  BY <2>2, <2>3, <2>4
  <1>4. CASE \E x \in DOMAIN b.ops \ DOMAIN a.ops : e = <<"new operation", x>>
    <2>1. PICK x \in DOMAIN b.ops \ DOMAIN a.ops : e = <<"new operation", x>>
      BY <1>4
    <2>2. Finding("Info", "operation added", <<"op", x>>) \in DiffDetailed(a, b)
      BY DEF DiffDetailed, DiffOperations
    <2>3. f = Finding("Info", "operation added", <<"op", x>>)
      BY <2>1, EntryFindings
    <2>4. f.what = "operation added"
      BY <2>3 DEF Finding
    <2> QED  BY <2>2, <2>3, <2>4
  <1>5. CASE \E x \in DOMAIN b.schemas \ DOMAIN a.schemas : e = <<"new schema", x>>
    <2>1. PICK x \in DOMAIN b.schemas \ DOMAIN a.schemas : e = <<"new schema", x>>
      BY <1>5
    <2>2. Finding("Info", "schema added", <<"schema", x>>) \in DiffDetailed(a, b)
      BY DEF DiffDetailed, DiffSchemas
    <2>3. f = Finding("Info", "schema added", <<"schema", x>>)
      BY <2>1, EntryFindings
    <2>4. f.what = "schema added"
      BY <2>3 DEF Finding
    <2> QED  BY <2>2, <2>3, <2>4
  <1>6. CASE \E id \in DOMAIN a.ops \cap DOMAIN b.ops :
               \E p \in DOMAIN b.ops[id].params \ DOMAIN a.ops[id].params :
                 b.ops[id].params[p] /\ e = <<"now requires", id, p>>
    <2>0. PICK id \in DOMAIN a.ops \cap DOMAIN b.ops :
            \E p \in DOMAIN b.ops[id].params \ DOMAIN a.ops[id].params :
              b.ops[id].params[p] /\ e = <<"now requires", id, p>>
      BY <1>6
    <2>1. PICK p \in DOMAIN b.ops[id].params \ DOMAIN a.ops[id].params :
            b.ops[id].params[p] /\ e = <<"now requires", id, p>>
      BY <2>0
    <2>2. Finding("Breaking", "new required parameter", <<"op", id, p>>)
            \in DiffOperation(id, a.ops[id], b.ops[id])
      BY <2>1 DEF DiffOperation
    <2>3. Finding("Breaking", "new required parameter", <<"op", id, p>>) \in DiffDetailed(a, b)
      BY <2>2 DEF DiffDetailed, DiffOperations
    <2>4. f = Finding("Breaking", "new required parameter", <<"op", id, p>>)
      <3>1. AsFinding(<<"now requires", id, p>>) = {Finding("Breaking", "new required parameter", <<"op", id, p>>)}
        BY EntryFindings
      <3> QED  BY <2>1, <3>1
    <2>5. f.what = "new required parameter"
      BY <2>4 DEF Finding
    <2> QED  BY <2>3, <2>4, <2>5
  <1>7. CASE e \in GuideSchemaChanges(a, b)
    <2>0. IsSchemaEntry(a, b, e)
      BY <1>7, GuideSchemaFacts
    <2>1. PICK n \in DOMAIN a.schemas \cap DOMAIN b.schemas :
            /\ a.schemas[n].model = "Object" /\ b.schemas[n].model = "Object"
            /\ LET op == a.schemas[n].props
                   np == b.schemas[n].props
               IN \/ \E p \in DOMAIN op \ DOMAIN np : e = <<"property removed", n, p>>
                  \/ \E p \in DOMAIN op \cap DOMAIN np :
                       op[p].ty # np[p].ty /\ e = <<"type changed", n, p>>
                  \/ \E p \in DOMAIN np \ DOMAIN op :
                       np[p].required /\ e = <<"added as required", n, p>>
      BY <2>0, Zenon DEF IsSchemaEntry
    <2> DEFINE op == a.schemas[n].props
               np == b.schemas[n].props
    <2>2. CASE \E p \in DOMAIN op \ DOMAIN np : e = <<"property removed", n, p>>
      <3>1. PICK p \in DOMAIN op \ DOMAIN np : e = <<"property removed", n, p>>
        BY <2>2
      <3>2. PropertyChange(op, np, p) = "Removed"
        <4> HIDE DEF op, np
        <4> QED  BY RemovedOrAdded
      <3>3. Finding("Breaking", "Removed", <<"schema", n, p>>) \in DiffDetailed(a, b)
        BY <2>1, <3>2, ChangeIsBreak
      <3>4. f = Finding("Breaking", "Removed", <<"schema", n, p>>)
        <4>1. AsFinding(<<"property removed", n, p>>) = {Finding("Breaking", "Removed", <<"schema", n, p>>)}
          BY EntryFindings
        <4> QED  BY <3>1, <4>1
      <3>5. f.what = "Removed"
        BY <3>4 DEF Finding
      <3> QED  BY <3>3, <3>4, <3>5
    <2>3. CASE \E p \in DOMAIN op \cap DOMAIN np : e = <<"type changed", n, p>>
      BY <2>3, EntryFindings
    <2>4. CASE \E p \in DOMAIN np \ DOMAIN op :
                 np[p].required /\ e = <<"added as required", n, p>>
      <3>1. PICK p \in DOMAIN np \ DOMAIN op :
              np[p].required /\ e = <<"added as required", n, p>>
        BY <2>4
      <3>2. PropertyChange(op, np, p) = "AddedRequired"
        <4> HIDE DEF op, np
        <4> QED  BY <3>1, RemovedOrAdded
      <3>3. Finding("Breaking", "AddedRequired", <<"schema", n, p>>) \in DiffDetailed(a, b)
        BY <2>1, <3>2, ChangeIsBreak
      <3>4. f = Finding("Breaking", "AddedRequired", <<"schema", n, p>>)
        <4>1. AsFinding(<<"added as required", n, p>>) = {Finding("Breaking", "AddedRequired", <<"schema", n, p>>)}
          BY EntryFindings
        <4> QED  BY <3>1, <4>1
      <3>5. f.what = "AddedRequired"
        BY <3>4 DEF Finding
      <3> QED  BY <3>3, <3>4, <3>5
    <2> QED  BY <2>1, <2>2, <2>3, <2>4, Zenon
  <1>8. IsGuideEntry(a, b, e)
    BY GuideFacts
  <1>9. CASE \E d \in {x \in FindDeprecations(b) : x.kind \in {"Operation", "Schema"}} :
               e = <<"deprecated", d>>
    BY <1>1, <1>9, Zenon
  <1> QED  BY <1>2, <1>3, <1>4, <1>5, <1>6, <1>7, <1>8, <1>9, Zenon DEF IsGuideEntry

(* The findings of a schema that both documents have as an object. *)
LEMMA ChangeIsListed ==
    ASSUME NEW a, NEW b, NEW c \in SchemaChanges(a, b),
           NEW f, f = Finding(ChangeSeverity(c[3]), c[3], <<"schema", c[1], c[2]>>)
    PROVE  /\ f.what \in Shown => \E e \in GenerateMigrationGuide(a, b) : f \in AsFinding(e)
           /\ f.what = "TypeChanged" =>
                \E e \in GenerateMigrationGuide(a, b) :
                  e[1] = "type changed" /\ f.at = <<"schema", e[2], e[3]>>
  <1>1. f.what = c[3] /\ f.at = <<"schema", c[1], c[2]>>
    BY DEF Finding
  <1>2. PICK n \in DOMAIN a.schemas \cap DOMAIN b.schemas :
          /\ a.schemas[n].model = "Object" /\ b.schemas[n].model = "Object"
          /\ \E p \in DOMAIN a.schemas[n].props \cup DOMAIN b.schemas[n].props :
               c = <<n, p, PropertyChange(a.schemas[n].props, b.schemas[n].props, p)>>
    BY SchemaChangesFacts
  <1> DEFINE op == a.schemas[n].props
             np == b.schemas[n].props
  <1>3. PICK p \in DOMAIN op \cup DOMAIN np : c = <<n, p, PropertyChange(op, np, p)>>
    BY <1>2
  <1>4. f.what = PropertyChange(op, np, p) /\ f.at = <<"schema", n, p>>
    BY <1>1, <1>3
  <1>5. /\ PropertyChange(op, np, p) = "Removed" => p \in DOMAIN op \ DOMAIN np
        /\ PropertyChange(op, np, p) = "AddedRequired" =>
             p \in DOMAIN np \ DOMAIN op /\ np[p].required
        /\ PropertyChange(op, np, p) = "TypeChanged" =>
             p \in DOMAIN op \cap DOMAIN np /\ op[p].ty # np[p].ty
        /\ PropertyChange(op, np, p) \in Shown =>
             PropertyChange(op, np, p) \in {"Removed", "AddedRequired"}
    <2> HIDE DEF op, np
    <2>1. TypeChanged(op[p].ty, np[p].ty) => op[p].ty # np[p].ty
      BY ChangedDiffer
    <2> QED  BY <2>1, RemovedOrAdded DEF Shown
  <1>6. ASSUME NEW e, IsSchemaEntry(a, b, e) PROVE e \in GenerateMigrationGuide(a, b)
    BY <1>6, GuideSchemaFacts, GuideFacts DEF IsGuideEntry
  <1>7. CASE f.what = "Removed"
    <2>1. IsSchemaEntry(a, b, <<"property removed", n, p>>)
      BY <1>2, <1>4, <1>5, <1>7 DEF IsSchemaEntry
    <2>2. AsFinding(<<"property removed", n, p>>) =
            {Finding("Breaking", "Removed", <<"schema", n, p>>)}
      BY EntryFindings
    <2>3. ChangeSeverity(c[3]) = "Breaking" /\ c[3] = "Removed"
      BY <1>1, <1>7 DEF ChangeSeverity
    <2>4. f = Finding("Breaking", "Removed", <<"schema", n, p>>)
      BY <1>3, <2>3
    <2> QED  BY <1>6, <1>7, <2>1, <2>2, <2>4
  <1>8. CASE f.what = "AddedRequired"
    <2>1. IsSchemaEntry(a, b, <<"added as required", n, p>>)
      BY <1>2, <1>4, <1>5, <1>8 DEF IsSchemaEntry
    <2>2. AsFinding(<<"added as required", n, p>>) =
            {Finding("Breaking", "AddedRequired", <<"schema", n, p>>)}
      BY EntryFindings
    <2>3. ChangeSeverity(c[3]) = "Breaking" /\ c[3] = "AddedRequired"
      BY <1>1, <1>8 DEF ChangeSeverity
    <2>4. f = Finding("Breaking", "AddedRequired", <<"schema", n, p>>)
      BY <1>3, <2>3
    <2> QED  BY <1>6, <1>8, <2>1, <2>2, <2>4
  <1>9. CASE f.what = "TypeChanged"
    <2>1. IsSchemaEntry(a, b, <<"type changed", n, p>>)
      BY <1>2, <1>4, <1>5, <1>9 DEF IsSchemaEntry
    <2>2. <<"type changed", n, p>> \in GenerateMigrationGuide(a, b)
      BY <1>6, <2>1
    <2>3. f.what \notin Shown
      BY <1>9 DEF Shown
    <2> QED  BY <1>4, <2>2, <2>3
  <1> HIDE DEF op, np
  <1> QED  BY <1>4, <1>5, <1>7, <1>8, <1>9

LEMMA FoundIsListed ==
    ASSUME NEW a, NEW b, NEW f \in DiffDetailed(a, b)
    PROVE  /\ f.what \in Shown => \E e \in GenerateMigrationGuide(a, b) : f \in AsFinding(e)
           /\ f.what = "TypeChanged" =>
                \E e \in GenerateMigrationGuide(a, b) :
                  e[1] = "type changed" /\ f.at = <<"schema", e[2], e[3]>>
  <1>1. CASE f \in DiffIrVersion(a, b)
    <2>1. PICK s : f = Finding(s, "IR version changed", <<"ir">>)
      BY <1>1 DEF DiffIrVersion
    <2>2. f.what = "IR version changed"
      BY <2>1 DEF Finding
    <2> QED  BY <2>2 DEF Shown
  <1>2. CASE f \in DiffOperations(a, b)
    <2>1. CASE \E x \in DOMAIN a.ops \ DOMAIN b.ops :
                 f = Finding("Breaking", "operation removed", <<"op", x>>)
      <3>1. PICK x \in DOMAIN a.ops \ DOMAIN b.ops :
              f = Finding("Breaking", "operation removed", <<"op", x>>)
        BY <2>1
      <3>2. <<"operation removed", x>> \in GenerateMigrationGuide(a, b)
        BY GuideFacts DEF IsGuideEntry
      <3>3. f.what = "operation removed"
        BY <3>1 DEF Finding
      <3>4. f \in AsFinding(<<"operation removed", x>>)
        BY <3>1, EntryFindings
      <3> QED  BY <3>2, <3>3, <3>4
    <2>2. CASE \E x \in DOMAIN b.ops \ DOMAIN a.ops :
                 f = Finding("Info", "operation added", <<"op", x>>)
      <3>1. PICK x \in DOMAIN b.ops \ DOMAIN a.ops :
              f = Finding("Info", "operation added", <<"op", x>>)
        BY <2>2
      <3>2. <<"new operation", x>> \in GenerateMigrationGuide(a, b)
        BY GuideFacts DEF IsGuideEntry
      <3>3. f.what = "operation added"
        BY <3>1 DEF Finding
      <3>4. f \in AsFinding(<<"new operation", x>>)
        BY <3>1, EntryFindings
      <3> QED  BY <3>2, <3>3, <3>4
    <2>3. CASE \E id \in DOMAIN a.ops \cap DOMAIN b.ops :
                 f \in DiffOperation(id, a.ops[id], b.ops[id])
      <3>1. PICK id \in DOMAIN a.ops \cap DOMAIN b.ops :
              f \in DiffOperation(id, a.ops[id], b.ops[id])
        BY <2>3
      <3>2. \/ \E p \in DOMAIN b.ops[id].params \ DOMAIN a.ops[id].params :
                 /\ b.ops[id].params[p]
                 /\ f = Finding("Breaking", "new required parameter", <<"op", id, p>>)
            \/ \E p : f = Finding("Breaking", "parameter removed", <<"op", id, p>>)
            \/ f = Finding("Breaking", "new required request body", <<"op", id>>)
            \/ \E r : f = Finding("Breaking", "response removed", <<"op", id, r>>)
        BY <3>1 DEF DiffOperation
      <3>3. CASE \E p \in DOMAIN b.ops[id].params \ DOMAIN a.ops[id].params :
                   /\ b.ops[id].params[p]
                   /\ f = Finding("Breaking", "new required parameter", <<"op", id, p>>)
        <4>1. PICK p \in DOMAIN b.ops[id].params \ DOMAIN a.ops[id].params :
                /\ b.ops[id].params[p]
                /\ f = Finding("Breaking", "new required parameter", <<"op", id, p>>)
          BY <3>3
        <4>2. <<"now requires", id, p>> \in GenerateMigrationGuide(a, b)
          BY <4>1, GuideFacts DEF IsGuideEntry
        <4>3. AsFinding(<<"now requires", id, p>>) =
                {Finding("Breaking", "new required parameter", <<"op", id, p>>)}
          BY EntryFindings
        <4>4. f.what = "new required parameter"
          BY <4>1 DEF Finding
        <4> QED  BY <4>1, <4>2, <4>3, <4>4
      <3>4. ASSUME NEW w \in {"parameter removed", "new required request body",
                               "response removed"},
                   NEW at, f = Finding("Breaking", w, at)
            PROVE  f.what \notin Shown \cup {"TypeChanged"}
        <4>1. f.what = w
          BY <3>4 DEF Finding
        <4> QED  BY <4>1 DEF Shown
      <3> QED  BY <3>2, <3>3, <3>4
    <2> QED  BY <1>2, <2>1, <2>2, <2>3, OperationsFindings, Zenon
  <1>3. CASE f \in DiffSchemas(a, b)
    <2>1. CASE \E x \in DOMAIN a.schemas \ DOMAIN b.schemas :
                 f = Finding("Breaking", "schema removed", <<"schema", x>>)
      <3>1. PICK x \in DOMAIN a.schemas \ DOMAIN b.schemas :
              f = Finding("Breaking", "schema removed", <<"schema", x>>)
        BY <2>1
      <3>2. <<"schema removed", x>> \in GenerateMigrationGuide(a, b)
        BY GuideFacts DEF IsGuideEntry
      <3>3. f.what = "schema removed"
        BY <3>1 DEF Finding
      <3>4. f \in AsFinding(<<"schema removed", x>>)
        BY <3>1, EntryFindings
      <3> QED  BY <3>2, <3>3, <3>4
    <2>2. CASE \E x \in DOMAIN b.schemas \ DOMAIN a.schemas :
                 f = Finding("Info", "schema added", <<"schema", x>>)
      <3>1. PICK x \in DOMAIN b.schemas \ DOMAIN a.schemas :
              f = Finding("Info", "schema added", <<"schema", x>>)
        BY <2>2
      <3>2. <<"new schema", x>> \in GenerateMigrationGuide(a, b)
        BY GuideFacts DEF IsGuideEntry
      <3>3. f.what = "schema added"
        BY <3>1 DEF Finding
      <3>4. f \in AsFinding(<<"new schema", x>>)
        BY <3>1, EntryFindings
      <3> QED  BY <3>2, <3>3, <3>4
    <2>3. CASE \E c \in SchemaChanges(a, b) :
                 f = Finding(ChangeSeverity(c[3]), c[3], <<"schema", c[1], c[2]>>)
      BY <2>3, ChangeIsListed
    <2>4. \/ \E s \in DOMAIN a.schemas \ DOMAIN b.schemas :
               f = Finding("Breaking", "schema removed", <<"schema", s>>)
          \/ \E s \in DOMAIN b.schemas \ DOMAIN a.schemas :
               f = Finding("Info", "schema added", <<"schema", s>>)
          \/ \E c \in SchemaChanges(a, b) :
               f = Finding(ChangeSeverity(c[3]), c[3], <<"schema", c[1], c[2]>>)
      BY <1>3 DEF DiffSchemas
    <2> QED  BY <2>1, <2>2, <2>3, <2>4, Zenon
  <1> QED  BY <1>1, <1>2, <1>3 DEF DiffDetailed

LEMMA GuideInReport == CompareInv => GuideIsBacked
  <1> SUFFICES ASSUME CompareInv, report # NoReport, report.tool = "guide"
               PROVE  GuideIsBacked
    BY DEF GuideIsBacked
  <1>1. report = Guide
    BY ToolNames DEF CompareInv, Reported
  <1>2. report.result = GenerateMigrationGuide(Oldest, Newest)
    BY <1>1 DEF Guide
  <1> DEFINE found == DiffDetailed(Oldest, Newest)
             listed == UNION {AsFinding(e) : e \in report.result}
  <1>3. listed \subseteq {f \in found : f.what \in Shown}
    BY <1>2, ListedIsFound
  <1>4. ASSUME NEW f \in found, f.what \in Shown PROVE f \in listed
    <2>1. PICK e \in GenerateMigrationGuide(Oldest, Newest) : f \in AsFinding(e)
      BY <1>4, FoundIsListed
    <2> QED  BY <1>2, <2>1
  <1>5. \A f \in found : f.what = "TypeChanged" =>
          \E e \in report.result : e[1] = "type changed" /\ f.at = <<"schema", e[2], e[3]>>
    BY <1>2, FoundIsListed
  <1> QED  BY <1>3, <1>4, <1>5 DEF GuideIsBacked

-----------------------------------------------------------------------------
(* track_evolution counts a breaking change at some commit whenever the last
   document breaks a schema of the first, for any history of any documents:
   keeping every schema is transitive, so a break between the ends is a break
   between two neighbours. *)
THEOREM BreaksAreSeen == Spec => []SchemaBreaksAreSeen
  BY CompareStart, CompareStep, BreaksSeenInReport, PTL DEF Spec

(* For any two documents: when diff finds changes and calls all of them
   harmless, the diff in the other direction reports a breaking change. *)
THEOREM RollbacksBreak == Spec => []RollbackBreaks
  BY CompareStart, CompareStep, RollbackInReport, PTL DEF Spec

(* For any two documents the version bump of the changelog matches its entries;
   and the entries of the migration guide for what was removed, is newly required
   or is new are one for one the findings of the diff of these kinds, breaking
   where those break, while its changes of type are at least those of the diff. *)
THEOREM ReportsBacked == Spec => []ReportsAreBacked
  <1>1. CompareInv => ReportsAreBacked
    BY BumpInReport, GuideInReport DEF ReportsAreBacked
  <1> QED  BY <1>1, CompareStart, CompareStep, PTL DEF Spec
=============================================================================
