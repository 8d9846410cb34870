----------------------------- MODULE EmitProofs -----------------------------
(***************************************************************************)
(* Proofs about the emitters: the files of an SDK for any operations and   *)
(* tags, the arm a reader of a union picks, and the request of a call.     *)
(***************************************************************************)
EXTENDS MCEmit, TLAPS

-----------------------------------------------------------------------------
(* The files of an SDK.  A file whose path no other file has is empty while it
   is open and whole once it is reported, unless its write failed; nothing
   else is ever at a path but torn content and that of a file of that path. *)
Collected ==
  {GroupFile(g) : g \in Groups}
    \cup (CASE target = "rust" -> BarrelOf({PathOf(g) : g \in Groups})
            [] target = "go" -> {}
            [] target = "ts" -> BarrelOf(TsListed))

FilesTypes ==
  /\ target \in {"rust", "go", "ts"} /\ tagOf \in [Ops -> Tags]
  /\ files \in {{}, Collected}
  /\ opened \subseteq files /\ report \subseteq files /\ opened \cap report = {}

Alone(f) == \A h \in files : h.path = f.path => h = f

DiskInv ==
  \A p \in DOMAIN disk :
    disk[p] = {} \/ disk[p] = Torn \/ \E f \in files : f.path = p /\ disk[p] = f.content

OpenedInv ==
  \A f \in opened : f.path \in DOMAIN disk /\ (Alone(f) => disk[f.path] = {})

ReportedInv ==
  \A f \in report :
    (Alone(f) /\ f.path \notin failed) => (f.path \in DOMAIN disk /\ disk[f.path] = f.content)

FilesInv ==
  part = "files" => (FilesTypes /\ DiskInv /\ OpenedInv /\ ReportedInv)


LEMMA FilesStart == MCInit => FilesInv
  <1> SUFFICES ASSUME MCInit, part = "files" PROVE FilesInv
    BY DEF FilesInv
  <1>1. /\ target \in {"rust", "go", "ts"} /\ tagOf \in [Ops -> Tags]
        /\ files = {} /\ opened = {} /\ disk = <<>> /\ report = {} /\ failed = {}
    BY DEF MCInit, FilesInit
  <1>2. DOMAIN disk = {}
    BY <1>1
  <1> QED  BY <1>1, <1>2 DEF FilesInv, FilesTypes, DiskInv, OpenedInv, ReportedInv

LEMMA SameGroups ==
    ASSUME UNCHANGED <<target, tagOf>>
    PROVE  Collected' = Collected
  BY DEF Collected, GroupFile, Groups, TagOf, BarrelOf, PathOf, Stem, TsListed, Default, Barrel

LEMMA FilesKept ==
    ASSUME FilesInv, UNCHANGED <<part, fileVars>>
    PROVE  FilesInv'
  <1>1. UNCHANGED <<part, target, tagOf, files, opened, disk, report, failed>>
    BY DEF fileVars
  <1>2. Collected' = Collected
    BY <1>1, SameGroups
  <1>3. FilesTypes' <=> FilesTypes
    BY <1>1, <1>2 DEF FilesTypes
  <1>4. (DiskInv' <=> DiskInv) /\ (OpenedInv' <=> OpenedInv) /\ (ReportedInv' <=> ReportedInv)
    BY <1>1 DEF DiskInv, OpenedInv, ReportedInv, Alone, Torn
  <1> QED  BY <1>1, <1>3, <1>4 DEF FilesInv

LEMMA CollectKeeps ==
    ASSUME FilesInv, part = "files", part' = part, RustCollect \/ GoCollect \/ TsCollect
    PROVE  FilesInv'
  <1>1. /\ files = {} /\ UNCHANGED <<target, tagOf, opened, disk, report, failed>>
        /\ files' = Collected
    <2>1. CASE RustCollect
      BY <2>1 DEF RustCollect, CollectWith, Collected
    <2>2. CASE GoCollect
      BY <2>2 DEF GoCollect, CollectWith, Collected
    <2>3. CASE TsCollect
      BY <2>3 DEF TsCollect, CollectWith, Collected
    <2> QED  BY <2>1, <2>2, <2>3
  <1>2. Collected' = Collected
    BY <1>1, SameGroups
  <1>3. opened = {} /\ report = {}
    BY <1>1 DEF FilesInv, FilesTypes
  <1>4. FilesTypes'
    BY <1>1, <1>2, <1>3 DEF FilesInv, FilesTypes
  <1>5. DiskInv'
    BY <1>1 DEF FilesInv, DiskInv, Torn
  <1> QED  BY <1>1, <1>3, <1>4, <1>5 DEF FilesInv, OpenedInv, ReportedInv

LEMMA OpenKeeps ==
    ASSUME FilesInv, part = "files", part' = part, NEW f \in files, OpenFile(f)
    PROVE  FilesInv'
  <1>1. /\ f \in files \ (opened \cup report) /\ opened' = opened \cup {f}
        /\ disk' = [p \in DOMAIN disk \cup {f.path} |-> IF p = f.path THEN {} ELSE disk[p]]
        /\ UNCHANGED <<target, tagOf, files, report, failed>>
    BY DEF OpenFile
  <1>2. FilesTypes /\ DiskInv /\ OpenedInv /\ ReportedInv
    BY DEF FilesInv
  <1>3. FilesTypes'
    BY <1>1, <1>2, SameGroups DEF FilesTypes
  <1>4. /\ DOMAIN disk' = DOMAIN disk \cup {f.path} /\ disk'[f.path] = {}
        /\ \A p \in DOMAIN disk : p # f.path => disk'[p] = disk[p]
    BY <1>1
  <1>5. DiskInv'
    BY <1>1, <1>2, <1>4 DEF DiskInv, Torn
  <1>6. \A h : Alone(h)' <=> Alone(h)
    BY <1>1 DEF Alone
  <1>7. OpenedInv'
    BY <1>1, <1>2, <1>4, <1>6 DEF OpenedInv
  <1>8. ReportedInv'
    <2> SUFFICES ASSUME NEW h \in report, Alone(h), h.path \notin failed
                 PROVE  h.path \in DOMAIN disk' /\ disk'[h.path] = h.content
      BY <1>1, <1>6 DEF ReportedInv
    <2>1. h.path \in DOMAIN disk /\ disk[h.path] = h.content
      BY <1>2 DEF ReportedInv
    <2>2. h.path # f.path
      BY <1>1 DEF Alone
    <2> QED  BY <1>4, <2>1, <2>2
  <1> QED  BY <1>3, <1>5, <1>7, <1>8 DEF FilesInv

LEMMA FillKeeps ==
    ASSUME FilesInv, part = "files", part' = part, NEW f \in files, FillFile(f)
    PROVE  FilesInv'
  <1>1. /\ f \in opened /\ opened' = opened \ {f} /\ report' = report \cup {f}
        /\ UNCHANGED <<target, tagOf, files, failed>>
    BY DEF FillFile
  <1>2. PICK c \in {f.content} \cup (IF disk[f.path] = {} THEN {} ELSE {Torn}) :
          disk' = [disk EXCEPT ![f.path] = c]
    BY DEF FillFile
  <1>3. FilesTypes /\ DiskInv /\ OpenedInv /\ ReportedInv
    BY DEF FilesInv
  <1>4. FilesTypes'
    BY <1>1, <1>3, SameGroups DEF FilesTypes
  <1>5. f.path \in DOMAIN disk /\ (Alone(f) => c = f.content)
    BY <1>1, <1>2, <1>3 DEF OpenedInv
  <1>6. /\ DOMAIN disk' = DOMAIN disk /\ disk'[f.path] = c
        /\ \A p \in DOMAIN disk : p # f.path => disk'[p] = disk[p]
    BY <1>2, <1>5
  <1>7. c = f.content \/ c = Torn
    BY <1>2
  <1>8. DiskInv'
    BY <1>1, <1>3, <1>6, <1>7 DEF DiskInv, Torn
  <1>9. \A h : Alone(h)' <=> Alone(h)
    BY <1>1 DEF Alone
  <1>10. OpenedInv'
    BY <1>1, <1>3, <1>6, <1>9 DEF OpenedInv, Alone, FilesTypes
  <1>11. ReportedInv'
    <2> SUFFICES ASSUME NEW h \in report \cup {f}, Alone(h), h.path \notin failed
                 PROVE  h.path \in DOMAIN disk' /\ disk'[h.path] = h.content
      BY <1>1, <1>9 DEF ReportedInv
    <2>1. CASE h = f
      BY <1>5, <1>6, <2>1
    <2>2. CASE h # f
      <3>1. h.path \in DOMAIN disk /\ disk[h.path] = h.content
        BY <1>3, <2>2 DEF ReportedInv
      <3>2. h.path # f.path
        BY <2>2 DEF Alone
      <3> QED  BY <1>6, <3>1, <3>2
    <2> QED  BY <2>1, <2>2
  <1> QED  BY <1>4, <1>8, <1>10, <1>11 DEF FilesInv

LEMMA FailKeeps ==
    ASSUME FilesInv, part = "files", part' = part, NEW f \in files, WriteFails(f)
    PROVE  FilesInv'
  <1>1. /\ f \in files \ report /\ opened' = opened \ {f} /\ report' = report \cup {f}
        /\ failed' = failed \cup {f.path} /\ UNCHANGED <<target, tagOf, files, disk>>
    BY DEF WriteFails
  <1>2. FilesTypes /\ DiskInv /\ OpenedInv /\ ReportedInv
    BY DEF FilesInv
  <1>3. FilesTypes'
    BY <1>1, <1>2, SameGroups DEF FilesTypes
  <1>4. \A h : Alone(h)' <=> Alone(h)
    BY <1>1 DEF Alone
  <1>5. DiskInv' /\ OpenedInv'
    BY <1>1, <1>2, <1>4 DEF DiskInv, OpenedInv, Torn
  <1>6. ReportedInv'
    BY <1>1, <1>2, <1>4 DEF ReportedInv
  <1> QED  BY <1>3, <1>5, <1>6 DEF FilesInv

LEMMA FilesStep == FilesInv /\ [MCNext]_allVars => FilesInv'
  <1> SUFFICES ASSUME FilesInv, [MCNext]_allVars PROVE FilesInv'
    OBVIOUS
  <1>1. CASE UNCHANGED allVars
    BY <1>1, FilesKept DEF allVars
  <1>2. CASE MCNext /\ part # "files"
    BY <1>2 DEF MCNext, FilesInv
  <1>3. CASE MCNext /\ part = "files"
    <2>1. part' = part /\ FileStep
      BY <1>3 DEF MCNext
    <2> QED  BY <1>3, <2>1, CollectKeeps, OpenKeeps, FillKeeps, FailKeeps DEF FileStep
  <1> QED  BY <1>1, <1>2, <1>3


LEMMA CollectedFiles ==
    ASSUME NEW f \in Collected, target \in {"rust", "go", "ts"}
    PROVE  \/ \E g \in Groups : f = GroupFile(g)
           \/ /\ target # "go" /\ f.path = Barrel
              /\ f.content \subseteq {PathOf(g) : g \in Groups}
  <1>1. CASE \E g \in Groups : f = GroupFile(g)
    BY <1>1
  <1>2. CASE target = "rust" /\ f \in BarrelOf({PathOf(g) : g \in Groups})
    BY <1>2 DEF BarrelOf
  <1>3. CASE target = "ts" /\ f \in BarrelOf(TsListed)
    <2>1. TsListed \subseteq {PathOf(g) : g \in Groups}
      <3> SUFFICES ASSUME NEW o \in Ops, tagOf[o] # <<>>
                   PROVE  PathOf(tagOf[o]) \in {PathOf(g) : g \in Groups}
        BY DEF TsListed
      <3>1. tagOf[o] \in Groups
        BY DEF Groups, TagOf
      <3> QED  BY <3>1
    <2> QED  BY <1>3, <2>1 DEF BarrelOf
  <1> QED  BY <1>1, <1>2, <1>3 DEF Collected

LEMMA GroupParts ==
    ASSUME NEW g
    PROVE  /\ GroupFile(g).path = PathOf(g) /\ PathOf(g) # Barrel
           /\ GroupFile(g).content = {o \in Ops : TagOf(o) = g}
  <1>1. PathOf(g) # Barrel
    BY DEF PathOf, Barrel
  <1> QED  BY <1>1 DEF GroupFile

LEMMA GeneratedIsComplete ==
    ASSUME FilesInv, part = "files"
    PROVE  FilesComplete
  <1> SUFFICES ASSUME Generated PROVE FilesComplete
    BY DEF FilesComplete
  <1>1. /\ FilesTypes /\ DiskInv /\ ReportedInv
        /\ files = Collected /\ report = files
    BY DEF FilesInv, FilesTypes, Generated
  <1>2. \A f \in files :
          \/ \E g \in Groups : f = GroupFile(g)
          \/ /\ target # "go" /\ f.path = Barrel
             /\ f.content \subseteq {PathOf(g) : g \in Groups}
    BY <1>1, CollectedFiles DEF FilesTypes
  <1>3. \A g \in Groups : GroupFile(g) \in files
    BY <1>1 DEF Collected
  <1>4. ASSUME NEW o \in Ops, PathOf(TagOf(o)) \notin failed,
               ~\E h \in Groups : Clash(TagOf(o), h)
        PROVE  {p \in DOMAIN disk \ {Barrel} : o \in disk[p]} = {PathOf(TagOf(o))}
    <2>1. TagOf(o) \in Groups
      BY DEF Groups
    <2>2. PICK f \in files : f = GroupFile(TagOf(o))
      BY <1>3, <2>1
    <2>3. f.path = PathOf(TagOf(o)) /\ f.path # Barrel /\ o \in f.content
      BY <2>2, GroupParts
    <2>4. Alone(f)
      <3> SUFFICES ASSUME NEW h \in files, h.path = f.path PROVE h = f
        BY DEF Alone
      <3>1. PICK g \in Groups : h = GroupFile(g)
        BY <1>2, <2>3
      <3>2. PathOf(g) = PathOf(TagOf(o))
        BY <2>3, <3>1, GroupParts
      <3>3. Stem(g) = Stem(TagOf(o))
        <4> HIDE DEF Stem
        <4> QED  BY <3>2 DEF PathOf
      <3>4. g = TagOf(o)
        BY <1>4, <3>3 DEF Clash
      <3> QED  BY <2>2, <3>1, <3>4
    <2>5. f.path \in DOMAIN disk /\ o \in disk[f.path]
      BY <1>1, <1>4, <2>3, <2>4 DEF ReportedInv
    <2>6. ASSUME NEW p \in DOMAIN disk, p # Barrel, o \in disk[p]
          PROVE  p = PathOf(TagOf(o))
      <3>1. PICK h \in files : h.path = p /\ disk[p] = h.content
        <4>1. disk[p] # {} /\ disk[p] # Torn
          BY <2>6, OpsAssumption DEF Torn
        <4> QED  BY <1>1, <4>1 DEF DiskInv
      <3>2. PICK g \in Groups : h = GroupFile(g)
        BY <1>2, <2>6, <3>1
      <3>3. TagOf(o) = g
        BY <2>6, <3>1, <3>2, GroupParts
      <3> QED  BY <3>1, <3>2, <3>3, GroupParts
    <2> QED  BY <2>3, <2>5, <2>6
  <1>5. ASSUME target # "go", Barrel \notin failed
        PROVE  disk[Barrel] \subseteq {f.path : f \in files}
    <2>1. PICK f \in files : f.path = Barrel /\ f.content \subseteq {PathOf(g) : g \in Groups}
      <3>1. \E x : [path |-> Barrel, content |-> x] \in files
        BY <1>1, <1>5 DEF FilesTypes, Collected, BarrelOf
      <3>2. PICK x : [path |-> Barrel, content |-> x] \in files
        BY <3>1
      <3>3. PICK f \in files : f = [path |-> Barrel, content |-> x]
        BY <3>2
      <3>4. f.path = Barrel
        BY <3>3
      <3> QED  BY <1>2, <3>4, GroupParts
    <2>2. Alone(f)
      <3>1. \A h \in files : h.path = Barrel => h \in files \ {GroupFile(g) : g \in Groups}
        BY GroupParts
      <3>2. \A h \in files : h.path = Barrel =>
              h \in (CASE target = "rust" -> BarrelOf({PathOf(g) : g \in Groups})
                       [] target = "go" -> {}
                       [] target = "ts" -> BarrelOf(TsListed))
        BY <1>1, <3>1 DEF Collected
      <3> QED  BY <1>1, <1>5, <2>1, <3>2 DEF Alone, BarrelOf, FilesTypes
    <2>3. disk[Barrel] = f.content
      BY <1>1, <1>5, <2>1, <2>2 DEF ReportedInv
    <2>4. {PathOf(g) : g \in Groups} \subseteq {h.path : h \in files}
      BY <1>3, GroupParts
    <2> QED  BY <2>1, <2>3, <2>4
  <1> QED  BY <1>4, <1>5 DEF FilesComplete

(* For any operations with any tags, in the three languages, and in whatever
   order the parallel writers of generate() write and fail: once generation has ended,
   every operation is in the file of its group and in no other, unless that
   write failed or another group's file has the same name, and the barrel lists
   files of the SDK only. *)
THEOREM FilesAreWhole == MCSpec => []FilesWhole
  <1>1. FilesInv => FilesWhole
    BY GeneratedIsComplete DEF FilesWhole
  <1> QED  BY <1>1, FilesStart, FilesStep, PTL DEF MCSpec


-----------------------------------------------------------------------------
(* The reader of a union.  The arms before the one being tried do not accept the
   value, and the one picked does. *)
ArmsInv ==
  part = "unions" =>
    /\ reader \in {"rust", "go", "ts"} /\ union \in Unions /\ value \in Instances(union)
    /\ trying \in 1..3 /\ picked \in {-1, 0, 1, 2}
    /\ \A k \in 1..2 : k < trying => ~Accepts(k)
    /\ picked = 0 => trying = 3
    /\ picked > 0 => picked = trying /\ Accepts(picked)

LEMMA ArmFacts ==
    ASSUME NEW tags, NEW a \in Arms(tags)
    PROVE  a.tag \in tags
  BY DEF Arms, Shapes

LEMMA UnionFacts ==
    ASSUME NEW u \in Unions
    PROVE  /\ u.disc \in BOOLEAN /\ u.mapped \in BOOLEAN /\ DOMAIN u.arms = 1..2
           /\ \A k \in 1..2 :
                /\ u.disc => u.arms[k].tag \in {"inline", "model", "plain"}
                /\ ~u.disc => u.arms[k].tag = "absent"
  <1>1. ASSUME NEW d \in BOOLEAN, NEW m \in BOOLEAN, NEW a, NEW b,
               u = [disc |-> d, mapped |-> m, arms |-> <<a, b>>]
        PROVE  /\ u.disc = d /\ u.mapped = m /\ DOMAIN u.arms = 1..2
               /\ \A k \in 1..2 : u.arms[k] \in {a, b}
    <2>1. u.arms = <<a, b>>
      BY <1>1
    <2>2. DOMAIN u.arms = 1..2 /\ \A k \in 1..2 : u.arms[k] \in {a, b}
      BY <2>1
    <2> QED  BY <1>1, <2>2
  <1>2. CASE \E m \in BOOLEAN, a \in TaggedArms, b \in TaggedArms :
               u = [disc |-> TRUE, mapped |-> m, arms |-> <<a, b>>]
    <2>1. PICK m \in BOOLEAN, a \in TaggedArms, b \in TaggedArms :
            u = [disc |-> TRUE, mapped |-> m, arms |-> <<a, b>>]
      BY <1>2
    <2>2. a.tag \in {"inline", "model", "plain"} /\ b.tag \in {"inline", "model", "plain"}
      BY ArmFacts DEF TaggedArms
    <2> QED  BY <1>1, <2>1, <2>2
  <1>3. CASE \E a \in PlainArms, b \in PlainArms :
               u = [disc |-> FALSE, mapped |-> FALSE, arms |-> <<a, b>>]
    <2>1. PICK a \in PlainArms, b \in PlainArms :
            u = [disc |-> FALSE, mapped |-> FALSE, arms |-> <<a, b>>]
      BY <1>3
    <2>2. a.tag = "absent" /\ b.tag = "absent"
      BY ArmFacts DEF PlainArms
    <2> QED  BY <1>1, <2>1, <2>2
  <1>4. \/ \E m \in BOOLEAN, a \in TaggedArms, b \in TaggedArms :
             u = [disc |-> TRUE, mapped |-> m, arms |-> <<a, b>>]
        \/ \E a \in PlainArms, b \in PlainArms :
             u = [disc |-> FALSE, mapped |-> FALSE, arms |-> <<a, b>>]
    BY DEF Unions
  <1> QED  BY <1>2, <1>3, <1>4, Zenon

LEMMA InstanceFacts ==
    ASSUME NEW u, NEW v \in Instances(u)
    PROVE  /\ v.of \in 1..2 /\ v.num = u.arms[v.of].num
           /\ u.arms[v.of].req \subseteq v.fields
           /\ v.tag = IF u.disc THEN LitOf(v.of) ELSE None
  <1>1. \E k \in 1..2 : \E f : /\ u.arms[k].req \subseteq f
                               /\ v = [of |-> k, fields |-> f, num |-> u.arms[k].num,
                                       tag |-> IF u.disc THEN LitOf(k) ELSE None]
    BY DEF Instances
  <1> QED  BY <1>1

LEMMA Lits == /\ \A j, k \in 1..2 : LitOf(j) = LitOf(k) => j = k
              /\ \A k \in 1..2 : LitOf(k) # None
  BY DEF LitOf, None

LEMMA ArmsStart == MCInit => ArmsInv
  BY DEF MCInit, UnionsInit, ArmsInv

LEMMA ArmsStep == ArmsInv /\ [MCNext]_allVars => ArmsInv'
  <1> SUFFICES ASSUME ArmsInv, [MCNext]_allVars, part' = "unions" PROVE ArmsInv'
    BY DEF ArmsInv
  <1>1. part = "unions"
    BY DEF MCNext, allVars
  <1>2. UNCHANGED <<reader, union, value>>
    BY <1>1 DEF MCNext, allVars, unionVars, ReadStep, PickArm, NextArm, NoArm
  <1>3. \A k : Accepts(k)' <=> Accepts(k)
    BY <1>2 DEF Accepts, RustAccepts, GoAccepts, TsAccepts, TypesMatch, Arm,
                discriminant_value, OwnLiteral, required_field_check
  <1>4. DOMAIN union.arms = 1..2
    BY <1>1, UnionFacts DEF ArmsInv
  <1>5. CASE UNCHANGED allVars
    BY <1>1, <1>2, <1>3, <1>5 DEF ArmsInv, allVars, unionVars
  <1>6. CASE PickArm
    BY <1>1, <1>2, <1>3, <1>4, <1>6 DEF ArmsInv, PickArm
  <1>7. CASE NextArm
    BY <1>1, <1>2, <1>3, <1>4, <1>7 DEF ArmsInv, NextArm
  <1>8. CASE NoArm
    BY <1>1, <1>2, <1>3, <1>4, <1>8 DEF ArmsInv, NoArm
  <1>9. UNCHANGED allVars \/ PickArm \/ NextArm \/ NoArm
    BY <1>1 DEF MCNext, ReadStep
  <1> QED  BY <1>5, <1>6, <1>7, <1>8, <1>9

LEMMA ArmsAreRight == ArmsInv => ArmsRight
  <1> SUFFICES ASSUME ArmsInv, part = "unions", picked >= 0 PROVE RightArm
    BY DEF ArmsRight, RightArm
  <1> DEFINE own == value.of
  <1>1. /\ reader \in {"rust", "go", "ts"} /\ union \in Unions /\ value \in Instances(union)
        /\ trying \in 1..3 /\ picked \in {0, 1, 2}
        /\ \A k \in 1..2 : k < trying => ~Accepts(k)
        /\ picked = 0 => trying = 3
        /\ picked > 0 => picked = trying /\ Accepts(picked)
    BY DEF ArmsInv
  <1>2. /\ own \in 1..2 /\ value.num = Arm(own).num /\ Arm(own).req \subseteq value.fields
        /\ value.tag = IF union.disc THEN LitOf(own) ELSE None
    BY <1>1, InstanceFacts DEF Arm
  <1>3. /\ union.disc \in BOOLEAN /\ union.mapped \in BOOLEAN /\ DOMAIN union.arms = 1..2
        /\ \A k \in 1..2 : /\ union.disc => Arm(k).tag \in {"inline", "model", "plain"}
                           /\ ~union.disc => Arm(k).tag = "absent"
    BY <1>1, UnionFacts DEF Arm
  <1> HIDE DEF own
  <1>4. Accepts(own) => picked \in 1..own
    BY <1>1, <1>2
  <1>5. ASSUME reader # "rust", Literals
        PROVE  \A k \in 1..2 : discriminant_value(k, reader) = LitOf(k)
    BY <1>1, <1>3, <1>5, Lits DEF Literals, discriminant_value, OwnLiteral
  <1>6. ASSUME reader # "rust", Literals
        PROVE  \A k \in 1..2 : Accepts(k) <=> k = own
    <2>1. \A k \in 1..2 : discriminant_value(k, reader) = LitOf(k)
      BY <1>5, <1>6
    <2>2. union.disc /\ value.tag = LitOf(own)
      BY <1>2, <1>6 DEF Literals
    <2>3. \A k \in 1..2 : LitOf(k) # None /\ (LitOf(k) = LitOf(own) <=> k = own)
      BY <1>2, Lits
    <2>4. CASE reader = "go"
      <3>1. \A k : Accepts(k) <=> GoAccepts(k)
        BY <2>4 DEF Accepts
      <3> QED  BY <2>1, <2>2, <2>3, <2>4, <3>1 DEF GoAccepts
    <2>5. CASE reader = "ts"
      <3>1. \A k : Accepts(k) <=> TsAccepts(k)
        BY <2>5 DEF Accepts
      <3> QED  BY <2>1, <2>2, <2>3, <2>5, <3>1 DEF TsAccepts
    <2> QED  BY <1>1, <1>6, <2>4, <2>5
  <1>7. ASSUME reader # "rust", Literals PROVE picked = own
    <2>1. Accepts(own)
      BY <1>2, <1>6, <1>7
    <2>2. picked > 0
      BY <1>2, <1>4, <2>1
    <2>3. picked \in 1..2 /\ Accepts(picked)
      BY <1>1, <2>2
    <2> QED  BY <1>6, <1>7, <2>3
  <1>8. ASSUME reader = "go", Literals PROVE GoDiscriminant(picked) = value.tag
    BY <1>2, <1>5, <1>7, <1>8 DEF GoDiscriminant, Literals
  <1>9. ASSUME reader = "rust" PROVE Accepts(own)
    BY <1>2, <1>3, <1>9 DEF Accepts, RustAccepts, TypesMatch
  <1>10. ASSUME reader = "rust", picked = own, Literals
         PROVE  RustDiscriminant(picked) = value.tag
    BY <1>2, <1>3, <1>10, Lits
       DEF RustDiscriminant, discriminant_value, OwnLiteral, Literals
  <1>11. ASSUME reader = "rust", picked # own
         PROVE  Arm(picked).req \subseteq value.fields /\ Arm(picked).tag # "model"
    <2>1. picked \in 1..own /\ Accepts(picked)
      BY <1>1, <1>2, <1>4, <1>9, <1>11
    <2>2. picked \in 1..2 /\ RustAccepts(picked)
      BY <1>2, <1>11, <2>1 DEF Accepts
    <2>3. Arm(picked).tag = "model" => value.tag # LitOf(picked)
      BY <1>2, <1>3, <1>11, <2>2, Lits
    <2> QED  BY <2>2, <2>3 DEF RustAccepts
  <1>12. ASSUME reader = "ts", ~union.disc, Arm(own).req # {} PROVE Accepts(own)
    BY <1>2, <1>12 DEF Accepts, TsAccepts, required_field_check
  <1> QED  BY <1>4, <1>7, <1>8, <1>9, <1>10, <1>11, <1>12 DEF RightArm, own

(* The generated readers of a union return the arm a value was made from, as far
   as the discriminator or the structure tells: the theorem behind the run's
   enumeration of all unions of two arms. *)
THEOREM ReadersAreRight == MCSpec => []ArmsRight
  BY ArmsStart, ArmsStep, ArmsAreRight, PTL DEF MCSpec


-----------------------------------------------------------------------------
(* A call of a generated method.  For plain arguments the path grows to the
   template filled in, and then the query is the parameter the caller gave. *)
Sent == IF args.q = "absent" THEN <<>> ELSE <<args.q>>

CallsInv ==
  part = "methods" =>
    /\ sdk \in {"rust", "go", "ts"} /\ op \in Operations /\ args \in Arguments(op)
    /\ step \in {"path", "query", "refused", "send", "answered"}
    /\ Plain => IF step = "path" THEN path \in {<<>>, <<"items">>, <<"items", args.id>>}
                ELSE path = <<"items", args.id>>
    /\ Plain /\ step \in {"send", "answered"} => query = Sent
    /\ step = "answered" /\ NoResult => outcome = "ok"

LEMMA CallsStart == MCInit => CallsInv
  BY DEF MCInit, MethodsInit, CallsInv

LEMMA OperationFacts ==
    ASSUME NEW o \in Operations, NEW a \in Arguments(o)
    PROVE  /\ o.required \in BOOLEAN /\ o.declared \in BOOLEAN /\ o.kind \in Kinds
           /\ DOMAIN o.responses \subseteq Statuses
           /\ a.q \in {"absent", "zero", "plain", "slash"} /\ (o.required => a.q # "absent")
  BY DEF Operations, Arguments

LEMMA SegmentKeeps ==
    ASSUME CallsInv, part = "methods", part' = part, PathSegment
    PROVE  CallsInv'
  <1>1. /\ step = "path" /\ Len(path) < Len(Template) /\ path' = path \o Segment
        /\ UNCHANGED <<sdk, op, args, step, query, headers, outcome>>
    BY DEF PathSegment
  <1>2. ASSUME Plain PROVE path' \in {<<"items">>, <<"items", args.id>>}
    <2>1. path \in {<<>>, <<"items">>, <<"items", args.id>>}
      BY <1>1, <1>2 DEF CallsInv
    <2>2. CASE path = <<>>
      <3>1. Len(path) + 1 = 1 /\ Template[1] = "items"
        BY <2>2 DEF Template
      <3>2. Template[Len(path) + 1] = "items"
        BY <3>1
      <3>3. Segment = <<"items">>
        BY <3>2 DEF Segment
      <3> QED  BY <1>1, <2>2, <3>3
    <2>3. CASE path = <<"items">>
      <3>1. Len(path) + 1 = 2 /\ Template[2] = "{id}"
        BY <2>3 DEF Template
      <3>2. Template[Len(path) + 1] = "{id}"
        BY <3>1
      <3>3. Segment = <<args.id>>
        BY <1>2, <3>2 DEF Segment, Filled, Plain
      <3>4. PICK id : id = args.id
        OBVIOUS
      <3>5. <<"items">> \o <<id>> = <<"items", id>>
        <4> DEFINE s == <<"items">> \o <<id>>
        <4>1. <<"items">> \in Seq({"items", id}) /\ <<id>> \in Seq({"items", id})
          OBVIOUS
        <4>2. s \in Seq({"items", id}) /\ Len(s) = 2 /\ s[1] = "items" /\ s[2] = id
          BY <4>1
        <4> HIDE DEF s
        <4>3. s = <<"items", id>>
          BY <4>2
        <4> QED  BY <4>3 DEF s
      <3> QED  BY <1>1, <2>3, <3>3, <3>4, <3>5
    <2>4. CASE path = <<"items", args.id>>
      BY <1>1, <2>4 DEF Template
    <2> QED  BY <2>1, <2>2, <2>3, <2>4
  <1>3. Plain' <=> Plain
    BY <1>1 DEF Plain
  <1> QED  BY <1>1, <1>2, <1>3 DEF CallsInv

LEMMA PathDoneKeeps ==
    ASSUME CallsInv, part = "methods", part' = part, PathDone
    PROVE  CallsInv'
  <1>1. /\ step = "path" /\ Len(path) >= Len(Template) /\ step' = "query"
        /\ UNCHANGED <<sdk, op, args, path, query, headers, outcome>>
    BY DEF PathDone
  <1>2. ASSUME Plain PROVE path = <<"items", args.id>>
    <2>1. path \in {<<>>, <<"items">>, <<"items", args.id>>}
      BY <1>1, <1>2 DEF CallsInv
    <2> QED  BY <1>1, <2>1 DEF Template
  <1>3. Plain' <=> Plain
    BY <1>1 DEF Plain
  <1> QED  BY <1>1, <1>2, <1>3 DEF CallsInv

LEMMA QueryKeeps ==
    ASSUME CallsInv, part = "methods", part' = part, RustQuery \/ GoQuery \/ TsOptions
    PROVE  CallsInv'
  <1>1. /\ op \in Operations /\ args \in Arguments(op)
    BY DEF CallsInv
  <1>2. /\ op.required \in BOOLEAN /\ op.kind \in Kinds
        /\ args.q \in {"absent", "zero", "plain", "slash"} /\ (op.required => args.q # "absent")
    BY <1>1, OperationFacts
  <1>3. /\ step = "query" /\ step' = "send" /\ UNCHANGED <<sdk, op, args, path, outcome>>
    BY DEF RustQuery, GoQuery, TsOptions, ToSend
  <1>4. ASSUME Plain PROVE query' = Sent
    <2>1. op.kind # "array"
      BY <1>4 DEF Plain
    <2>2. CASE RustQuery
      BY <2>1, <2>2 DEF RustQuery, ToSend, rust_coerce_string, Sent
    <2>3. CASE TsOptions
      BY <2>1, <2>3 DEF TsOptions, ToSend, encodeQuery, Sent
    <2>4. CASE GoQuery
      <3>1. query' = IF op.required \/ zero_check(GoValue) THEN <<GoValue>> ELSE <<>>
        BY <2>1, <2>4 DEF GoQuery, ToSend, coerce_to_string
      <3>2. CASE args.q = "absent"
        BY <1>2, <1>4, <3>1, <3>2 DEF Plain, zero_check, GoValue, Sent
      <3>3. CASE args.q # "absent"
        BY <1>2, <1>4, <3>1, <3>3 DEF Plain, zero_check, GoValue, Sent
      <3> QED  BY <3>2, <3>3
    <2> QED  BY <2>2, <2>3, <2>4
  <1>5. (Plain' <=> Plain) /\ Sent' = Sent
    BY <1>3 DEF Plain, Sent
  <1> QED  BY <1>3, <1>4, <1>5 DEF CallsInv

LEMMA RefusedKeeps ==
    ASSUME CallsInv, part = "methods", part' = part, TsRefused
    PROVE  CallsInv'
  <1>1. /\ step = "query" /\ step' = "refused"
        /\ UNCHANGED <<sdk, op, args, path, query, headers>>
    BY DEF TsRefused
  <1>2. Plain' <=> Plain
    BY <1>1 DEF Plain
  <1> QED  BY <1>1, <1>2 DEF CallsInv

LEMMA AnswerKeeps ==
    ASSUME CallsInv, part = "methods", part' = part,
           NEW b \in {"json", "alien", "empty", "text"}, Answer(b)
    PROVE  CallsInv'
  <1>1. /\ step = "send" /\ step' = "answered"
        /\ outcome' = CASE sdk = "rust" -> RustDecoded(b)
                        [] sdk = "go" -> GoDecoded(b)
                        [] sdk = "ts" -> TsDecoded(b)
        /\ UNCHANGED <<sdk, op, args, path, query, headers>>
    BY DEF Answer
  <1>2. ASSUME NoResult PROVE outcome' = "ok"
    <2>1. DOMAIN op.responses \subseteq Statuses
      BY OperationFacts DEF CallsInv
    <2>2. success_body = "none"
      BY <1>2, <2>1 DEF success_body, NoResult, Statuses
    <2> QED  BY <1>1, <2>2 DEF CallsInv, RustDecoded, GoDecoded, TsDecoded
  <1>3. (Plain' <=> Plain) /\ (NoResult' <=> NoResult) /\ Sent' = Sent
    BY <1>1 DEF Plain, NoResult, Sent
  <1> QED  BY <1>1, <1>2, <1>3 DEF CallsInv

LEMMA CallsStep == CallsInv /\ [MCNext]_allVars => CallsInv'
  <1> SUFFICES ASSUME CallsInv, [MCNext]_allVars, part' = "methods" PROVE CallsInv'
    BY DEF CallsInv
  <1>1. part = "methods"
    BY DEF MCNext, allVars
  <1>2. CASE UNCHANGED allVars
    <2>1. UNCHANGED <<part, sdk, op, args, step, path, query, headers, outcome>>
      BY <1>2 DEF allVars, callVars
    <2> QED  BY <2>1 DEF CallsInv, Plain, NoResult, Sent
  <1>3. CASE CallStep
    BY <1>1, <1>3, SegmentKeeps, PathDoneKeeps, QueryKeeps, RefusedKeeps, AnswerKeeps
       DEF CallStep
  <1>4. UNCHANGED allVars \/ CallStep
    BY <1>1 DEF MCNext
  <1> QED  BY <1>2, <1>3, <1>4

(* For plain arguments the three SDKs build the request the operation describes,
   and a method of an operation whose successes have no body never fails on the
   body of the answer. *)
THEOREM CallsDoAgree == MCSpec => []CallsAgree
  <1>1. CallsInv => CallsAgree
    BY DEF CallsInv, CallsAgree, RequestsAgree, Sent
  <1> QED  BY <1>1, CallsStart, CallsStep, PTL DEF MCSpec
=============================================================================
