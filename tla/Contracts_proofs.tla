------------------------- MODULE Contracts_proofs --------------------------
(* Proofs about the contract layer.  The readers' parts that keep state     *)
(* between two questions: the revisions of a schema, for every schema and   *)
(* every set of edits, and the memos of module aliases, for every disk and  *)
(* any number of threads.  Then the graph: its indices and what it holds of *)
(* the files, for every set of files and every sequence of reloads; and     *)
(* what is asked of it: its routes, the links of the diagram, the listings  *)
(* of dependents and the matrix of a change.                                *)
EXTENDS SchemaRevisions, ScriptAliases, Topology, Dependents, FiniteSetTheorems, WellFoundedInduction, SequenceTheorems, TLAPS

-----------------------------------------------------------------------------
(* What the comparison of two types says.                                   *)

Verdicts == {"compatible", "unknown", "incompatible"}

LEMMA ClassifiedIsClass ==
  ASSUME NEW ty, NEW s
  PROVE  ClassifyWireType(ty, s) = [c |-> ClassifyWireType(ty, s).c, n |-> ClassifyWireType(ty, s).n]
BY DEF ClassifyWireType

LEMMA TypesVerdict ==
  ASSUME NEW s, NEW old, NEW t, NEW new
  PROVE  WireTypesCompatible(s, old, t, new) \in Verdicts
BY DEF WireTypesCompatible, BothClasses, ClassesCompatible, Verdicts

LEMMA BothVerdict ==
  ASSUME NEW a \in Verdicts, NEW b \in Verdicts
  PROVE  /\ BothCompat(a, b) \in Verdicts
         /\ BothCompat(a, b) = "compatible" => a = "compatible" /\ b = "compatible"
BY DEF BothCompat, Verdicts

LEMMA SameNameSymmetric ==
  ASSUME NEW a, NEW b, SameTypeName(a, b)
  PROVE  SameTypeName(b, a)
BY DEF SameTypeName

LEMMA HoldingAlike ==
  ASSUME NEW x, NEW y
  PROVE  /\ HoldAlike(x, x)
         /\ HoldAlike(x, y) => HoldAlike(y, x)
         /\ x = "bytes" /\ y \in {"string", "bytes", "message"} => HoldAlike(x, y) /\ HoldAlike(y, x)
BY DEF HoldAlike, MayHold

LEMMA AlikeSymmetric ==
  ASSUME NEW a, NEW b, Alike(a, b)
  PROVE  Alike(b, a)
<1>1. {b.c, a.c} = {a.c, b.c}
  OBVIOUS
<1> QED
  BY <1>1, SameNameSymmetric, HoldingAlike DEF Alike

\* Types said to be compatible have one form and are understood alike.
LEMMA CompatibleClasses ==
  ASSUME NEW a, NEW b, a = [c |-> a.c, n |-> a.n], b = [c |-> b.c, n |-> b.n],
         BothClasses(a, b) = "compatible"
  PROVE  Alike(a, b) /\ FormOf(a.c) = FormOf(b.c)
<1>1. CASE {a.c, b.c} \subseteq {"message", "unresolved"}
  <2>1. SameTypeName(a.n, b.n)
    BY <1>1 DEF BothClasses, ClassesCompatible
  <2>2. a.c \in {"message", "unresolved"} /\ b.c \in {"message", "unresolved"}
    BY <1>1
  <2> QED
    BY <1>1, <2>1, <2>2 DEF Alike, FormOf
<1>2. CASE ~({a.c, b.c} \subseteq {"message", "unresolved"})
  <2>1. {a.c, b.c} # {"message"} /\ ~("unresolved" \in {a.c, b.c})
    BY <1>2 DEF BothClasses, ClassesCompatible
  <2>2. {a.c, b.c} \in {{"string", "bytes"}, {"bytes", "message"}} \/ a = b
    BY <1>2, <2>1 DEF BothClasses, ClassesCompatible
  <2>3. CASE a = b
    BY <1>2, <2>3, HoldingAlike DEF Alike
  <2>4. CASE {a.c, b.c} = {"string", "bytes"}
    <3>1. (a.c = "string" /\ b.c = "bytes") \/ (a.c = "bytes" /\ b.c = "string")
      BY <2>4
    <3> QED
      BY <1>2, <3>1, HoldingAlike DEF Alike, FormOf
  <2>5. CASE {a.c, b.c} = {"bytes", "message"}
    <3>1. (a.c = "message" /\ b.c = "bytes") \/ (a.c = "bytes" /\ b.c = "message")
      BY <2>5
    <3> QED
      BY <1>2, <3>1, HoldingAlike DEF Alike, FormOf
  <2> QED
    BY <2>2, <2>3, <2>4, <2>5
<1> QED
  BY <1>1, <1>2

LEMMA CompatibleTypes ==
  ASSUME NEW s, NEW old, NEW t, NEW new, WireTypesCompatible(s, old, t, new) = "compatible"
  PROVE  /\ TypesAlike(s, old, t, new)
         /\ FormOf(ClassifyWireType(s, old).c) = FormOf(ClassifyWireType(t, new).c)
BY ClassifiedIsClass, CompatibleClasses DEF WireTypesCompatible, TypesAlike

LEMMA TypesAlikeSymmetric ==
  ASSUME NEW s, NEW old, NEW t, NEW new, TypesAlike(s, old, t, new)
  PROVE  TypesAlike(t, new, s, old)
BY AlikeSymmetric DEF TypesAlike

-----------------------------------------------------------------------------
(* What the comparison of two fields says.                                  *)

LEMMA EntryVerdict ==
  ASSUME NEW map, NEW ms, NEW class, NEW ls
  PROVE  /\ MapClassCompatible(map, ms, class, ls) \in Verdicts
         /\ MapClassCompatible(map, ms, class, ls) = "compatible" => EntriesOf(map, ms, class, ls)
<1> DEFINE entry == ResolveMessage(ls, class.n)[1].members
           keys == WireTypesCompatible(map.key, ms, InEntry(entry, 1), ls)
           vals == WireTypesCompatible(map.type, ms, InEntry(entry, 2), ls)
<1>1. keys \in Verdicts /\ vals \in Verdicts
  BY TypesVerdict
<1>2. CASE class.c = "unresolved"
  BY <1>2 DEF MapClassCompatible, Verdicts
<1>3. CASE class.c = "message"
  <2>1. MapClassCompatible(map, ms, class, ls) = EntryCompatible(map, ms, entry, ls)
    BY <1>3 DEF MapClassCompatible
  <2>2. EntryCompatible(map, ms, entry, ls) = IF ~IsEntry(entry) THEN "incompatible" ELSE BothCompat(keys, vals)
    BY DEF EntryCompatible
  <2>3. BothCompat(keys, vals) \in Verdicts /\ (BothCompat(keys, vals) = "compatible" => keys = "compatible" /\ vals = "compatible")
    BY <1>1, BothVerdict
  <2>4. MapClassCompatible(map, ms, class, ls) \in Verdicts
    BY <2>1, <2>2, <2>3 DEF Verdicts
  <2>5. ASSUME MapClassCompatible(map, ms, class, ls) = "compatible"
        PROVE  EntriesOf(map, ms, class, ls)
    <3>1. IsEntry(entry) /\ keys = "compatible" /\ vals = "compatible"
      BY <2>1, <2>2, <2>3, <2>5
    <3> QED
      BY <1>3, <3>1, CompatibleTypes DEF EntriesOf
  <2> QED
    BY <2>4, <2>5
<1>4. CASE class.c \notin {"unresolved", "message"}
  BY <1>4 DEF MapClassCompatible, Verdicts
<1> QED
  BY <1>2, <1>3, <1>4

LEMMA ListVerdict ==
  ASSUME NEW values \in Verdicts, NEW classes
  PROVE  /\ ListCompatible(values, classes) \in Verdicts
         /\ ListCompatible(values, classes) = "compatible" =>
              values = "compatible" /\ \A c \in classes : LengthDelimited(c)
BY DEF ListCompatible, Verdicts

\* Fields said to be compatible read each other, and the verdict is a verdict.
LEMMA CompatibleFields ==
  ASSUME NEW of, NEW old, NEW nf, NEW new
  PROVE  /\ WireFieldsCompatible(of, old, nf, new) \in Verdicts
         /\ WireFieldsCompatible(of, old, nf, new) = "compatible" => BothReadable(of, old, nf, new)
<1> DEFINE values == WireTypesCompatible(of.type, old, nf.type, new)
           keys == WireTypesCompatible(of.key, old, nf.key, new)
           a == ClassifyWireType(of.type, old)
           b == ClassifyWireType(nf.type, new)
           said == CardinalitiesCompatible(of, old, nf, new, values)
<1>0. WireFieldsCompatible(of, old, nf, new) = said
  BY DEF WireFieldsCompatible
<1>1. values \in Verdicts /\ keys \in Verdicts
  BY TypesVerdict
<1>2. values = "compatible" => /\ TypesAlike(of.type, old, nf.type, new) /\ TypesAlike(nf.type, new, of.type, old)
                               /\ FormOf(a.c) = FormOf(b.c)
  BY CompatibleTypes, TypesAlikeSymmetric
<1>3. CASE of.card = nf.card /\ of.card = "map"
  <2>1. said = BothCompat(keys, values)
    BY <1>3 DEF CardinalitiesCompatible
  <2>2. said \in Verdicts /\ (said = "compatible" => keys = "compatible" /\ values = "compatible")
    BY <1>1, <2>1, BothVerdict
  <2>3. said = "compatible" => TypesAlike(of.key, old, nf.key, new) /\ TypesAlike(nf.key, new, of.key, old)
    BY <2>2, CompatibleTypes, TypesAlikeSymmetric
  <2> HIDE DEF said
  <2> QED
    BY <1>0, <1>2, <1>3, <2>2, <2>3 DEF BothReadable, Readable, Emits, Accepts
<1>4. CASE of.card = nf.card /\ of.card # "map"
  <2>1. said = values
    BY <1>4 DEF CardinalitiesCompatible
  <2> HIDE DEF said, values
  <2> QED
    BY <1>0, <1>1, <1>2, <1>4, <2>1 DEF BothReadable, Readable, Emits, Accepts
<1>5. CASE {of.card, nf.card} = {"singular", "repeated"}
  <2>0. of.card # nf.card /\ of.card \in {"singular", "repeated"} /\ nf.card \in {"singular", "repeated"}
    BY <1>5
  <2>1. said = ListCompatible(values, {a, b})
    BY <1>5, <2>0 DEF CardinalitiesCompatible
  <2>2. said \in Verdicts
    BY <1>1, <2>1, ListVerdict
  <2>3. ASSUME said = "compatible" PROVE BothReadable(of, old, nf, new)
    <3>1. values = "compatible" /\ LengthDelimited(a) /\ LengthDelimited(b)
      BY <1>1, <2>1, <2>3, ListVerdict
    <3>2. FormOf(a.c) = "length" /\ FormOf(b.c) = "length"
      BY <3>1 DEF LengthDelimited, FormOf
    <3>3. Emits(of, old) = {"length"} /\ Emits(nf, new) = {"length"}
      BY <2>0, <3>2 DEF Emits
    <3> QED
      BY <1>2, <2>0, <3>1, <3>3 DEF BothReadable, Readable, Accepts
  <2> QED
    BY <1>0, <2>2, <2>3
<1>6. CASE of.card = "map" /\ nf.card = "repeated"
  <2>1. said = MapClassCompatible(of, old, b, new)
    BY <1>6 DEF CardinalitiesCompatible, MapEntryCompatible
  <2>2. said \in Verdicts /\ (said = "compatible" => EntriesOf(of, old, b, new))
    BY <2>1, EntryVerdict
  <2>3. EntriesOf(of, old, b, new) => FormOf(b.c) = "length"
    BY DEF EntriesOf, FormOf
  <2> HIDE DEF said
  <2>4. ASSUME said = "compatible" PROVE BothReadable(of, old, nf, new)
    <3>1. Emits(of, old) = {"length"} /\ Emits(nf, new) = {"length"}
      BY <1>6, <2>2, <2>3, <2>4 DEF Emits
    <3> QED
      BY <1>6, <2>2, <2>4, <3>1 DEF BothReadable, Readable, Accepts
  <2> QED
    BY <1>0, <2>2, <2>4
<1>7. CASE of.card = "repeated" /\ nf.card = "map"
  <2>1. said = MapClassCompatible(nf, new, a, old)
    BY <1>7 DEF CardinalitiesCompatible, MapEntryCompatible
  <2>2. said \in Verdicts /\ (said = "compatible" => EntriesOf(nf, new, a, old))
    BY <2>1, EntryVerdict
  <2>3. EntriesOf(nf, new, a, old) => FormOf(a.c) = "length"
    BY DEF EntriesOf, FormOf
  <2> HIDE DEF said
  <2>4. ASSUME said = "compatible" PROVE BothReadable(of, old, nf, new)
    <3>1. Emits(of, old) = {"length"} /\ Emits(nf, new) = {"length"}
      BY <1>7, <2>2, <2>3, <2>4 DEF Emits
    <3> QED
      BY <1>7, <2>2, <2>4, <3>1 DEF BothReadable, Readable, Accepts
  <2> QED
    BY <1>0, <2>2, <2>4
<1>8. CASE /\ of.card # nf.card /\ {of.card, nf.card} # {"singular", "repeated"}
           /\ ~(of.card = "map" /\ nf.card = "repeated") /\ ~(of.card = "repeated" /\ nf.card = "map")
  <2>1. said = "incompatible"
    BY <1>8 DEF CardinalitiesCompatible
  <2> QED
    BY <1>0, <2>1 DEF Verdicts
<1> QED
  BY <1>3, <1>4, <1>5, <1>6, <1>7, <1>8

-----------------------------------------------------------------------------
(* One revision.                                                            *)

LEMMA PairHas ==
  ASSUME NEW old, NEW new, NEW p \in Pairs(old, new)
  PROVE  p[1] \in ToSet(old) /\ p[2] \in ToSet(new) /\ p[2].path = p[1].path
<1>1. p \in ToSet(old) \X ToSet(new)
  BY DEF Pairs
<1>2. PICK j \in DOMAIN new : IsFirst(new, j, p[1].path) /\ p[2] = new[j]
  BY DEF Pairs
<1> QED
  BY <1>1, <1>2 DEF IsFirst

LEMMA InUnion ==
  ASSUME NEW S, NEW X \in S
  PROVE  X \subseteq UNION S
OBVIOUS

LEMMA InCup ==
  ASSUME NEW U, NEW V
  PROVE  U \subseteq U \cup V /\ V \subseteq U \cup V
OBVIOUS

LEMMA FindingsOfPairs ==
  ASSUME NEW old, NEW new
  PROVE  DiffWireSchemas(old, new).findings =
           (UNION {MessageFindings(old, new, p) : p \in Pairs(old.messages, new.messages)})
             \cup (UNION {DiffWireEnums(p) : p \in Pairs(old.enums, new.enums)})
BY DEF DiffWireSchemas

LEMMA PairFindings ==
  ASSUME NEW old, NEW new
  PROVE  /\ \A p \in Pairs(old.messages, new.messages) : MessageFindings(old, new, p) \subseteq DiffWireSchemas(old, new).findings
         /\ \A p \in Pairs(old.enums, new.enums) : DiffWireEnums(p) \subseteq DiffWireSchemas(old, new).findings
<1> DEFINE A == {MessageFindings(old, new, p) : p \in Pairs(old.messages, new.messages)}
           B == {DiffWireEnums(p) : p \in Pairs(old.enums, new.enums)}
<1>1. DiffWireSchemas(old, new).findings = (UNION A) \cup (UNION B)
  BY FindingsOfPairs
<1>2. \A p \in Pairs(old.messages, new.messages) : MessageFindings(old, new, p) \in A
  OBVIOUS
<1>3. \A p \in Pairs(old.enums, new.enums) : DiffWireEnums(p) \in B
  OBVIOUS
<1> HIDE DEF A, B
<1>4. UNION A \subseteq DiffWireSchemas(old, new).findings /\ UNION B \subseteq DiffWireSchemas(old, new).findings
  BY <1>1, InCup
<1>5. ASSUME NEW p \in Pairs(old.messages, new.messages)
      PROVE  MessageFindings(old, new, p) \subseteq DiffWireSchemas(old, new).findings
  <2>1. MessageFindings(old, new, p) \subseteq UNION A
    BY <1>2, InUnion
  <2> QED
    BY <1>4, <2>1
<1>6. ASSUME NEW p \in Pairs(old.enums, new.enums)
      PROVE  DiffWireEnums(p) \subseteq DiffWireSchemas(old, new).findings
  <2>1. DiffWireEnums(p) \subseteq UNION B
    BY <1>3, InUnion
  <2> QED
    BY <1>4, <2>1
<1> QED
  BY <1>5, <1>6

LEMMA FieldFindingIsSaid ==
  ASSUME NEW old, NEW new, NEW p \in Pairs(old.messages, new.messages), NEW n \in Numbers(p[1])
  PROVE  FieldFindings(p[1], old, p[2], new, n) \subseteq DiffWireSchemas(old, new).findings
<1>1. FieldFindings(p[1], old, p[2], new, n) \subseteq MessageFindings(old, new, p)
  BY Zenon DEF MessageFindings
<1> QED
  BY <1>1, PairFindings

LEMMA EnumFindingIsSaid ==
  ASSUME NEW old, NEW new, NEW p \in Pairs(old.enums, new.enums), NEW n \in Numbers(p[1])
  PROVE  EnumFindings(p[1], p[2], n) \subseteq DiffWireSchemas(old, new).findings
<1>1. EnumFindings(p[1], p[2], n) \subseteq DiffWireEnums(p)
  BY Zenon DEF DiffWireEnums
<1> QED
  BY <1>1, PairFindings

LEMMA ReusedIsSaid ==
  ASSUME NEW old, NEW new
  PROVE  /\ \A p \in Pairs(old.messages, new.messages) :
              Reused(p[1], p[2], "FieldNumberReused") \subseteq DiffWireSchemas(old, new).findings
         /\ \A p \in Pairs(old.enums, new.enums) :
              Reused(p[1], p[2], "EnumNumberReused") \subseteq DiffWireSchemas(old, new).findings
<1>1. ASSUME NEW p PROVE Reused(p[1], p[2], "FieldNumberReused") \subseteq MessageFindings(old, new, p)
  BY InCup, Zenon DEF MessageFindings
<1>2. ASSUME NEW p PROVE Reused(p[1], p[2], "EnumNumberReused") \subseteq DiffWireEnums(p)
  BY InCup, Zenon DEF DiffWireEnums
<1> QED
  BY <1>1, <1>2, PairFindings

\* A kept field of which nothing is said has its name, and is of compatible
\* type.
LEMMA SilentIsCompatible ==
  ASSUME NEW om, NEW nm, NEW of, NEW nf, NEW n, NEW compat \in Verdicts,
         ~\E x \in KeptFindings(om, nm, of, nf, n, compat) : x.path = om.path /\ x.number = n
  PROVE  compat = "compatible" /\ nf.name = of.name
<1> DEFINE says(level, rule) == Finding(level, rule, om.path, n)
<1>1. \A level, rule : says(level, rule).path = om.path /\ says(level, rule).number = n
  BY DEF Finding
<1>2. \A level, rule : says(level, rule) \notin KeptFindings(om, nm, of, nf, n, compat)
  BY <1>1
<1>3. CASE nf.name # of.name
  <2>1. KeptFindings(om, nm, of, nf, n, compat) \in {{says("breaking", "FieldNumberReused")}, {says("warning", "renamed")}}
    BY <1>3 DEF KeptFindings
  <2> QED
    BY <1>2, <2>1
<1>4. CASE nf.name = of.name /\ compat = "unknown"
  <2>1. KeptFindings(om, nm, of, nf, n, compat) = {says("warning", "unchecked")}
    BY <1>4 DEF KeptFindings
  <2> QED
    BY <1>2, <2>1
<1>5. CASE nf.name = of.name /\ compat = "incompatible"
  <2>1. KeptFindings(om, nm, of, nf, n, compat) = {says("breaking", "IncompatibleType")}
    BY <1>5 DEF KeptFindings
  <2> QED
    BY <1>2, <2>1
<1> QED
  BY <1>3, <1>4, <1>5 DEF Verdicts

(* `diff_wire_schemas`, for any two schemas: a field it says nothing of is  *)
(* read by either side as the other wrote it.                               *)
THEOREM SilenceIsReadable ==
  ASSUME NEW old, NEW new
  PROVE  StepReadable(old, new)
<1> DEFINE findings == DiffWireSchemas(old, new).findings
<1> SUFFICES ASSUME NEW p \in Pairs(old.messages, new.messages), NEW n \in Numbers(p[1]) \cap Numbers(p[2]),
                    ~\E x \in findings : x.path = p[1].path /\ x.number = n
             PROVE  BothReadable(At(p[1], n), old, At(p[2], n), new)
  BY DEF StepReadable, UnsaidReadable
<1> DEFINE compat == WireFieldsCompatible(At(p[1], n), old, At(p[2], n), new)
<1>1. FieldFindings(p[1], old, p[2], new, n) \subseteq findings
  BY FieldFindingIsSaid
<1>2. FieldFindings(p[1], old, p[2], new, n) = KeptFindings(p[1], p[2], At(p[1], n), At(p[2], n), n, compat)
  BY DEF FieldFindings
<1>3. compat \in Verdicts
  BY CompatibleFields
<1> HIDE DEF findings
<1>4. compat = "compatible"
  BY <1>1, <1>2, <1>3, SilentIsCompatible
<1> QED
  BY <1>4, CompatibleFields

-----------------------------------------------------------------------------
(* Silence along revisions: compatibility passes through a firm field.      *)

\* A class that is not of a named type carries no name.
LEMMA BytesHaveNoName ==
  ASSUME NEW ty, NEW s, ClassifyWireType(ty, s).c = "bytes"
  PROVE  ClassifyWireType(ty, s).n = <<>>
BY DEF ClassifyWireType

\* What is compatible with a firm class is that class, or bytes and a string.
LEMMA FirmNeighbour ==
  ASSUME NEW a, NEW m, a = [c |-> a.c, n |-> a.n], m = [c |-> m.c, n |-> m.n],
         m.c \notin {"bytes", "message", "unresolved"},
         BothClasses(a, m) = "compatible" \/ BothClasses(m, a) = "compatible"
  PROVE  a = m \/ (m.c = "string" /\ a.c = "bytes")
<1>0. {m.c, a.c} = {a.c, m.c}
  OBVIOUS
<1>1. ~({a.c, m.c} \subseteq {"message", "unresolved"}) /\ {a.c, m.c} # {"message"}
  OBVIOUS
<1>2. "unresolved" \notin {a.c, m.c} /\ ({a.c, m.c} \in {{"string", "bytes"}, {"bytes", "message"}} \/ a = m)
  BY <1>0, <1>1 DEF BothClasses, ClassesCompatible
<1>3. CASE {a.c, m.c} = {"string", "bytes"}
  BY <1>3
<1>4. CASE {a.c, m.c} = {"bytes", "message"}
  BY <1>4
<1> QED
  BY <1>2, <1>3, <1>4

LEMMA FirmClasses ==
  ASSUME NEW a, NEW m, NEW b,
         a = [c |-> a.c, n |-> a.n], m = [c |-> m.c, n |-> m.n], b = [c |-> b.c, n |-> b.n],
         a.c = "bytes" => a.n = <<>>, b.c = "bytes" => b.n = <<>>,
         m.c \notin {"bytes", "message", "unresolved"},
         BothClasses(a, m) = "compatible", BothClasses(m, b) = "compatible"
  PROVE  /\ BothClasses(a, b) = "compatible"
         /\ LengthDelimited(m) <=> LengthDelimited(a)
         /\ LengthDelimited(m) <=> LengthDelimited(b)
<1>1. a = m \/ (m.c = "string" /\ a.c = "bytes")
  BY FirmNeighbour
<1>2. b = m \/ (m.c = "string" /\ b.c = "bytes")
  BY FirmNeighbour
<1>3. a = b \/ {a.c, b.c} = {"string", "bytes"}
  BY <1>1, <1>2
<1>4. a.c \notin {"message", "unresolved"} /\ b.c \notin {"message", "unresolved"}
  BY <1>1, <1>2
<1>5. BothClasses(a, b) = "compatible"
  BY <1>3, <1>4 DEF BothClasses, ClassesCompatible
<1> QED
  BY <1>1, <1>2, <1>5 DEF LengthDelimited

\* Between a field and a firm one that are compatible: neither is a map.
LEMMA FirmCards ==
  ASSUME NEW of, NEW old, NEW m, NEW mid, Firm(m, mid),
         WireFieldsCompatible(of, old, m, mid) = "compatible" \/ WireFieldsCompatible(m, mid, of, old) = "compatible"
  PROVE  /\ of.card # "map" /\ m.card # "map"
         /\ \/ of.card = m.card
            \/ /\ {of.card, m.card} = {"singular", "repeated"}
               /\ LengthDelimited(ClassifyWireType(of.type, old)) /\ LengthDelimited(ClassifyWireType(m.type, mid))
<1> DEFINE a == ClassifyWireType(of.type, old)
           c == ClassifyWireType(m.type, mid)
           there == WireTypesCompatible(of.type, old, m.type, mid)
           back == WireTypesCompatible(m.type, mid, of.type, old)
<1>0. m.card # "map" /\ c.c # "message" /\ c.c # "unresolved"
  BY DEF Firm
<1>1. there \in Verdicts /\ back \in Verdicts
  BY TypesVerdict
<1>2. \/ CardinalitiesCompatible(of, old, m, mid, there) = "compatible"
      \/ CardinalitiesCompatible(m, mid, of, old, back) = "compatible"
  BY DEF WireFieldsCompatible
<1> HIDE DEF there, back
<1>3. CASE of.card = m.card
  BY <1>0, <1>3
<1>4. CASE {of.card, m.card} = {"singular", "repeated"}
  <2>0. {m.card, of.card} = {"singular", "repeated"} /\ {c, a} = {a, c} /\ of.card # m.card /\ of.card # "map"
    BY <1>4
  <2>1. ListCompatible(there, {a, c}) = "compatible" \/ ListCompatible(back, {a, c}) = "compatible"
    BY <1>2, <1>4, <2>0 DEF CardinalitiesCompatible
  <2>2. LengthDelimited(a) /\ LengthDelimited(c)
    BY <1>1, <2>1, ListVerdict
  <2> QED
    BY <1>0, <1>4, <2>0, <2>2
<1>5. CASE of.card # m.card /\ {of.card, m.card} # {"singular", "repeated"}
  <2>0. {m.card, of.card} # {"singular", "repeated"}
    BY <1>5
  <2>1. MapClassCompatible(of, old, c, mid) = "incompatible"
    BY <1>0 DEF MapClassCompatible
  <2>2. MapEntryCompatible(of, old, m, mid) = "incompatible"
    BY <2>1 DEF MapEntryCompatible
  <2>3. CardinalitiesCompatible(of, old, m, mid, there) = "incompatible"
    BY <1>0, <1>5, <2>2 DEF CardinalitiesCompatible
  <2>4. CardinalitiesCompatible(m, mid, of, old, back) = "incompatible"
    BY <1>0, <1>5, <2>0, <2>2 DEF CardinalitiesCompatible
  <2> QED
    BY <1>2, <2>3, <2>4
<1> QED
  BY <1>3, <1>4, <1>5

\* The values of compatible fields that are no maps are compatible.
LEMMA PlainValues ==
  ASSUME NEW of, NEW old, NEW nf, NEW new, of.card # "map", nf.card # "map",
         of.card = nf.card \/ {of.card, nf.card} = {"singular", "repeated"}
  PROVE  WireFieldsCompatible(of, old, nf, new) = "compatible" <=>
           /\ WireTypesCompatible(of.type, old, nf.type, new) = "compatible"
           /\ of.card # nf.card =>
                LengthDelimited(ClassifyWireType(of.type, old)) /\ LengthDelimited(ClassifyWireType(nf.type, new))
<1> DEFINE a == ClassifyWireType(of.type, old)
           b == ClassifyWireType(nf.type, new)
           values == WireTypesCompatible(of.type, old, nf.type, new)
<1>0. values \in Verdicts
  BY TypesVerdict
<1>1. WireFieldsCompatible(of, old, nf, new) = CardinalitiesCompatible(of, old, nf, new, values)
  BY DEF WireFieldsCompatible
<1>2. CASE of.card = nf.card
  BY <1>1, <1>2 DEF CardinalitiesCompatible
<1>3. CASE of.card # nf.card
  <2>1. CardinalitiesCompatible(of, old, nf, new, values) = ListCompatible(values, {a, b})
    BY <1>3 DEF CardinalitiesCompatible
  <2>2. LengthDelimited(a) /\ LengthDelimited(b) => ListCompatible(values, {a, b}) = values
    BY <1>0 DEF ListCompatible, Verdicts
  <2>3. ListCompatible(values, {a, b}) = "compatible" => values = "compatible" /\ LengthDelimited(a) /\ LengthDelimited(b)
    BY <1>0, ListVerdict
  <2> QED
    BY <1>1, <1>3, <2>1, <2>2, <2>3
<1> QED
  BY <1>2, <1>3

LEMMA FirmTransitive ==
  ASSUME NEW of, NEW old, NEW m, NEW mid, NEW nf, NEW new, Firm(m, mid),
         WireFieldsCompatible(of, old, m, mid) = "compatible",
         WireFieldsCompatible(m, mid, nf, new) = "compatible"
  PROVE  WireFieldsCompatible(of, old, nf, new) = "compatible"
<1> DEFINE a == ClassifyWireType(of.type, old)
           c == ClassifyWireType(m.type, mid)
           b == ClassifyWireType(nf.type, new)
<1>1. /\ of.card # "map" /\ m.card # "map"
      /\ of.card = m.card \/ ({of.card, m.card} = {"singular", "repeated"} /\ LengthDelimited(c))
  BY FirmCards
<1>2. /\ nf.card # "map"
      /\ nf.card = m.card \/ ({nf.card, m.card} = {"singular", "repeated"} /\ LengthDelimited(c))
  BY FirmCards
<1>3. {m.card, nf.card} = {nf.card, m.card}
  OBVIOUS
<1>4. WireTypesCompatible(of.type, old, m.type, mid) = "compatible"
  BY <1>1, PlainValues
<1>5. WireTypesCompatible(m.type, mid, nf.type, new) = "compatible"
  BY <1>1, <1>2, <1>3, PlainValues
<1>6. BothClasses(a, c) = "compatible" /\ BothClasses(c, b) = "compatible"
  BY <1>4, <1>5 DEF WireTypesCompatible
<1>7. /\ a = [c |-> a.c, n |-> a.n] /\ b = [c |-> b.c, n |-> b.n] /\ c = [c |-> c.c, n |-> c.n]
      /\ (a.c = "bytes" => a.n = <<>>) /\ (b.c = "bytes" => b.n = <<>>)
      /\ c.c \notin {"bytes", "message", "unresolved"}
  BY ClassifiedIsClass, BytesHaveNoName DEF Firm
<1> HIDE DEF a, b, c
<1>8. BothClasses(a, b) = "compatible" /\ (LengthDelimited(c) => LengthDelimited(a) /\ LengthDelimited(b))
  BY <1>6, <1>7, FirmClasses
<1>9. WireTypesCompatible(of.type, old, nf.type, new) = "compatible"
  BY <1>8 DEF a, b, WireTypesCompatible
<1>10. of.card = nf.card \/ ({of.card, nf.card} = {"singular", "repeated"} /\ LengthDelimited(c))
  BY <1>1, <1>2
<1> QED
  BY <1>1, <1>2, <1>8, <1>9, <1>10, PlainValues DEF a, b

-----------------------------------------------------------------------------
(* One accepted revision, declaration by declaration.                       *)

Kinds == {"messages", "enums"}

LEMMA DeclIsFirst ==
  ASSUME NEW decls, NEW path, HasDecl(decls, path)
  PROVE  /\ DeclOf(decls, path) \in ToSet(decls) /\ DeclOf(decls, path).path = path
         /\ \E j \in DOMAIN decls : IsFirst(decls, j, path) /\ DeclOf(decls, path) = decls[j]
<1>1. PICK j \in DOMAIN decls : IsFirst(decls, j, path)
  BY DEF HasDecl
<1>2. decls[j] \in ToSet(decls)
  BY DEF ToSet
<1>3. /\ DeclOf(decls, path) \in ToSet(decls)
      /\ \E k \in DOMAIN decls : IsFirst(decls, k, path) /\ DeclOf(decls, path) = decls[k]
  BY <1>1, <1>2 DEF DeclOf
<1> QED
  BY <1>3 DEF IsFirst

\* The declarations of a path are compared with each other.
LEMMA DeclsArePaired ==
  ASSUME NEW old, NEW new, NEW path, HasDecl(old, path), HasDecl(new, path)
  PROVE  <<DeclOf(old, path), DeclOf(new, path)>> \in Pairs(old, new)
<1>1. DeclOf(old, path) \in ToSet(old) /\ DeclOf(old, path).path = path
  BY DeclIsFirst
<1>2. PICK j \in DOMAIN new : IsFirst(new, j, path) /\ DeclOf(new, path) = new[j]
  BY DeclIsFirst
<1>3. DeclOf(new, path) \in ToSet(new)
  BY DeclIsFirst
<1> QED
  BY <1>1, <1>2, <1>3 DEF Pairs

LEMMA RemovedIsListed ==
  ASSUME NEW old, NEW new, NEW kind \in Kinds, NEW path, HasDecl(old[kind], path), ~HasDecl(new[kind], path)
  PROVE  path \in DiffWireSchemas(old, new).removed[kind]
<1> DEFINE pairs == Pairs(old[kind], new[kind])
<1>1. DiffWireSchemas(old, new).removed[kind] = Removed(old[kind], pairs)
  BY DEF DiffWireSchemas, Kinds
<1>2. \A p \in pairs : p[1].path # path
  BY DEF Pairs, HasDecl
<1>3. PICK m \in ToSet(old[kind]) : m.path = path
  BY DeclIsFirst
<1> QED
  BY <1>1, <1>2, <1>3 DEF Removed

LEMMA BreakingIsNotAccepted ==
  ASSUME NEW old, NEW new, Accepted(old, new), NEW x \in DiffWireSchemas(old, new).findings
  PROVE  x.level # "breaking"
BY DEF Accepted, Breaking

\* A field kept in silence keeps its name and a compatible type.
LEMMA SilentStep ==
  ASSUME NEW old, NEW new, NEW path, NEW n,
         UsesNumber(old.messages, path, n), UsesNumber(new.messages, path, n), Unsaid(old, new, path, n)
  PROVE  LET of == At(DeclOf(old.messages, path), n)
             nf == At(DeclOf(new.messages, path), n)
         IN of.name = nf.name /\ WireFieldsCompatible(of, old, nf, new) = "compatible"
<1> DEFINE om == DeclOf(old.messages, path)
           nm == DeclOf(new.messages, path)
           compat == WireFieldsCompatible(At(om, n), old, At(nm, n), new)
<1>1. <<om, nm>> \in Pairs(old.messages, new.messages) /\ n \in Numbers(om) /\ n \in Numbers(nm) /\ om.path = path
  BY DeclsArePaired, DeclIsFirst DEF UsesNumber
<1> HIDE DEF om, nm
<1>2. FieldFindings(om, old, nm, new, n) \subseteq DiffWireSchemas(old, new).findings
  BY <1>1, FieldFindingIsSaid
<1>3. FieldFindings(om, old, nm, new, n) = KeptFindings(om, nm, At(om, n), At(nm, n), n, compat)
  BY <1>1 DEF FieldFindings
<1>4. compat \in Verdicts
  BY CompatibleFields
<1>5. compat = "compatible" /\ At(nm, n).name = At(om, n).name
  BY <1>1, <1>2, <1>3, <1>4, SilentIsCompatible DEF Unsaid
<1> QED
  BY <1>5 DEF om, nm

\* A number that is given up is reserved, or its step is a door.
LEMMA GivenUpThroughDoor ==
  ASSUME NEW old, NEW new, Accepted(old, new), NEW kind \in Kinds, NEW path, NEW n,
         UsesNumber(old[kind], path, n), ~UsesNumber(new[kind], path, n)
  PROVE  ReservesNumber(new[kind], path, n) \/ Door(old, new, kind, path, n)
<1> DEFINE om == DeclOf(old[kind], path)
           nm == DeclOf(new[kind], path)
<1>1. CASE ~HasDecl(new[kind], path)
  BY <1>1, RemovedIsListed DEF UsesNumber, Door
<1>2. CASE HasDecl(new[kind], path) /\ ~ReservesNumber(new[kind], path, n)
  <2>1. /\ <<om, nm>> \in Pairs(old[kind], new[kind]) /\ om.path = path
        /\ n \in Numbers(om) /\ n \notin Numbers(nm)
    BY <1>2, DeclsArePaired, DeclIsFirst DEF UsesNumber
  <2>2. ~NumberReserved(nm, n)
    BY <1>2, <2>1 DEF ReservesNumber, NumberReserved, Covers
  <2>3. LeavesOpen(new[kind], path, n)
    BY <1>2 DEF LeavesOpen
  <2>4. CASE kind = "messages"
    <3>1. ASSUME ~NameReserved(nm, At(om, n).name) PROVE FALSE
      <4>1. FieldFindings(om, old, nm, new, n) = {Finding("breaking", "DeletedWithoutReserved", om.path, n)}
        BY <2>1, <2>2, <3>1 DEF FieldFindings
      <4>2. Finding("breaking", "DeletedWithoutReserved", om.path, n) \in DiffWireSchemas(old, new).findings
        BY <2>1, <2>4, <4>1, FieldFindingIsSaid
      <4> QED
        BY <4>2, BreakingIsNotAccepted DEF Finding
    <3> QED
      BY <2>3, <2>4, <3>1 DEF Door, NameAlone
  <2>5. CASE kind = "enums"
    <3>1. EnumFindings(om, nm, n) = {Finding("breaking", "EnumValueDeletedWithoutReserved", om.path, n)}
      BY <2>1, <2>2 DEF EnumFindings
    <3>2. Finding("breaking", "EnumValueDeletedWithoutReserved", om.path, n) \in DiffWireSchemas(old, new).findings
      BY <2>1, <2>5, <3>1, EnumFindingIsSaid
    <3> QED
      BY <3>2, BreakingIsNotAccepted DEF Finding
  <2> QED
    BY <2>4, <2>5 DEF Kinds
<1> QED
  BY <1>1, <1>2

\* So is one that was reserved and is not any more.
LEMMA LetGoThroughDoor ==
  ASSUME NEW old, NEW new, NEW kind \in Kinds, NEW path, NEW n,
         ReservesNumber(old[kind], path, n), ~UsesNumber(new[kind], path, n)
  PROVE  ReservesNumber(new[kind], path, n) \/ Door(old, new, kind, path, n)
<1>1. CASE ~HasDecl(new[kind], path)
  BY <1>1, RemovedIsListed DEF ReservesNumber, Door
<1>2. CASE HasDecl(new[kind], path)
  BY <1>2 DEF Door, LeavesOpen
<1> QED
  BY <1>1, <1>2

\* A number that is reserved is not used by an accepted revision.
LEMMA ReservedIsNotUsed ==
  ASSUME NEW old, NEW new, Accepted(old, new), NEW kind \in Kinds, NEW path, NEW n,
         ReservesNumber(old[kind], path, n), UsesNumber(new[kind], path, n)
  PROVE  FALSE
<1> DEFINE om == DeclOf(old[kind], path)
           nm == DeclOf(new[kind], path)
<1>1. /\ <<om, nm>> \in Pairs(old[kind], new[kind]) /\ n \in Numbers(nm) /\ n \notin Numbers(om)
      /\ NumberReserved(om, n)
  BY DeclsArePaired DEF UsesNumber, ReservesNumber, NumberReserved, Covers
<1> HIDE DEF om, nm
<1>2. \A rule : Finding("breaking", rule, om.path, n) \in Reused(om, nm, rule)
  BY <1>1 DEF Reused
<1>3. \E rule : Finding("breaking", rule, om.path, n) \in DiffWireSchemas(old, new).findings
  BY <1>1, <1>2, ReusedIsSaid DEF Kinds
<1> QED
  BY <1>3, BreakingIsNotAccepted DEF Finding

-----------------------------------------------------------------------------
(* The invariant of a history.  NumbersReturnByDoors speaks of numbers that *)
(* came back; of one that has not, the last revision still reserves it, or  *)
(* a door was taken since.                                                  *)

GoneIsReserved ==
  \A i \in DOMAIN history : \A kind \in Kinds : \A x \in NumbersIn(history[i].schema[kind]) :
    (UsesNumber(history[i].schema[kind], x[1], x[2]) /\ ~UsesNumber(Last(history).schema[kind], x[1], x[2])) =>
      \/ ReservesNumber(Last(history).schema[kind], x[1], x[2])
      \/ \E l \in i..(Len(history) - 1) : Door(history[l].schema, history[l + 1].schema, kind, x[1], x[2])
IsHistory == history # <<>> /\ \E S : history \in Seq(S)
HistoryInv == IsHistory /\ GoneIsReserved /\ SilenceCarries /\ NumbersReturnByDoors

LEMMA DoorsAt ==
  ASSUME NumbersReturnByDoors, NEW i \in DOMAIN history, NEW j \in DOMAIN history, NEW k \in DOMAIN history, i < j, j < k,
         NEW kind \in Kinds, NEW x \in NumbersIn(history[i].schema[kind]),
         UsesNumber(history[i].schema[kind], x[1], x[2]), ~UsesNumber(history[j].schema[kind], x[1], x[2]),
         UsesNumber(history[k].schema[kind], x[1], x[2])
  PROVE  \E l \in i..(k - 2) : Door(history[l].schema, history[l + 1].schema, kind, x[1], x[2])
BY DEF NumbersReturnByDoors, Kinds

LEMMA HistoryInit == RevisionsInit => HistoryInv
<1> SUFFICES ASSUME RevisionsInit PROVE HistoryInv
  OBVIOUS
<1>1. history \in Seq({Revised(FirstSchema)}) /\ history # <<>> /\ DOMAIN history = {1} /\ Len(history) = 1
  BY DEF RevisionsInit
<1>2. IsHistory
  BY <1>1 DEF IsHistory
<1>3. GoneIsReserved
  BY <1>1 DEF GoneIsReserved, Last
<1> QED
  BY <1>1, <1>2, <1>3 DEF HistoryInv, SilenceCarries, NumbersReturnByDoors

\* An accepted revision becomes the last of a longer history.
LEMMA SubmitAppends ==
  ASSUME IsHistory, NEW new, Submit(new)
  PROVE  /\ IsHistory'
         /\ Len(history) \in Nat \ {0} /\ DOMAIN history = 1..Len(history)
         /\ Len(history') = Len(history) + 1 /\ DOMAIN history' = 1..(Len(history) + 1)
         /\ \A i \in DOMAIN history : history'[i] = history[i]
         /\ history'[Len(history) + 1] = Revised(new) /\ Last(history)' = Revised(new)
         /\ Last(history) = history[Len(history)]
<1>1. PICK S : history \in Seq(S)
  BY DEF IsHistory
<1>2. history \in Seq(S \cup {Revised(new)})
  BY <1>1
<1>3. history' = Append(history, Revised(new))
  BY DEF Submit
<1> DEFINE r == Revised(new)
<1> HIDE DEF r
<1>4. history' \in Seq(S \cup {r}) /\ history' # <<>> /\ Len(history') = Len(history) + 1
  BY <1>2, <1>3 DEF r
<1>5. IsHistory'
  BY <1>4 DEF IsHistory
<1>6. Len(history) \in Nat \ {0}
  BY <1>1 DEF IsHistory
<1> QED
  BY <1>2, <1>3, <1>4, <1>5, <1>6 DEF Last, r

\* Fields kept in silence, one revision further.
LEMMA SilenceStep ==
  ASSUME HistoryInv, NEW new, Submit(new)
  PROVE  SilenceCarries'
<1> DEFINE L == Len(history)
<1>1. /\ L \in Nat \ {0} /\ DOMAIN history = 1..L /\ DOMAIN history' = 1..(L + 1)
      /\ \A i \in 1..L : history'[i] = history[i]
  BY SubmitAppends DEF HistoryInv
<1> HIDE DEF L
<1> SUFFICES ASSUME NEW i \in DOMAIN history', NEW k \in DOMAIN history', i < k,
                    NEW x \in NumbersIn(history'[i].schema.messages),
                    KeptSilently(i, k, x[1], x[2])', FirmBetween(i, k, x[1], x[2])'
             PROVE  ReadAlong(i, k, x[1], x[2])'
  BY DEF SilenceCarries
<1> DEFINE path == x[1]
           n == x[2]
           F(l) == FieldIn(l, path, n)
<1>2. i \in 1..L /\ history'[i] = history[i] /\ i \in Int /\ k \in Int
  BY <1>1
<1>3. CASE k \in 1..L
  <2>1. \A l \in i..k : history'[l] = history[l]
    BY <1>1, <1>2, <1>3
  <2>2. KeptSilently(i, k, path, n)
    <3>1. \A l \in i..(k - 1) : l \in i..k /\ l + 1 \in i..k
      BY <1>2
    <3> QED
      BY <2>1, <3>1 DEF KeptSilently
  <2>3. FirmBetween(i, k, path, n)
    <3>1. \A l \in (i + 1)..(k - 1) : l \in i..k
      BY <1>2
    <3> QED
      BY <2>1, <3>1 DEF FirmBetween, FieldIn
  <2>4. ReadAlong(i, k, path, n)
    BY <1>1, <1>2, <1>3, <2>2, <2>3 DEF HistoryInv, SilenceCarries
  <2> QED
    BY <1>1, <1>2, <1>3, <2>4 DEF ReadAlong, FieldIn
<1>4. CASE k = L + 1
  <2> DEFINE S(l) == history'[l].schema
             G(l) == At(DeclOf(S(l).messages, path), n)
  <2>1. \A l \in i..k : UsesNumber(S(l).messages, path, n)
    BY DEF KeptSilently
  <2>2. \A l \in i..(k - 1) : Unsaid(S(l), S(l + 1), path, n)
    BY DEF KeptSilently
  <2>3. L \in i..k /\ L + 1 \in i..k /\ L \in i..(k - 1)
    BY <1>1, <1>2, <1>4
  <2>4. G(L).name = G(L + 1).name /\ WireFieldsCompatible(G(L), S(L), G(L + 1), S(L + 1)) = "compatible"
    BY <2>1, <2>2, <2>3, SilentStep
  <2>5. G(i).name = G(k).name /\ WireFieldsCompatible(G(i), S(i), G(k), S(k)) = "compatible"
    <3>1. CASE i = L
      BY <1>4, <2>4, <3>1
    <3>2. CASE i < L
      <4>1. \A l \in i..L : history'[l] = history[l]
        BY <1>1, <1>2
      <4>2. KeptSilently(i, L, path, n)
        <5>1. \A l \in i..(L - 1) : l \in i..L /\ l + 1 \in i..L /\ l \in i..(k - 1)
          BY <1>1, <1>2, <1>4
        <5>2. \A l \in i..L : l \in i..k
          BY <1>1, <1>2, <1>4
        <5> QED
          BY <2>1, <2>2, <4>1, <5>1, <5>2 DEF KeptSilently
      <4>3. \A l \in (i + 1)..(k - 1) : Firm(G(l), S(l))
        BY DEF FirmBetween, FieldIn
      <4>4. FirmBetween(i, L, path, n)
        <5>1. \A l \in (i + 1)..(L - 1) : l \in i..L /\ l \in (i + 1)..(k - 1)
          BY <1>1, <1>2, <1>4
        <5> QED
          BY <4>1, <4>3, <5>1 DEF FirmBetween, FieldIn
      <4>5. ReadAlong(i, L, path, n)
        BY <1>1, <1>2, <3>2, <4>2, <4>4 DEF HistoryInv, SilenceCarries
      <4>6. G(i).name = G(L).name /\ WireFieldsCompatible(G(i), S(i), G(L), S(L)) = "compatible"
        BY <1>1, <1>2, <4>5 DEF ReadAlong, FieldIn
      <4>7. L \in (i + 1)..(k - 1)
        BY <1>1, <1>2, <1>4, <3>2
      <4>8. Firm(G(L), S(L))
        BY <4>3, <4>7
      <4> HIDE DEF S, G
      <4>9. WireFieldsCompatible(G(i), S(i), G(L + 1), S(L + 1)) = "compatible"
        BY <2>4, <4>6, <4>8, FirmTransitive
      <4> QED
        BY <1>4, <2>4, <4>6, <4>9
    <3> QED
      BY <1>1, <1>2, <3>1, <3>2
  <2> HIDE DEF S, G
  <2>6. BothReadable(G(i), S(i), G(k), S(k))
    BY <2>5, CompatibleFields
  <2> QED
    BY <2>5, <2>6 DEF ReadAlong, FieldIn, S, G
<1> QED
  BY <1>1, <1>3, <1>4

\* Numbers that were given up, one revision further.
LEMMA NumbersStep ==
  ASSUME HistoryInv, NEW new, Submit(new)
  PROVE  GoneIsReserved' /\ NumbersReturnByDoors'
<1> DEFINE L == Len(history)
           old == history[L].schema
           now == WireSchema(new)
           U(l, kind, x) == UsesNumber(history[l].schema[kind], x[1], x[2])
           V(l, kind, x) == UsesNumber(history'[l].schema[kind], x[1], x[2])
           D(l, kind, x) == Door(history[l].schema, history[l + 1].schema, kind, x[1], x[2])
           E(l, kind, x) == Door(history'[l].schema, history'[l + 1].schema, kind, x[1], x[2])
<1>1. /\ L \in Nat \ {0} /\ DOMAIN history = 1..L /\ Len(history') = L + 1 /\ DOMAIN history' = 1..(L + 1)
      /\ \A i \in 1..L : history'[i] = history[i]
      /\ history'[L + 1].schema = now /\ Last(history)'.schema = now /\ Last(history) = history[L]
      /\ history'[L] = history[L]
  <2> DEFINE r == Revised(new)
  <2>1. r.schema = now
    BY DEF Revised
  <2> HIDE DEF r, now
  <2>2. /\ L \in Nat \ {0} /\ DOMAIN history = 1..L /\ Len(history') = L + 1 /\ DOMAIN history' = 1..(L + 1)
        /\ \A i \in 1..L : history'[i] = history[i]
        /\ history'[L + 1] = r /\ Last(history)' = r /\ Last(history) = history[L]
    BY SubmitAppends DEF HistoryInv, r
  <2>3. L \in 1..L
    BY <2>2
  <2> QED
    BY <2>1, <2>2, <2>3
<1>2. Accepted(old, now)
  <2>1. Accepted(Last(history).schema, now)
    BY DEF Submit
  <2> QED
    BY <1>1, <2>1
<1> HIDE DEF L, now
<1>3. \A i, l \in 1..L : \A kind, x : (l \in i..(L - 1) => (D(l, kind, x) <=> E(l, kind, x))) /\ (U(i, kind, x) <=> V(i, kind, x))
  <2> SUFFICES ASSUME NEW i \in 1..L, NEW l \in 1..L, NEW kind, NEW x
               PROVE  (l \in i..(L - 1) => (D(l, kind, x) <=> E(l, kind, x))) /\ (U(i, kind, x) <=> V(i, kind, x))
    OBVIOUS
  <2>1. l \in i..(L - 1) => l + 1 \in 1..L
    BY <1>1
  <2> QED
    BY <1>1, <2>1
<1>4. \A kind, x : E(L, kind, x) <=> Door(old, now, kind, x[1], x[2])
  BY <1>1
<1>5. ASSUME NEW i \in 1..L, NEW kind \in Kinds, NEW x \in NumbersIn(history[i].schema[kind]), U(i, kind, x), ~U(L, kind, x)
      PROVE  ReservesNumber(old[kind], x[1], x[2]) \/ \E l \in i..(L - 1) : E(l, kind, x)
  <2>1. ReservesNumber(old[kind], x[1], x[2]) \/ \E l \in i..(L - 1) : D(l, kind, x)
    BY <1>1, <1>5 DEF HistoryInv, GoneIsReserved, L
  <2>2. \A l \in i..(L - 1) : l \in 1..L
    BY <1>1
  <2> QED
    BY <1>3, <2>1, <2>2
<1>6. \A i \in 1..L : \A l \in i..(L - 1) : l \in i..L
  BY <1>1
<1>7. ASSUME NEW i \in 1..L, NEW kind \in Kinds, NEW x \in NumbersIn(history[i].schema[kind]), U(i, kind, x),
             ~UsesNumber(now[kind], x[1], x[2])
      PROVE  ReservesNumber(now[kind], x[1], x[2]) \/ \E l \in i..L : E(l, kind, x)
  <2>0. L \in i..L
    BY <1>1
  <2>1. CASE U(L, kind, x)
    <3>1. ReservesNumber(now[kind], x[1], x[2]) \/ Door(old, now, kind, x[1], x[2])
      BY <1>2, <1>7, <2>1, GivenUpThroughDoor
    <3> QED
      BY <1>4, <2>0, <3>1
  <2>2. CASE ReservesNumber(old[kind], x[1], x[2])
    <3>1. ReservesNumber(now[kind], x[1], x[2]) \/ Door(old, now, kind, x[1], x[2])
      BY <1>7, <2>2, LetGoThroughDoor
    <3> QED
      BY <1>4, <2>0, <3>1
  <2>3. CASE \E l \in i..(L - 1) : E(l, kind, x)
    BY <1>6, <2>3
  <2> QED
    BY <1>5, <1>7, <2>1, <2>2, <2>3
<1>8. GoneIsReserved'
  <2> SUFFICES ASSUME NEW i \in DOMAIN history', NEW kind \in Kinds, NEW x \in NumbersIn(history'[i].schema[kind]),
                      V(i, kind, x), ~UsesNumber(now[kind], x[1], x[2])
               PROVE  ReservesNumber(now[kind], x[1], x[2]) \/ \E l \in i..L : E(l, kind, x)
    BY <1>1 DEF GoneIsReserved
  <2>1. i \in 1..L
    <3>1. CASE i = L + 1
      BY <1>1, <3>1
    <3> QED
      BY <1>1, <3>1
  <2> QED
    BY <1>1, <1>3, <1>7, <2>1
<1>9. NumbersReturnByDoors'
  <2> SUFFICES ASSUME NEW i \in DOMAIN history', NEW j \in DOMAIN history', NEW k \in DOMAIN history', i < j, j < k,
                      NEW kind \in Kinds, NEW x \in NumbersIn(history'[i].schema[kind]),
                      V(i, kind, x), ~V(j, kind, x), V(k, kind, x)
               PROVE  \E l \in i..(k - 2) : E(l, kind, x)
    BY DEF NumbersReturnByDoors, Kinds
  <2>1. i \in 1..L /\ j \in 1..L /\ i \in Int /\ j \in Int /\ k \in Int /\ x \in NumbersIn(history[i].schema[kind])
    BY <1>1
  <2>2. U(i, kind, x) /\ ~U(j, kind, x)
    BY <1>3, <2>1
  <2>3. ASSUME NEW h \in 1..L, j < h, U(h, kind, x)
        PROVE  \E l \in i..(h - 2) : E(l, kind, x)
    <3>0. i \in DOMAIN history /\ j \in DOMAIN history /\ h \in DOMAIN history
      BY <1>1, <2>1
    <3>1. \E l \in i..(h - 2) : D(l, kind, x)
      BY <2>1, <2>2, <2>3, <3>0, DoorsAt DEF HistoryInv
    <3>2. \A l \in i..(h - 2) : l \in 1..L /\ l \in i..(L - 1)
      BY <1>1, <2>1, <2>3
    <3> QED
      BY <1>3, <2>1, <3>1, <3>2
  <2>4. CASE k \in 1..L
    BY <1>3, <2>1, <2>3, <2>4
  <2>5. CASE k = L + 1
    <3>1. UsesNumber(now[kind], x[1], x[2])
      BY <1>1, <2>5
    <3>2. \A l \in i..(L - 2) : l \in i..(k - 2)
      BY <1>1, <2>1, <2>5
    <3>3. CASE U(L, kind, x)
      <4>1. j # L
        BY <2>2, <3>3
      <4>2. \E l \in i..(L - 2) : E(l, kind, x)
        BY <1>1, <2>1, <2>3, <3>3, <4>1
      <4> QED
        BY <3>2, <4>2
    <3>4. CASE ~U(L, kind, x)
      <4>1. ~ReservesNumber(old[kind], x[1], x[2])
        BY <1>2, <3>1, ReservedIsNotUsed
      <4>2. L - 1 = k - 2
        BY <1>1, <2>5
      <4> QED
        BY <1>5, <2>1, <2>2, <3>4, <4>1, <4>2
    <3> QED
      BY <3>3, <3>4
  <2> QED
    BY <1>1, <2>4, <2>5
<1> QED
  BY <1>8, <1>9

(* Revisions accepted one by one, taken together, for any first file, any   *)
(* edits and any number of revisions: what the check is silent about is     *)
(* readable both ways between any two of them, and from the first to the    *)
(* last of a silent run through firm types; and a number that was given up  *)
(* comes back only after one of the three doors was taken                   *)
(* (`diff_wire_schemas`, `diff_wire_enums`).                                *)
THEOREM SchemaStepsAlwaysSafe == RevisionsSpec => []SchemaStepsSafe
<1>1. HistoryInv /\ [RevisionsNext]_history => HistoryInv'
  <2> SUFFICES ASSUME HistoryInv, [RevisionsNext]_history PROVE HistoryInv'
    OBVIOUS
  <2>1. CASE UNCHANGED history
    <3>1. IsHistory'
      BY <2>1 DEF HistoryInv, IsHistory
    <3>2. GoneIsReserved'
      BY <2>1 DEF HistoryInv, GoneIsReserved
    <3>3. SilenceCarries'
      BY <2>1 DEF HistoryInv, SilenceCarries, KeptSilently, FirmBetween, ReadAlong, FieldIn
    <3>4. NumbersReturnByDoors'
      BY <2>1 DEF HistoryInv, NumbersReturnByDoors
    <3> QED
      BY <3>1, <3>2, <3>3, <3>4 DEF HistoryInv
  <2>2. CASE RevisionsNext
    <3>1. PICK new : Submit(new)
      BY <2>2 DEF RevisionsNext, Revision
    <3>2. IsHistory'
      BY <3>1, SubmitAppends DEF HistoryInv
    <3> QED
      BY <3>1, <3>2, SilenceStep, NumbersStep DEF HistoryInv
  <2> QED
    BY <2>1, <2>2
<1>2. HistoryInv => SchemaStepsSafe
  BY SilenceIsReadable DEF HistoryInv, SchemaStepsSafe, SilentIsReadable
<1> QED
  BY <1>1, <1>2, HistoryInit, PTL DEF RevisionsSpec

-----------------------------------------------------------------------------
(* Aliases: what governs a directory.                                       *)

Dir == Seq(STRING)

LEMMA PrefixPointwise ==
  ASSUME NEW s \in Dir, NEW t \in Dir
  PROVE  IsPrefix(s, t) <=> Len(s) <= Len(t) /\ \A i \in 1..Len(s) : s[i] = t[i]
<1>1. CASE ~(Len(s) <= Len(t))
  BY <1>1 DEF IsPrefix, Dir
<1>2. CASE Len(s) <= Len(t)
  <2>1. SubSeq(s, 1, Len(s)) \in Seq(STRING) /\ SubSeq(t, 1, Len(s)) \in Seq(STRING)
        /\ Len(SubSeq(s, 1, Len(s))) = Len(s) /\ Len(SubSeq(t, 1, Len(s))) = Len(s)
        /\ \A i \in 1..Len(s) : SubSeq(s, 1, Len(s))[i] = s[i] /\ SubSeq(t, 1, Len(s))[i] = t[i]
    BY <1>2 DEF Dir
  <2>2. SubSeq(s, 1, Len(s)) = SubSeq(t, 1, Len(s)) <=> \A i \in 1..Len(s) : s[i] = t[i]
    BY <2>1, SeqEqual
  <2> QED
    BY <1>2, <2>2 DEF IsPrefix
<1> QED
  BY <1>1, <1>2

LEMMA JailOver ==
  ASSUME NEW d \in Dir, NEW jail \in JailOf(d)
  PROVE  /\ jail \in Dir /\ jail \in Roots /\ Len(jail) <= Len(d) /\ \A i \in 1..Len(jail) : jail[i] = d[i]
         /\ \A r \in RootsOver(d) : r \in Dir /\ Len(r) <= Len(jail)
BY AliasAssumption, PrefixPointwise DEF JailOf, RootsOver, Dir

LEMMA OneJail ==
  ASSUME NEW d \in Dir, NEW j \in JailOf(d), NEW k \in JailOf(d)
  PROVE  j = k
<1>1. /\ j \in Dir /\ k \in Dir /\ Len(j) = Len(k) /\ Len(j) \in Nat
      /\ \A i \in 1..Len(j) : j[i] = k[i]
  <2>1. j \in RootsOver(d) /\ k \in RootsOver(d)
    BY DEF JailOf
  <2> QED
    BY <2>1, JailOver DEF Dir
<1> QED
  BY <1>1, SeqEqual DEF Dir

(* Leaving a directory that is not its root for the one above.              *)
LEMMA UpFromBelow ==
  ASSUME NEW d \in Dir, NEW jail \in JailOf(d), d # jail
  PROVE  /\ Len(d) \in Nat /\ Len(jail) \in Nat /\ Len(jail) < Len(d)
         /\ DirOf(d) \in Dir /\ Len(DirOf(d)) = Len(d) - 1
         /\ \A n \in 0..(Len(d) - 1) : SubSeq(DirOf(d), 1, n) = SubSeq(d, 1, n)
         /\ \A i \in 1..(Len(d) - 1) : DirOf(d)[i] = d[i]
<1>1. Len(d) \in Nat /\ Len(jail) \in Nat /\ Len(jail) <= Len(d)
  BY JailOver DEF Dir
<1>2. Len(jail) # Len(d)
  <2> SUFFICES ASSUME Len(jail) = Len(d) PROVE jail = d
    OBVIOUS
  <2> QED
    BY JailOver, SeqEqual DEF Dir
<1>3. DirOf(d) = SubSeq(d, 1, Len(d) - 1)
  BY DEF DirOf, Front
<1>4. DirOf(d) \in Seq(STRING) /\ Len(DirOf(d)) = Len(d) - 1 /\ \A i \in 1..(Len(d) - 1) : DirOf(d)[i] = d[i]
  <2>1. Len(d) - 1 \in Nat /\ d \in Seq(STRING)
    BY <1>1, <1>2 DEF Dir
  <2>2. PICK n \in Nat : n = Len(d) - 1
    BY <2>1
  <2>3. \A i \in 1..n : d[i] \in STRING
    BY <1>1, <2>1, <2>2
  <2>4. /\ SubSeq(d, 1, n) \in Seq(STRING)
        /\ Len(SubSeq(d, 1, n)) = IF 1 <= n THEN n - 1 + 1 ELSE 0
        /\ \A i \in 1..(n - 1 + 1) : SubSeq(d, 1, n)[i] = d[1 + i - 1]
    BY <2>3, SubSeqProperties
  <2>5. n - 1 + 1 = n /\ \A i \in 1..n : 1 + i - 1 = i
    BY <2>2
  <2>6. Len(SubSeq(d, 1, n)) = n
    <3> DEFINE l == Len(SubSeq(d, 1, n))
    <3>1. l = IF 1 <= n THEN n - 1 + 1 ELSE 0
      BY <2>4
    <3>2. n \in Nat
      BY <2>2
    <3> HIDE DEF l
    <3>3. l = n
      BY ONLY <3>1, <3>2
    <3> QED
      BY <3>3 DEF l
  <2>7. \A i \in 1..n : SubSeq(d, 1, n)[i] = d[i]
    BY <2>4, <2>5
  <2> QED
    BY <1>3, <2>2, <2>4, <2>6, <2>7
<1>5. ASSUME NEW n \in 0..(Len(d) - 1) PROVE SubSeq(DirOf(d), 1, n) = SubSeq(d, 1, n)
  <2>1. /\ SubSeq(DirOf(d), 1, n) \in Seq(STRING) /\ SubSeq(d, 1, n) \in Seq(STRING)
        /\ Len(SubSeq(DirOf(d), 1, n)) = n /\ Len(SubSeq(d, 1, n)) = n
        /\ \A i \in 1..n : SubSeq(DirOf(d), 1, n)[i] = d[i] /\ SubSeq(d, 1, n)[i] = d[i]
    BY <1>1, <1>4 DEF Dir
  <2> QED
    BY <2>1, SeqEqual
<1> QED
  BY <1>1, <1>2, <1>4, <1>5 DEF Dir

LEMMA UpSameJail ==
  ASSUME NEW d \in Dir, NEW jail \in JailOf(d), d # jail
  PROVE  JailOf(DirOf(d)) = JailOf(d)
<1>1. ASSUME NEW r \in RootsOver(d) PROVE r \in RootsOver(DirOf(d))
  BY <1>1, UpFromBelow, JailOver, PrefixPointwise DEF RootsOver, Dir
<1>2. ASSUME NEW r \in RootsOver(DirOf(d)) PROVE r \in RootsOver(d)
  <2>1. r \in Roots /\ r \in Dir
    BY AliasAssumption DEF RootsOver, Dir
  <2>2. Len(r) \in Nat /\ Len(r) <= Len(d) - 1 /\ \A i \in 1..Len(r) : r[i] = DirOf(d)[i]
    BY <2>1, UpFromBelow, PrefixPointwise DEF RootsOver, Dir
  <2>3. Len(r) <= Len(d) /\ \A i \in 1..Len(r) : r[i] = d[i]
    BY <2>2, UpFromBelow
  <2> QED
    BY <2>1, <2>3, PrefixPointwise DEF RootsOver
<1>3. RootsOver(DirOf(d)) = RootsOver(d)
  BY <1>1, <1>2
<1> QED
  BY <1>3 DEF JailOf

LEMMA ReachSelf ==
  ASSUME NEW d \in Dir, NEW jail \in JailOf(d)
  PROVE  d \in Reach(d, jail) /\ \A e \in Reach(d, jail) : e \in Dir /\ Len(e) \in Nat /\ (e = d \/ Len(e) < Len(d))
<1>1. Len(d) \in Nat /\ Len(jail) \in Nat /\ Len(jail) <= Len(d)
  BY JailOver DEF Dir
<1>2. SubSeq(d, 1, Len(d)) = d
  BY <1>1, SeqEqual DEF Dir
<1>3. ASSUME NEW n \in Len(jail)..Len(d) PROVE SubSeq(d, 1, n) \in Seq(STRING) /\ Len(SubSeq(d, 1, n)) = n
  BY SMTT(30), <1>1 DEF Dir
<1>4. d \in Reach(d, jail)
  <2>1. Len(d) \in Len(jail)..Len(d)
    BY SMTT(30), <1>1
  <2> QED
    BY <1>2, <2>1 DEF Reach
<1>5. ASSUME NEW e \in Reach(d, jail) PROVE e \in Dir /\ Len(e) \in Nat /\ (e = d \/ Len(e) < Len(d))
  <2>1. PICK n \in Len(jail)..Len(d) : e = SubSeq(d, 1, n)
    BY DEF Reach
  <2>2. n \in Nat /\ (n = Len(d) \/ n < Len(d))
    BY <1>1
  <2> QED
    BY <1>2, <1>3, <2>1, <2>2 DEF Dir
<1> QED
  BY <1>4, <1>5

LEMMA GoverningBy ==
  ASSUME NEW d \in Dir, NEW jail \in JailOf(d), NEW what
  PROVE  Governing(d, what) = UNION {Load(e, jail, what) : e \in NearestTo(d, jail, what)}
<1>1. JailOf(d) = {jail}
  BY OneJail
<1>2. Governing(d, what) = UNION {UNION {Load(e, j, what) : e \in NearestTo(d, j, what)} : j \in {jail}}
  BY <1>1 DEF Governing
<1> QED
  BY <1>2

(* Three ways for a climb to go on from a directory.                        *)
LEMMA UpSameGoverning ==
  ASSUME NEW d \in Dir, NEW jail \in JailOf(d), d # jail, NEW what, Load(d, jail, what) = {}
  PROVE  Governing(DirOf(d), what) = Governing(d, what)
<1> DEFINE up == DirOf(d)
<1>1. JailOf(up) = JailOf(d)
  BY UpSameJail
<1>2. Reach(d, jail) = Reach(up, jail) \cup {d}
  <2>1. ASSUME NEW e \in Reach(d, jail) PROVE e \in Reach(up, jail) \cup {d}
    <3>1. PICK n \in Len(jail)..Len(d) : e = SubSeq(d, 1, n)
      BY DEF Reach
    <3>2. CASE n = Len(d)
      BY <3>1, <3>2, SeqEqual, UpFromBelow DEF Dir
    <3>3. CASE n < Len(d)
      BY <3>1, <3>3, UpFromBelow DEF Reach
    <3> QED
      BY <3>2, <3>3, UpFromBelow
  <2>2. Reach(up, jail) \subseteq Reach(d, jail)
    BY UpFromBelow DEF Reach
  <2> QED
    BY <2>1, <2>2, ReachSelf
<1>3. Holding(d, jail, what) = Holding(up, jail, what)
  BY <1>2 DEF Holding
<1>4. NearestTo(d, jail, what) = NearestTo(up, jail, what)
  BY <1>3 DEF NearestTo
<1>5. up \in Dir /\ jail \in JailOf(up)
  BY <1>1, UpFromBelow
<1> HIDE DEF up
<1>6. Governing(up, what) = UNION {Load(e, jail, what) : e \in NearestTo(up, jail, what)}
  BY <1>5, GoverningBy
<1>7. Governing(d, what) = UNION {Load(e, jail, what) : e \in NearestTo(d, jail, what)}
  BY GoverningBy
<1> QED
  BY <1>4, <1>6, <1>7 DEF up

LEMMA GovernedAsSaid ==
  ASSUME NEW d \in Dir, NEW jail \in JailOf(d), NEW what, Load(d, jail, what) # {}
  PROVE  Governing(d, what) = Load(d, jail, what)
<1>1. d \in Holding(d, jail, what) /\ \A e \in Holding(d, jail, what) : Len(e) \in Nat /\ (e = d \/ Len(e) < Len(d))
  BY ReachSelf DEF Holding
<1>2. NearestTo(d, jail, what) = {d}
  BY <1>1 DEF NearestTo
<1>3. Governing(d, what) = UNION {Load(e, jail, what) : e \in NearestTo(d, jail, what)}
  BY GoverningBy
<1> QED
  BY <1>2, <1>3

LEMMA GovernedByNone ==
  ASSUME NEW d \in Dir, d \in JailOf(d), NEW what
  PROVE  Governing(d, what) = Load(d, d, what)
<1>1. CASE Load(d, d, what) # {}
  BY <1>1, GovernedAsSaid
<1>2. CASE Load(d, d, what) = {}
  <2>1. Reach(d, d) = {d}
    <3>1. Len(d) \in Nat /\ Len(d)..Len(d) = {Len(d)} /\ SubSeq(d, 1, Len(d)) = d
      BY SeqEqual DEF Dir
    <3> QED
      BY <3>1 DEF Reach
  <2>2. NearestTo(d, d, what) = {}
    BY <1>2, <2>1 DEF NearestTo, Holding
  <2>3. Governing(d, what) = UNION {Load(e, d, what) : e \in NearestTo(d, d, what)}
    BY GoverningBy
  <2> QED
    BY <1>2, <2>2, <2>3
<1> QED
  BY <1>1, <1>2

-----------------------------------------------------------------------------
(* The inductive invariant of the lookups: a lookup stands at a directory   *)
(* that has the same root as the one it began at and is governed by the     *)
(* same config; so is every directory it has climbed; and what is           *)
(* remembered of a directory, whoever put it there, is what governs it.     *)

AliasKinds == {"ts", "pkg"}
MemosRight(ms) ==
  /\ ms = [what \in AliasKinds |-> ms[what]]
  /\ \A what \in AliasKinds : \A d \in DOMAIN ms[what] : ms[what][d] = Governing(d, what)
ClimbRecord(c) ==
  c = [phase |-> c.phase, script |-> c.script, spec |-> c.spec, jail |-> c.jail, what |-> c.what, at |-> c.at,
       climbed |-> c.climbed, found |-> c.found, ts |-> c.ts]
OnTheWay(c) ==
  /\ c.script \in AliasScripts /\ c.what \in AliasKinds
  /\ c.jail \in JailOf(DirOf(c.script))
  /\ c.at \in Dir /\ c.jail \in JailOf(c.at)
  /\ Governing(c.at, c.what) = GovernedBy(c.script, c.what)
  /\ \A d \in c.climbed : Governing(d, c.what) = GovernedBy(c.script, c.what)
  /\ c.phase = "store" => c.found = GovernedBy(c.script, c.what)
  /\ c.what = "pkg" => c.ts = GovernedBy(c.script, "ts")
ClimbRight(c) == c = Idle \/ (c.phase # "idle" /\ ClimbRecord(c) /\ OnTheWay(c))
ClimbsRight(cs) == cs = [w \in Scanners |-> cs[w]] /\ \A w \in Scanners : ClimbRight(cs[w])
AnswerRight(a) == a = Answer(a.script, a.spec, GovernedBy(a.script, "ts"), GovernedBy(a.script, "pkg"))
AnswersRight(answers) == (\E S : answers \in Seq(S)) /\ \A n \in DOMAIN answers : AnswerRight(answers[n])
AliasInv == MemosRight(memos) /\ ClimbsRight(climbs) /\ AnswersRight(asked)

LEMMA DirIsDir == \A s \in Seq(STRING) : DirOf(s) \in Dir
<1> SUFFICES ASSUME NEW s \in Seq(STRING) PROVE SubSeq(s, 1, Len(s) - 1) \in Seq(STRING)
  BY DEF DirOf, Front, Dir
<1>0. Len(s) \in Nat /\ Len(s) - 1 \in Int
  OBVIOUS
<1>1. PICK n \in Int : n = Len(s) - 1
  BY <1>0
<1>2. \A i \in 1..n : s[i] \in STRING
  BY <1>1
<1> QED
  BY <1>1, <1>2, SubSeqProperties

LEMMA OneClimbMoves ==
  ASSUME NEW cs, ClimbsRight(cs), NEW w \in Scanners, NEW c, ClimbRight(c)
  PROVE  ClimbsRight([cs EXCEPT ![w] = c])
BY DEF ClimbsRight

LEMMA AppendInWider ==
  ASSUME NEW S, NEW seq \in Seq(S), NEW last
  PROVE  /\ Append(seq, last) \in Seq(S \cup {last}) /\ Len(seq) \in Nat
         /\ DOMAIN seq = 1..Len(seq) /\ DOMAIN Append(seq, last) = 1..(Len(seq) + 1)
         /\ \A n \in 1..Len(seq) : Append(seq, last)[n] = seq[n]
         /\ Append(seq, last)[Len(seq) + 1] = last
<1>1. seq \in Seq(S \cup {last})
  OBVIOUS
<1> QED
  BY <1>1

LEMMA OneMoreAnswer ==
  ASSUME NEW answers, AnswersRight(answers), NEW answer, AnswerRight(answer)
  PROVE  AnswersRight(Append(answers, answer))
<1>1. PICK S : answers \in Seq(S)
  BY DEF AnswersRight
<1>2. /\ Append(answers, answer) \in Seq(S \cup {answer}) /\ Len(answers) \in Nat
      /\ DOMAIN answers = 1..Len(answers) /\ DOMAIN Append(answers, answer) = 1..(Len(answers) + 1)
      /\ \A n \in 1..Len(answers) : Append(answers, answer)[n] = answers[n]
      /\ Append(answers, answer)[Len(answers) + 1] = answer
  BY <1>1, AppendInWider
<1>3. ASSUME NEW n \in DOMAIN Append(answers, answer) PROVE AnswerRight(Append(answers, answer)[n])
  <2>1. n \in Nat /\ (n = Len(answers) + 1 \/ n \in 1..Len(answers))
    BY <1>2
  <2>2. CASE n = Len(answers) + 1
    BY <1>2, <2>2
  <2>3. CASE n \in 1..Len(answers)
    BY <1>2, <2>3 DEF AnswersRight
  <2> QED
    BY <2>1, <2>2, <2>3
<1> QED
  BY <1>2, <1>3 DEF AnswersRight

LEMMA AnswersAreRight ==
  ASSUME NEW script, NEW spec
  PROVE  AnswerRight(Answer(script, spec, GovernedBy(script, "ts"), GovernedBy(script, "pkg")))
BY DEF AnswerRight, Answer

LEMMA StartIsRight ==
  ASSUME NEW script \in AliasScripts, NEW spec, NEW jail \in JailOf(DirOf(script)), NEW what \in AliasKinds, NEW ts,
         what = "pkg" => ts = GovernedBy(script, "ts")
  PROVE  ClimbRight(StartOf(script, spec, jail, what, ts))
<1>1. DirOf(script) \in Dir
  BY AliasAssumption, DirIsDir
<1> DEFINE s == StartOf(script, spec, jail, what, ts)
<1>2. /\ s.phase = "climb" /\ s.script = script /\ s.jail = jail /\ s.what = what /\ s.at = DirOf(script)
      /\ s.climbed = {} /\ s.ts = ts
  BY DEF StartOf
<1>3. ClimbRecord(s)
  BY DEF ClimbRecord, StartOf
<1> HIDE DEF s
<1>4. OnTheWay(s)
  BY <1>1, <1>2 DEF OnTheWay, GovernedBy
<1> QED
  BY <1>2, <1>3, <1>4 DEF ClimbRight, s

LEMMA EndIsRight ==
  ASSUME NEW c, ClimbRight(c), c.phase = "climb", NEW found, NEW climbed,
         found = GovernedBy(c.script, c.what),
         \A d \in climbed : Governing(d, c.what) = GovernedBy(c.script, c.what)
  PROVE  ClimbRight(Ended(c, found, climbed))
<1>0. ClimbRecord(c) /\ OnTheWay(c)
  BY DEF ClimbRight, Idle
<1> DEFINE e1 == [c EXCEPT !.phase = "store"]
           e2 == [e1 EXCEPT !.found = found]
           e == [e2 EXCEPT !.climbed = climbed]
<1>1. e1 = [phase |-> "store", script |-> c.script, spec |-> c.spec, jail |-> c.jail, what |-> c.what, at |-> c.at,
            climbed |-> c.climbed, found |-> c.found, ts |-> c.ts]
  BY <1>0 DEF ClimbRecord
<1> HIDE DEF e1
<1>2. e2 = [phase |-> "store", script |-> c.script, spec |-> c.spec, jail |-> c.jail, what |-> c.what, at |-> c.at,
            climbed |-> c.climbed, found |-> found, ts |-> c.ts]
  BY <1>1
<1> HIDE DEF e2
<1>3. e = [phase |-> "store", script |-> c.script, spec |-> c.spec, jail |-> c.jail, what |-> c.what, at |-> c.at,
           climbed |-> climbed, found |-> found, ts |-> c.ts]
  BY <1>2
<1>4. e = Ended(c, found, climbed)
  BY DEF Ended, e1, e2
<1> HIDE DEF e
<1>5. ClimbRecord(e)
  BY <1>3 DEF ClimbRecord
<1>6. OnTheWay(e)
  BY <1>0, <1>3 DEF OnTheWay
<1> QED
  BY <1>3, <1>4, <1>5, <1>6 DEF ClimbRight

LEMMA UpIsRight ==
  ASSUME NEW c, ClimbRight(c), c.phase = "climb", LoadHere(c) = {}, c.at # c.jail
  PROVE  ClimbRight(UpFrom(c))
<1>0. ClimbRecord(c) /\ OnTheWay(c)
  BY DEF ClimbRight, Idle
<1> DEFINE climbed == c.climbed \cup {c.at}
           e1 == [c EXCEPT !.climbed = climbed]
           e == [e1 EXCEPT !.at = DirOf(c.at)]
<1> HIDE DEF climbed
<1>1. e1 = [phase |-> c.phase, script |-> c.script, spec |-> c.spec, jail |-> c.jail, what |-> c.what, at |-> c.at,
            climbed |-> climbed, found |-> c.found, ts |-> c.ts]
  BY <1>0 DEF ClimbRecord
<1> HIDE DEF e1
<1>2. e = [phase |-> c.phase, script |-> c.script, spec |-> c.spec, jail |-> c.jail, what |-> c.what, at |-> DirOf(c.at),
           climbed |-> climbed, found |-> c.found, ts |-> c.ts]
  BY <1>1
<1>3. e = UpFrom(c)
  BY DEF UpFrom, e1, climbed
<1> HIDE DEF e
<1>4. ClimbRecord(e)
  BY <1>2 DEF ClimbRecord
<1>5. DirOf(c.at) \in Dir /\ JailOf(DirOf(c.at)) = JailOf(c.at) /\ Governing(DirOf(c.at), c.what) = Governing(c.at, c.what)
  BY <1>0, UpFromBelow, UpSameJail, UpSameGoverning DEF OnTheWay, LoadHere
<1>6. OnTheWay(e)
  BY <1>0, <1>2, <1>5 DEF OnTheWay, climbed
<1> QED
  BY <1>2, <1>3, <1>4, <1>6 DEF ClimbRight

LEMMA StoringKeepsRight ==
  ASSUME AliasInv, NEW w \in Scanners, NEW what, Storing(w, what)
  PROVE  MemosRight(memos') /\ OnTheWay(climbs[w]) /\ climbs[w].found = GovernedBy(climbs[w].script, what) /\ climbs[w].what = what
<1> DEFINE c == climbs[w]
<1>1. OnTheWay(c) /\ c.what = what /\ c.found = GovernedBy(c.script, what) /\ what \in AliasKinds
  BY DEF AliasInv, ClimbsRight, ClimbRight, OnTheWay, Storing, Idle
<1>2. \A d \in c.climbed : Governing(d, what) = c.found
  BY <1>1 DEF OnTheWay
<1> DEFINE m == memos[what]
           r == Remembered(m, c)
<1>3. memos' = [memos EXCEPT ![what] = r]
  BY DEF Storing
<1>4. \A d \in DOMAIN m : m[d] = Governing(d, what)
  BY <1>1 DEF AliasInv, MemosRight
<1> HIDE DEF c, m
<1>5. \A d \in DOMAIN r : r[d] = Governing(d, what)
  BY <1>2, <1>4 DEF Remembered
<1> HIDE DEF r
<1>6. MemosRight(memos')
  BY <1>1, <1>3, <1>5 DEF AliasInv, MemosRight
<1> QED
  BY <1>1, <1>6 DEF c

LEMMA AliasStarts == AliasInit => AliasInv
<1> SUFFICES ASSUME AliasInit PROVE AliasInv
  OBVIOUS
<1>1. MemosRight(memos)
  BY DEF AliasInit, MemosRight, AliasKinds
<1>2. ClimbsRight(climbs)
  BY DEF AliasInit, ClimbsRight, ClimbRight
<1>3. AnswersRight(asked)
  <2>1. asked \in Seq({}) /\ DOMAIN asked = {}
    BY DEF AliasInit
  <2> QED
    BY <2>1 DEF AnswersRight
<1> QED
  BY <1>1, <1>2, <1>3 DEF AliasInv

LEMMA AliasSteps ==
  ASSUME AliasInv, NEW w \in Scanners, Asking(w) \/ LookingUp(w)
  PROVE  AliasInv'
<1> SUFFICES MemosRight(memos') /\ ClimbsRight(climbs') /\ AnswersRight(asked')
  BY DEF AliasInv
<1> DEFINE c == climbs[w]
<1>0. MemosRight(memos) /\ ClimbsRight(climbs) /\ AnswersRight(asked) /\ ClimbRight(c)
  BY DEF AliasInv, ClimbsRight
<1>1. ASSUME NEW script \in AliasScripts, NEW spec \in AliasSpecifiers, AskOutside(w, script, spec)
      PROVE  MemosRight(memos') /\ ClimbsRight(climbs') /\ AnswersRight(asked')
  <2>1. GovernedBy(script, "ts") = {} /\ GovernedBy(script, "pkg") = {}
    BY <1>1 DEF AskOutside, GovernedBy, Governing
  <2>2. AnswersRight(asked')
    BY <1>0, <1>1, <2>1, AnswersAreRight, OneMoreAnswer DEF AskOutside
  <2> QED
    BY <1>0, <1>1, <2>2 DEF AskOutside
<1>2. ASSUME NEW script \in AliasScripts, NEW spec \in AliasSpecifiers, NEW jail \in Roots, AskInside(w, script, spec, jail)
      PROVE  MemosRight(memos') /\ ClimbsRight(climbs') /\ AnswersRight(asked')
  <2>1. ClimbsRight(climbs')
    BY <1>0, <1>2, StartIsRight, OneClimbMoves DEF AskInside, AliasKinds
  <2> QED
    BY <1>0, <1>2, <2>1 DEF AskInside
<1>3. ASSUME Climbing(w)
      PROVE  /\ OnTheWay(c) /\ c.phase = "climb" /\ c.at \in Dir /\ c.jail \in JailOf(c.at)
             /\ Governing(c.at, c.what) = GovernedBy(c.script, c.what)
             /\ \A d \in c.climbed \cup {c.at} : Governing(d, c.what) = GovernedBy(c.script, c.what)
  BY <1>0, <1>3 DEF Climbing, ClimbRight, OnTheWay, Idle
<1> HIDE DEF c
<1>4. CASE Hit(w)
  <2>1. memos[c.what][c.at] = Governing(c.at, c.what)
    BY <1>0, <1>3, <1>4 DEF Hit, Remembers, MemosRight, OnTheWay, c
  <2>2. ClimbRight(Ended(c, memos[c.what][c.at], c.climbed))
    BY <1>0, <1>3, <1>4, <2>1, EndIsRight DEF Hit
  <2>3. ClimbsRight(climbs')
    BY <1>0, <1>4, <2>2, OneClimbMoves DEF Hit, c
  <2> QED
    BY <1>0, <1>4, <2>3 DEF Hit
<1>5. CASE EndAt(w)
  <2>1. LoadHere(c) = Governing(c.at, c.what)
    BY <1>3, <1>5, GovernedAsSaid, GovernedByNone DEF EndAt, LoadHere, c
  <2>2. ClimbRight(Ended(c, LoadHere(c), c.climbed \cup {c.at}))
    BY <1>0, <1>3, <1>5, <2>1, EndIsRight DEF EndAt
  <2>3. ClimbsRight(climbs')
    BY <1>0, <1>5, <2>2, OneClimbMoves DEF EndAt, c
  <2> QED
    BY <1>0, <1>5, <2>3 DEF EndAt
<1>6. CASE GoUp(w)
  <2>1. ClimbRight(UpFrom(c))
    BY <1>0, <1>3, <1>6, UpIsRight DEF GoUp, c
  <2>2. ClimbsRight(climbs')
    BY <1>0, <1>6, <2>1, OneClimbMoves DEF GoUp, c
  <2> QED
    BY <1>0, <1>6, <2>2 DEF GoUp
<1>7. CASE StoreTs(w)
  <2>1. Storing(w, "ts")
    BY <1>7 DEF StoreTs
  <2>2. MemosRight(memos') /\ OnTheWay(c) /\ c.found = GovernedBy(c.script, "ts")
    BY <2>1, StoringKeepsRight DEF c
  <2>3. ClimbRight(StartOf(c.script, c.spec, c.jail, "pkg", c.found))
    BY <2>2, StartIsRight DEF OnTheWay, AliasKinds
  <2>4. ClimbsRight(climbs')
    BY <1>0, <1>7, <2>3, OneClimbMoves DEF StoreTs, c
  <2> QED
    BY <1>0, <1>7, <2>2, <2>4 DEF StoreTs
<1>8. CASE StorePkg(w)
  <2>1. Storing(w, "pkg")
    BY <1>8 DEF StorePkg
  <2>2. MemosRight(memos') /\ OnTheWay(c) /\ c.found = GovernedBy(c.script, "pkg") /\ c.what = "pkg"
    BY <2>1, StoringKeepsRight DEF c
  <2>3. c.ts = GovernedBy(c.script, "ts")
    BY <2>2 DEF OnTheWay
  <2>4. AnswersRight(asked')
    BY <1>0, <1>8, <2>2, <2>3, AnswersAreRight, OneMoreAnswer DEF StorePkg, c
  <2>5. ClimbRight(Idle)
    BY DEF ClimbRight
  <2>6. ClimbsRight(climbs')
    BY <1>0, <1>8, <2>5, OneClimbMoves DEF StorePkg
  <2> QED
    BY <2>2, <2>4, <2>6
<1> QED
  BY <1>1, <1>2, <1>4, <1>5, <1>6, <1>7, <1>8 DEF Asking, LookingUp

(* The memos never change an answer: for any disk, any roots, within each   *)
(* other or not, and any number of threads, the rules that are part of a    *)
(* script's cache key and the rewriting of its imports are those of the     *)
(* config nearest to it (`Inner::nearest`, `rule_sets`).                    *)
THEOREM AliasMemoNeverMatters == AliasSpec => []AliasMemoAgrees
<1>1. AliasInv /\ [AliasNext]_aliasVars => AliasInv'
  <2> SUFFICES ASSUME AliasInv, [AliasNext]_aliasVars PROVE AliasInv'
    OBVIOUS
  <2>1. CASE AliasNext
    BY <2>1, AliasSteps DEF AliasNext
  <2>2. CASE UNCHANGED aliasVars
    BY <2>2 DEF AliasInv, aliasVars
  <2> QED
    BY <2>1, <2>2
<1>2. AliasInv => AliasMemoAgrees
  BY DEF AliasInv, AnswersRight, AnswerRight, AliasMemoAgrees
<1> QED
  BY <1>1, <1>2, AliasStarts, PTL DEF AliasSpec

-----------------------------------------------------------------------------
(* The contract graph.  What a recursive function gives is found by the      *)
(* least length at which it would not be as said.                           *)

LEMMA LeastNat ==
  ASSUME NEW T \in SUBSET Nat, T # {}
  PROVE  \E n \in T : \A m \in T : n <= m
<1>1. \E n \in T : \A m \in T : ~(<<m, n>> \in OpToRel(<, Nat))
  BY NatLessThanWellFounded, WFMin
<1>2. \E n \in T : \A m \in T : ~(m < n)
  BY <1>1 DEF OpToRel
<1> QED
  BY <1>2

(* `Without`, step by step.                                                *)
KeptFrom(F, s, ids, n) ==
  F = [i \in 0..n |-> IF i = 0 THEN <<>> ELSE IF s[i] \in ids THEN F[i - 1] ELSE Append(F[i - 1], s[i])]
LEMMA KeptExists ==
  ASSUME NEW s, NEW ids, NEW n \in Nat
  PROVE  \E F : KeptFrom(F, s, ids, n)
<1> SUFFICES ASSUME ~\E F : KeptFrom(F, s, ids, n) PROVE FALSE
  OBVIOUS
<1> DEFINE T == {k \in Nat : ~\E F : KeptFrom(F, s, ids, k)}
<1>1. T \in SUBSET Nat /\ T # {}
  OBVIOUS
<1> HIDE DEF T
<1>2. PICK k \in T : \A m \in T : k <= m
  BY <1>1, LeastNat
<1>3. k \in Nat /\ ~\E F : KeptFrom(F, s, ids, k)
  BY DEF T
<1>4. CASE k = 0
  <2>1. KeptFrom([i \in 0..0 |-> <<>>], s, ids, 0)
    BY DEF KeptFrom
  <2> QED BY <2>1, <1>4, <1>3
<1>5. CASE k # 0
  <2>1. k - 1 \in Nat /\ k - 1 \notin T
    BY <1>2, <1>3, <1>5
  <2>2. PICK G : KeptFrom(G, s, ids, k - 1)
    BY <2>1 DEF T
  <2> DEFINE H == [i \in 0..k |-> IF i = k THEN (IF s[k] \in ids THEN G[k - 1] ELSE Append(G[k - 1], s[k])) ELSE G[i]]
  <2>3. \A i \in 0..(k - 1) : G[i] = IF i = 0 THEN <<>> ELSE IF s[i] \in ids THEN G[i - 1] ELSE Append(G[i - 1], s[i])
    BY <2>2 DEF KeptFrom
  <2>4. \A i \in 0..k : H[i] = IF i = 0 THEN <<>> ELSE IF s[i] \in ids THEN H[i - 1] ELSE Append(H[i - 1], s[i])
    BY <2>1, <2>3, <1>3, <1>5
  <2>5. KeptFrom(H, s, ids, k)
    BY <2>4 DEF KeptFrom
  <2> QED BY <2>5, <1>3
<1> QED BY <1>4, <1>5

LEMMA WithoutUnfolds ==
  ASSUME NEW s, Len(s) \in Nat, NEW ids
  PROVE  \E F : KeptFrom(F, s, ids, Len(s)) /\ Without(s, ids) = F[Len(s)]
<1>1. \E F : KeptFrom(F, s, ids, Len(s)) BY KeptExists
<1> DEFINE F == CHOOSE F : KeptFrom(F, s, ids, Len(s))
<1>2. KeptFrom(F, s, ids, Len(s)) BY <1>1
<1>3. Without(s, ids) = F[Len(s)] BY DEF Without, KeptFrom
<1> QED BY <1>2, <1>3

LEMMA WithoutEmpty ==
  ASSUME NEW ids
  PROVE  Without(<<>>, ids) = <<>>
<1>1. PICK F : KeptFrom(F, <<>>, ids, Len(<<>>)) /\ Without(<<>>, ids) = F[Len(<<>>)]
  BY WithoutUnfolds
<1>2. Len(<<>>) = 0
  OBVIOUS
<1> QED BY <1>1, <1>2 DEF KeptFrom

LEMMA WithoutAppend ==
  ASSUME NEW S, NEW s \in Seq(S), NEW x \in S, NEW ids
  PROVE Without(Append(s, x), ids) = IF x \in ids THEN Without(s, ids) ELSE Append(Without(s, ids), x)
<1> DEFINE t == Append(s, x)
<1>0. Len(s) \in Nat /\ Len(t) = Len(s) + 1 /\ t[Len(s) + 1] = x /\ \A i \in 1..Len(s) : t[i] = s[i]
  OBVIOUS
<1>1. PICK F : KeptFrom(F, s, ids, Len(s)) /\ Without(s, ids) = F[Len(s)]
  BY <1>0, WithoutUnfolds
<1> HIDE DEF t
<1>2. PICK G : KeptFrom(G, t, ids, Len(t)) /\ Without(t, ids) = G[Len(t)]
  BY <1>0, WithoutUnfolds
<1>3. \A i \in 0..Len(s) : F[i] = IF i = 0 THEN <<>> ELSE IF s[i] \in ids THEN F[i - 1] ELSE Append(F[i - 1], s[i])
  BY <1>1 DEF KeptFrom
<1>4. \A i \in 0..Len(t) : G[i] = IF i = 0 THEN <<>> ELSE IF t[i] \in ids THEN G[i - 1] ELSE Append(G[i - 1], t[i])
  BY <1>2 DEF KeptFrom
<1>5. \A i \in 0..Len(s) : F[i] = G[i]
  <2> DEFINE T == {i \in 0..Len(s) : F[i] # G[i]}
  <2> SUFFICES ASSUME T # {} PROVE FALSE
    OBVIOUS
  <2>1. T \in SUBSET Nat
    BY <1>0
  <2>2. PICK k \in T : \A m \in T : k <= m
    <3> HIDE DEF T
    <3> QED BY <2>1, LeastNat
  <2>3. k \in 0..Len(s) /\ F[k] # G[k] /\ k # 0
    BY <1>0, <1>3, <1>4
  <2>4. k - 1 \in 0..Len(s) /\ k - 1 \notin T
    BY <2>2, <2>3, <1>0
  <2>5. F[k - 1] = G[k - 1]
    BY <2>4
  <2>6. s[k] = t[k] /\ k \in 0..Len(t)
    BY <1>0, <2>3
  <2> QED BY <2>3, <2>5, <2>6, <1>3, <1>4
<1>6. G[Len(t)] = IF x \in ids THEN G[Len(s)] ELSE Append(G[Len(s)], x)
  BY <1>0, <1>4
<1>7. G[Len(s)] = F[Len(s)]
  BY <1>0, <1>5
<1> QED BY <1>1, <1>2, <1>6, <1>7 DEF t

LEMMA WithoutAll ==
  ASSUME NEW S, NEW s \in Seq(S), NEW ids, \A i \in 1..Len(s) : s[i] \in ids
  PROVE Without(s, ids) = <<>>
<1>0. Len(s) \in Nat
  OBVIOUS
<1>1. PICK F : KeptFrom(F, s, ids, Len(s)) /\ Without(s, ids) = F[Len(s)]
  BY <1>0, WithoutUnfolds
<1>3. \A i \in 0..Len(s) : F[i] = IF i = 0 THEN <<>> ELSE IF s[i] \in ids THEN F[i - 1] ELSE Append(F[i - 1], s[i])
  BY <1>1 DEF KeptFrom
<1>5. \A i \in 0..Len(s) : F[i] = <<>>
  <2> DEFINE T == {i \in 0..Len(s) : F[i] # <<>>}
  <2> SUFFICES ASSUME T # {} PROVE FALSE
    OBVIOUS
  <2>1. T \in SUBSET Nat
    BY <1>0
  <2>2. PICK k \in T : \A m \in T : k <= m
    <3> HIDE DEF T
    <3> QED BY <2>1, LeastNat
  <2>3. k \in 0..Len(s) /\ F[k] # <<>> /\ k # 0
    BY <1>0, <1>3
  <2>4. k - 1 \in 0..Len(s) /\ k - 1 \notin T
    BY <2>2, <2>3, <1>0
  <2> QED BY <2>3, <2>4, <1>3
<1> QED BY <1>0, <1>1, <1>5

(* `Listed`, step by step.                                                 *)
ListedFrom(F, keys, k, n) == F = [i \in 0..n |-> IF i = 0 THEN <<>> ELSE F[i - 1] \o Entry(keys, i - 1, k)]
LEMMA ListedExists ==
  ASSUME NEW keys, NEW k, NEW n \in Nat
  PROVE  \E F : ListedFrom(F, keys, k, n)
<1> SUFFICES ASSUME ~\E F : ListedFrom(F, keys, k, n) PROVE FALSE
  OBVIOUS
<1> DEFINE T == {j \in Nat : ~\E F : ListedFrom(F, keys, k, j)}
<1>1. T \in SUBSET Nat /\ T # {}
  OBVIOUS
<1> HIDE DEF T
<1>2. PICK j \in T : \A l \in T : j <= l
  BY <1>1, LeastNat
<1>3. j \in Nat /\ ~\E F : ListedFrom(F, keys, k, j)
  BY DEF T
<1>4. CASE j = 0
  <2>1. ListedFrom([i \in 0..0 |-> <<>>], keys, k, 0)
    BY DEF ListedFrom
  <2> QED BY <2>1, <1>4, <1>3
<1>5. CASE j # 0
  <2>1. j - 1 \in Nat /\ j - 1 \notin T
    BY <1>2, <1>3, <1>5
  <2>2. PICK G : ListedFrom(G, keys, k, j - 1)
    BY <2>1 DEF T
  <2> DEFINE H == [i \in 0..j |-> IF i = j THEN G[j - 1] \o Entry(keys, j - 1, k) ELSE G[i]]
  <2>3. \A i \in 0..(j - 1) : G[i] = IF i = 0 THEN <<>> ELSE G[i - 1] \o Entry(keys, i - 1, k)
    BY <2>2 DEF ListedFrom
  <2>4. \A i \in 0..j : H[i] = IF i = 0 THEN <<>> ELSE H[i - 1] \o Entry(keys, i - 1, k)
    BY <2>1, <2>3, <1>3, <1>5
  <2>5. ListedFrom(H, keys, k, j)
    BY <2>4 DEF ListedFrom
  <2> QED BY <2>5, <1>3
<1> QED BY <1>4, <1>5

Lister(F, keys, n, k) ==
  Listed(keys, n, k) = F[n] /\ \A i \in 0..n : F[i] = IF i = 0 THEN <<>> ELSE F[i - 1] \o Entry(keys, i - 1, k)
LEMMA ListedUnfolds ==
  ASSUME NEW keys, NEW k, NEW n \in Nat
  PROVE  \E F : Lister(F, keys, n, k)
<1>1. \E F : ListedFrom(F, keys, k, n) BY ListedExists
<1> DEFINE F == CHOOSE F : ListedFrom(F, keys, k, n)
<1>2. ListedFrom(F, keys, k, n) BY <1>1
<1>3. Listed(keys, n, k) = F[n] BY DEF Listed, ListedFrom
<1> HIDE DEF F
<1>4. \A i \in 0..n : F[i] = IF i = 0 THEN <<>> ELSE F[i - 1] \o Entry(keys, i - 1, k)
  BY <1>2 DEF ListedFrom
<1> QED BY <1>3, <1>4 DEF Lister

LEMMA ListedZero ==
  ASSUME NEW keys, NEW k
  PROVE  Listed(keys, 0, k) = <<>>
<1>1. PICK F : Lister(F, keys, 0, k)
  BY ListedUnfolds
<1> QED BY <1>1 DEF Lister

LEMMA ListedNext ==
  ASSUME NEW keys, NEW k, NEW n \in Nat
  PROVE  Listed(keys, n + 1, k) = Listed(keys, n, k) \o Entry(keys, n, k)
<1>a. PICK F : Lister(F, keys, n, k)
  BY ListedUnfolds
<1>b. PICK G : Lister(G, keys, n + 1, k)
  BY ListedUnfolds
<1>1. Listed(keys, n, k) = F[n] /\ \A i \in 0..n : F[i] = IF i = 0 THEN <<>> ELSE F[i - 1] \o Entry(keys, i - 1, k)
  BY <1>a DEF Lister
<1>2. /\ Listed(keys, n + 1, k) = G[n + 1]
      /\ \A i \in 0..(n + 1) : G[i] = IF i = 0 THEN <<>> ELSE G[i - 1] \o Entry(keys, i - 1, k)
  BY <1>b DEF Lister
<1>3. \A i \in 0..n : F[i] = G[i]
  <2> DEFINE T == {i \in 0..n : F[i] # G[i]}
  <2> SUFFICES ASSUME T # {} PROVE FALSE
    OBVIOUS
  <2>1. PICK j \in T : \A l \in T : j <= l
    <3>1. T \in SUBSET Nat
      OBVIOUS
    <3> HIDE DEF T
    <3> QED BY <3>1, LeastNat
  <2>2. j \in 0..n /\ F[j] # G[j] /\ j # 0
    BY <1>1, <1>2
  <2>3. j - 1 \in 0..n /\ j - 1 \notin T
    BY <2>1, <2>2
  <2> QED BY <2>2, <2>3, <1>1, <1>2
<1>4. n + 1 \in 0..(n + 1) /\ n + 1 # 0 /\ (n + 1) - 1 = n /\ n \in 0..n
  OBVIOUS
<1>5. G[n + 1] = G[(n + 1) - 1] \o Entry(keys, (n + 1) - 1, k)
  BY <1>2, <1>4
<1>6. G[n + 1] = G[n] \o Entry(keys, n, k)
  BY <1>4, <1>5
<1>7. F[n] = G[n]
  BY <1>3, <1>4
<1> QED BY <1>1, <1>2, <1>6, <1>7

LEMMA EntryIsShort ==
  ASSUME NEW keys, NEW i \in Nat, NEW k
  PROVE Entry(keys, i, k) \in {<<>>, <<i>>, <<i, i>>}
BY DEF Entry

LEMMA ListedIsSeq ==
  ASSUME NEW keys, NEW k, NEW n \in Nat
  PROVE  Listed(keys, n, k) \in Seq(Nat)
<1> SUFFICES ASSUME Listed(keys, n, k) \notin Seq(Nat) PROVE FALSE
  OBVIOUS
<1> DEFINE T == {j \in Nat : Listed(keys, j, k) \notin Seq(Nat)}
<1>1. PICK j \in T : \A l \in T : j <= l
  <2>1. T \in SUBSET Nat /\ T # {}
    OBVIOUS
  <2> HIDE DEF T
  <2> QED BY <2>1, LeastNat
<1>0. <<>> \in Seq(Nat)
  OBVIOUS
<1>2. j \in Nat /\ Listed(keys, j, k) \notin Seq(Nat) /\ j # 0
  BY <1>0, ListedZero
<1>3. j - 1 \in Nat /\ j - 1 \notin T
  BY <1>1, <1>2
<1>4. Listed(keys, j - 1, k) \in Seq(Nat)
  BY <1>3
<1>5. Listed(keys, (j - 1) + 1, k) = Listed(keys, j - 1, k) \o Entry(keys, j - 1, k)
  BY <1>3, ListedNext
<1>6. Entry(keys, j - 1, k) \in Seq(Nat)
  <2>1. Entry(keys, j - 1, k) \in {<<>>, <<j - 1>>, <<j - 1, j - 1>>}
    BY <1>3, EntryIsShort
  <2>2. <<j - 1>> \in Seq(Nat) /\ <<j - 1, j - 1>> \in Seq(Nat)
    BY <1>3
  <2> QED BY <1>0, <2>1, <2>2
<1>7. (j - 1) + 1 = j
  BY <1>2
<1>8. Listed(keys, j - 1, k) \o Entry(keys, j - 1, k) \in Seq(Nat)
  BY <1>4, <1>6
<1> QED BY <1>2, <1>5, <1>7, <1>8

(* Two sets of keys that give the same entries give the same lists.        *)
LEMMA ListedAlike ==
  ASSUME NEW keys, NEW other, NEW k, NEW n \in Nat, \A i \in 0..(n - 1) : Entry(keys, i, k) = Entry(other, i, k)
  PROVE Listed(keys, n, k) = Listed(other, n, k)
<1> SUFFICES ASSUME Listed(keys, n, k) # Listed(other, n, k) PROVE FALSE
  OBVIOUS
<1> DEFINE T == {j \in 0..n : Listed(keys, j, k) # Listed(other, j, k)}
<1>1. PICK j \in T : \A l \in T : j <= l
  <2>1. T \in SUBSET Nat /\ T # {}
    OBVIOUS
  <2> HIDE DEF T
  <2> QED BY <2>1, LeastNat
<1>2. j \in 0..n /\ Listed(keys, j, k) # Listed(other, j, k) /\ j # 0
  BY ListedZero
<1>3. j - 1 \in 0..(n - 1) /\ j - 1 \in 0..n /\ j - 1 \notin T /\ j - 1 \in Nat /\ (j - 1) + 1 = j
  BY <1>1, <1>2
<1>4. Listed(keys, j - 1, k) = Listed(other, j - 1, k)
  BY <1>3
<1>5. Listed(keys, (j - 1) + 1, k) = Listed(keys, j - 1, k) \o Entry(keys, j - 1, k)
  BY <1>3, ListedNext
<1>6. Listed(other, (j - 1) + 1, k) = Listed(other, j - 1, k) \o Entry(other, j - 1, k)
  BY <1>3, ListedNext
<1> QED BY <1>2, <1>3, <1>4, <1>5, <1>6

(* Taking ids out of a list is listing without them.                       *)
Fewer(keys, ids) == [i \in DOMAIN keys \ ids |-> keys[i]]
LEMMA ListedLess ==
  ASSUME NEW keys, NEW ids, NEW k, NEW n \in Nat
  PROVE Without(Listed(keys, n, k), ids) = Listed(Fewer(keys, ids), n, k)
<1> SUFFICES ASSUME Without(Listed(keys, n, k), ids) # Listed(Fewer(keys, ids), n, k) PROVE FALSE
  OBVIOUS
<1> DEFINE T == {j \in Nat : Without(Listed(keys, j, k), ids) # Listed(Fewer(keys, ids), j, k)}
<1>1. PICK j \in T : \A l \in T : j <= l
  <2>1. T \in SUBSET Nat /\ T # {}
    OBVIOUS
  <2> HIDE DEF T
  <2> QED BY <2>1, LeastNat
<1>2. j \in Nat /\ Without(Listed(keys, j, k), ids) # Listed(Fewer(keys, ids), j, k) /\ j # 0
  BY ListedZero, WithoutEmpty
<1> DEFINE i == j - 1
<1>3. i \in Nat /\ i \notin T /\ i + 1 = j
  BY <1>1, <1>2
<1>4. Without(Listed(keys, i, k), ids) = Listed(Fewer(keys, ids), i, k)
  BY <1>3
<1> HIDE DEF i, T
<1>5. Listed(keys, i + 1, k) = Listed(keys, i, k) \o Entry(keys, i, k)
  BY <1>3, ListedNext
<1>6. Listed(Fewer(keys, ids), i + 1, k) = Listed(Fewer(keys, ids), i, k) \o Entry(Fewer(keys, ids), i, k)
  BY <1>3, ListedNext
<1>7. Listed(keys, i, k) \in Seq(Nat) /\ Listed(Fewer(keys, ids), i, k) \in Seq(Nat)
  BY <1>3, ListedIsSeq
<1>8. Entry(keys, i, k) \in {<<>>, <<i>>, <<i, i>>}
  BY <1>3, EntryIsShort
<1>9. Entry(Fewer(keys, ids), i, k) = IF i \in ids THEN <<>> ELSE Entry(keys, i, k)
  BY DEF Entry, Fewer
<1> DEFINE l == Listed(keys, i, k)
           m == Listed(Fewer(keys, ids), i, k)
<1>10. Without(l \o Entry(keys, i, k), ids) = IF i \in ids THEN m ELSE m \o Entry(keys, i, k)
  <2> HIDE DEF l, m
  <2>0. l \in Seq(Nat) /\ m \in Seq(Nat) /\ Without(l, ids) = m
    BY <1>7, <1>4 DEF l, m
  <2>1. CASE Entry(keys, i, k) = <<>>
    BY <2>0, <2>1
  <2>2. Without(Append(l, i), ids) = IF i \in ids THEN m ELSE Append(m, i)
    BY SMTT(30), <2>0, <1>3, WithoutAppend
  <2>3. CASE Entry(keys, i, k) = <<i>>
    <3>1. l \o <<i>> = Append(l, i) /\ m \o <<i>> = Append(m, i)
      BY <2>0, <1>3
    <3> QED BY <2>2, <2>3, <3>1
  <2>4. CASE Entry(keys, i, k) = <<i, i>>
    <3>1. l \o <<i, i>> = Append(Append(l, i), i) /\ m \o <<i, i>> = Append(Append(m, i), i)
      BY SMTT(30), <2>0, <1>3
    <3>2. Append(l, i) \in Seq(Nat)
      BY <2>0, <1>3
    <3>3. Without(Append(Append(l, i), i), ids) = IF i \in ids THEN Without(Append(l, i), ids) ELSE Append(Without(Append(l, i), ids), i)
      <4> DEFINE a == Append(l, i)
      <4>1. a \in Seq(Nat)
        BY <3>2
      <4> HIDE DEF a
      <4>2. Without(Append(a, i), ids) = IF i \in ids THEN Without(a, ids) ELSE Append(Without(a, ids), i)
        BY <4>1, <1>3, WithoutAppend
      <4> QED BY <4>2 DEF a
    <3> QED BY <2>2, <2>4, <3>1, <3>3
  <2> QED BY <2>1, <2>3, <2>4, <1>8
<1>11. m \o <<>> = m
  BY <1>7
<1> QED BY <1>2, <1>3, <1>5, <1>6, <1>9, <1>10, <1>11

----
(* An index that lists the nodes exactly, under every key.                 *)
Exact(f, keys, n) ==
  /\ \A k \in DOMAIN f : f[k] # <<>>
  /\ \A k : Bucket(f, k) = Listed(keys, n, k)
ShortKeys(ks) == ks = <<>> \/ (\E a : ks = <<a>>) \/ (\E a, b : ks = <<a, b>>)
WithKeys(keys, n, ks) == [i \in DOMAIN keys \cup {n} |-> IF i = n THEN ks ELSE keys[i]]

LEMMA PushBucket ==
  ASSUME NEW f, NEW a, NEW x, NEW k
  PROVE Bucket(Push(f, a, x), k) = IF k = a THEN Append(Bucket(f, k), x) ELSE Bucket(f, k)
BY DEF Bucket, Push

LEMMA PushFilled ==
  ASSUME NEW f, NEW a, NEW x, \A k : Bucket(f, k) \in Seq(Nat), x \in Nat, \A k \in DOMAIN f : f[k] # <<>>
  PROVE \A k \in DOMAIN Push(f, a, x) : Push(f, a, x)[k] # <<>>
<1>1. Append(Bucket(f, a), x) # <<>>
  <2>1. Bucket(f, a) \in Seq(Nat)
    OBVIOUS
  <2> DEFINE b == Bucket(f, a)
  <2> HIDE DEF b
  <2>2. b \in Seq(Nat)
    BY <2>1 DEF b
  <2>3. Append(b, x) # <<>>
    BY <2>2
  <2> QED BY <2>3 DEF b
<1> QED BY <1>1 DEF Push

LEMMA EnterBucket ==
  ASSUME NEW f, NEW keys, NEW n \in Nat, n \in DOMAIN keys, ShortKeys(keys[n]), NEW k, Bucket(f, k) \in Seq(Nat)
  PROVE Bucket(Enter(f, keys[n], n), k) = Bucket(f, k) \o Entry(keys, n, k)
<1> DEFINE b == Bucket(f, k)
           ks == keys[n]
<1> SUFFICES Bucket(Enter(f, ks, n), k) = Bucket(f, k) \o Entry(keys, n, k)
  OBVIOUS
<1>5. ks = keys[n] /\ ShortKeys(ks)
  OBVIOUS
<1> HIDE DEF b, ks
<1>0. b \in Seq(Nat)
  BY DEF b
<1>1. b \o <<>> = b /\ b \o <<n>> = Append(b, n) /\ b \o <<n, n>> = Append(Append(b, n), n)
  BY <1>0
<1>2. CASE ks = <<>>
  <2>1. Enter(f, ks, n) = f
    BY <1>2 DEF Enter
  <2>2. Entry(keys, n, k) = <<>>
    BY <1>2, <1>5 DEF Entry
  <2> QED BY <2>1, <2>2, <1>1 DEF b
<1>3. CASE \E a : ks = <<a>>
  <2>1. PICK a : ks = <<a>>
    BY <1>3
  <2>2. ks # <<>> /\ ks[1] = a /\ Len(ks) = 1 /\ DOMAIN ks = {1}
    BY <2>1
  <2>3. Enter(f, ks, n) = Push(f, a, n)
    BY <2>2 DEF Enter
  <2>4. Entry(keys, n, k) = IF k = a THEN <<n>> ELSE <<>>
    BY <2>2, <1>5 DEF Entry
  <2>5. Bucket(Push(f, a, n), k) = IF k = a THEN Append(b, n) ELSE b
    BY PushBucket DEF b
  <2> QED BY <2>3, <2>4, <2>5, <1>1 DEF b
<1>4. CASE \E a, c : ks = <<a, c>>
  <2>1. PICK a, c : ks = <<a, c>>
    BY <1>4
  <2>2. ks # <<>> /\ ks[1] = a /\ ks[2] = c /\ Len(ks) = 2 /\ DOMAIN ks = {1, 2}
    BY <2>1
  <2>3. Enter(f, ks, n) = Push(Push(f, a, n), c, n)
    BY <2>2 DEF Enter
  <2>4. Entry(keys, n, k) = IF k = a /\ k = c THEN <<n, n>> ELSE IF k = a \/ k = c THEN <<n>> ELSE <<>>
    BY <2>2, <1>5 DEF Entry
  <2>5. Bucket(Push(f, a, n), k) = IF k = a THEN Append(b, n) ELSE b
    BY PushBucket DEF b
  <2>6. Bucket(Push(Push(f, a, n), c, n), k) = IF k = c THEN Append(Bucket(Push(f, a, n), k), n) ELSE Bucket(Push(f, a, n), k)
    BY PushBucket
  <2> QED BY <2>3, <2>4, <2>5, <2>6, <1>1 DEF b
<1> QED BY <1>2, <1>3, <1>4, <1>5 DEF ShortKeys

LEMMA EnterFilled ==
  ASSUME NEW f, NEW ks, NEW n \in Nat, \A k : Bucket(f, k) \in Seq(Nat), \A k \in DOMAIN f : f[k] # <<>>
  PROVE \A k \in DOMAIN Enter(f, ks, n) : Enter(f, ks, n)[k] # <<>>
<1> DEFINE once == IF ks = <<>> THEN f ELSE Push(f, ks[1], n)
<1>1. \A k \in DOMAIN once : once[k] # <<>>
  BY PushFilled
<1>2. \A k : Bucket(once, k) \in Seq(Nat)
  <2> TAKE k
  <2>1. Append(Bucket(f, k), n) \in Seq(Nat)
    BY AppendProperties
  <2> QED BY SMTT(30), <2>1, PushBucket
<1> HIDE DEF once
<1>3. \A k \in DOMAIN Push(once, ks[2], n) : Push(once, ks[2], n)[k] # <<>>
  BY <1>1, <1>2, PushFilled
<1>4. Enter(f, ks, n) = IF Len(ks) > 1 THEN Push(once, ks[2], n) ELSE once
  BY DEF Enter, once
<1> QED BY <1>1, <1>3, <1>4

(* A node entered under its keys is listed there, and nowhere else.        *)
LEMMA EnterExact ==
  ASSUME NEW f, NEW keys, NEW n \in Nat, DOMAIN keys \subseteq 0..(n - 1), Exact(f, keys, n), NEW ks, ShortKeys(ks)
  PROVE Exact(Enter(f, ks, n), WithKeys(keys, n, ks), n + 1)
<1>1. \A k : Bucket(f, k) \in Seq(Nat)
  BY ListedIsSeq DEF Exact
<1>2. \A k \in DOMAIN Enter(f, ks, n) : Enter(f, ks, n)[k] # <<>>
  BY <1>1, EnterFilled DEF Exact
<1>3. n \in DOMAIN WithKeys(keys, n, ks) /\ WithKeys(keys, n, ks)[n] = ks
  BY DEF WithKeys
<1>4. ASSUME NEW k PROVE Bucket(Enter(f, ks, n), k) = Listed(WithKeys(keys, n, ks), n + 1, k)
  <2>1. Bucket(Enter(f, ks, n), k) = Bucket(f, k) \o Entry(WithKeys(keys, n, ks), n, k)
    <3> DEFINE w == WithKeys(keys, n, ks)
    <3>1. n \in DOMAIN w /\ w[n] = ks
      BY <1>3
    <3> HIDE DEF w
    <3>2. Bucket(f, k) \in Seq(Nat)
      BY <1>1
    <3>3. Bucket(Enter(f, w[n], n), k) = Bucket(f, k) \o Entry(w, n, k)
      BY <3>1, <3>2, EnterBucket
    <3> QED BY <3>1, <3>3 DEF w
  <2>2. \A i \in 0..(n - 1) : Entry(keys, i, k) = Entry(WithKeys(keys, n, ks), i, k)
    <3> TAKE i \in 0..(n - 1)
    <3>1. i # n
      OBVIOUS
    <3> QED BY <3>1 DEF Entry, WithKeys
  <2>3. Listed(keys, n, k) = Listed(WithKeys(keys, n, ks), n, k)
    BY <2>2, ListedAlike
  <2>4. Listed(WithKeys(keys, n, ks), n + 1, k) = Listed(WithKeys(keys, n, ks), n, k) \o Entry(WithKeys(keys, n, ks), n, k)
    BY ListedNext
  <2>5. Bucket(f, k) = Listed(keys, n, k)
    BY DEF Exact
  <2> QED BY <2>1, <2>3, <2>4, <2>5
<1> QED BY <1>2, <1>4 DEF Exact

(* A purge of the keys that removed nodes name, after some buckets whose   *)
(* nodes are all removed have been dropped: nothing is left of them, and   *)
(* the rest is as it was.                                                  *)
LEMMA PurgeExact ==
  ASSUME NEW f, NEW keys, NEW n \in Nat, DOMAIN keys \subseteq 0..(n - 1), Exact(f, keys, n), NEW ids, NEW K, NEW dropped, NEW r,
         DOMAIN r = DOMAIN f \ dropped, \A k \in DOMAIN r : r[k] = f[k],
         \A i \in ids \cap DOMAIN keys : ToSet(keys[i]) \subseteq K,
         \A k \in dropped : ToSet(Bucket(f, k)) \subseteq ids
  PROVE Exact(Purge(r, K, ids), Fewer(keys, ids), n)
<1> DEFINE p == Purge(r, K, ids)
<1>1. DOMAIN r = DOMAIN f \ dropped /\ \A k \in DOMAIN r : r[k] = f[k]
  OBVIOUS
<1>2. DOMAIN p = {k \in DOMAIN r : k \in K => Without(r[k], ids) # <<>>}
  BY DEF Purge
<1>3. \A k \in DOMAIN p : p[k] = IF k \in K THEN Without(r[k], ids) ELSE r[k]
  BY DEF Purge
<1> HIDE DEF p
<1>4. \A k \in DOMAIN p : p[k] # <<>>
  BY <1>1, <1>2, <1>3 DEF Exact
<1>5. ASSUME NEW k PROVE Bucket(p, k) = Listed(Fewer(keys, ids), n, k)
  <2>0. Bucket(f, k) = Listed(keys, n, k) /\ Bucket(f, k) \in Seq(Nat)
    BY ListedIsSeq DEF Exact
  <2>1. Without(Bucket(f, k), ids) = Listed(Fewer(keys, ids), n, k)
    BY <2>0, ListedLess
  <2>2. CASE k \in dropped
    <3> DEFINE b == Bucket(f, k)
    <3>0. b \in Seq(Nat) /\ ToSet(b) \subseteq ids
      BY <2>0, <2>2
    <3> HIDE DEF b
    <3>1. \A i \in 1..Len(b) : b[i] \in ids
      BY <3>0 DEF ToSet
    <3>2. Without(b, ids) = <<>>
      BY <3>0, <3>1, WithoutAll
    <3>3. Bucket(p, k) = <<>>
      BY <2>2, <1>1, <1>2 DEF Bucket
    <3> QED BY <3>2, <3>3, <2>1 DEF b
  <2>3. CASE k \notin dropped /\ k \in K
    <3>1. CASE k \notin DOMAIN f
      <4>1. Bucket(p, k) = <<>> /\ Bucket(f, k) = <<>>
        BY <3>1, <1>1, <1>2 DEF Bucket
      <4> QED BY <4>1, <2>1, WithoutEmpty
    <3>2. CASE k \in DOMAIN f
      <4>1. k \in DOMAIN r /\ r[k] = f[k] /\ Bucket(f, k) = f[k]
        BY <3>2, <2>3, <1>1 DEF Bucket
      <4>2. Bucket(p, k) = Without(f[k], ids)
        BY <4>1, <2>3, <1>2, <1>3 DEF Bucket
      <4> QED BY <4>1, <4>2, <2>1
    <3> QED BY <3>1, <3>2
  <2>4. CASE k \notin dropped /\ k \notin K
    <3>1. Bucket(p, k) = Bucket(f, k)
      BY <2>4, <1>1, <1>2, <1>3 DEF Bucket
    <3>2. \A i \in 0..(n - 1) : Entry(keys, i, k) = Entry(Fewer(keys, ids), i, k)
      <4> TAKE i \in 0..(n - 1)
      <4>1. CASE i \in ids /\ i \in DOMAIN keys
        <5>1. \A m \in DOMAIN keys[i] : keys[i][m] # k
          BY <2>4, <4>1 DEF ToSet
        <5>2. Entry(keys, i, k) = <<>>
          BY <5>1, <4>1 DEF Entry
        <5>3. Entry(Fewer(keys, ids), i, k) = <<>>
          BY <4>1 DEF Entry, Fewer
        <5> QED BY <5>2, <5>3
      <4>2. CASE ~(i \in ids /\ i \in DOMAIN keys)
        BY <4>2 DEF Entry, Fewer
      <4> QED BY <4>1, <4>2
    <3>3. Listed(keys, n, k) = Listed(Fewer(keys, ids), n, k)
      BY <3>2, ListedAlike
    <3> QED BY <3>1, <3>3, <2>0
  <2> QED BY <2>2, <2>3, <2>4
<1> QED BY <1>4, <1>5 DEF Exact, p

----
(* A graph whose indices list its nodes.                                   *)
GraphFields ==
  {"nodes", "edges", "next", "byName", "byPackage", "byFile", "byFqcn", "deps", "producers", "consumers", "calls",
   "heuristic", "rpcNames"}
Ided(g) == DOMAIN g = GraphFields /\ g.next \in Nat /\ DOMAIN g.nodes \subseteq 0..(g.next - 1)
Indexed(g) ==
  /\ Exact(g.byName, NamesIn(g), g.next) /\ Exact(g.byPackage, PackagesIn(g), g.next)
  /\ Exact(g.byFile, FilesIn(g), g.next) /\ Exact(g.byFqcn, FqcnsIn(g), g.next)
Sound(g) == Ided(g) /\ Indexed(g)

LEMMA EmptySound == Sound(EmptyGraph)
<1>1. DOMAIN EmptyGraph = GraphFields
  BY DEF EmptyGraph, GraphFields
<1>2. /\ EmptyGraph.next = 0 /\ EmptyGraph.nodes = NoMap /\ EmptyGraph.byName = NoMap /\ EmptyGraph.byPackage = NoMap
      /\ EmptyGraph.byFile = NoMap /\ EmptyGraph.byFqcn = NoMap
  BY DEF EmptyGraph
<1>3. DOMAIN NoMap = {}
  BY DEF NoMap
<1>4. \A keys : Exact(NoMap, keys, 0)
  BY <1>3, ListedZero DEF Exact, Bucket
<1>5. Ided(EmptyGraph)
  BY <1>1, <1>2, <1>3 DEF Ided
<1> QED BY <1>2, <1>4, <1>5 DEF Sound, Indexed

(* What is not an index, a node or the next id does not matter.            *)
SameNodes(g, h) ==
  /\ DOMAIN h = DOMAIN g /\ h.next = g.next /\ h.nodes = g.nodes
  /\ h.byName = g.byName /\ h.byPackage = g.byPackage /\ h.byFile = g.byFile /\ h.byFqcn = g.byFqcn
LEMMA SameSound ==
  ASSUME NEW g, NEW h, Sound(g), SameNodes(g, h)
  PROVE  Sound(h)
<1>1. Ided(h)
  BY DEF Sound, SameNodes, Ided
<1>2. NamesIn(h) = NamesIn(g) /\ PackagesIn(h) = PackagesIn(g) /\ FilesIn(h) = FilesIn(g) /\ FqcnsIn(h) = FqcnsIn(g)
  BY DEF SameNodes, NamesIn, PackagesIn, FilesIn, FqcnsIn
<1> QED BY <1>1, <1>2 DEF Sound, SameNodes, Indexed

LEMMA KeysAreShort ==
  ASSUME NEW n
  PROVE ShortKeys(NameKeys(n)) /\ ShortKeys(PackageKeys(n)) /\ ShortKeys(FileKeys(n)) /\ ShortKeys(FqcnKeys(n))
BY DEF ShortKeys, NameKeys, PackageKeys, FileKeys, FqcnKeys

LEMMA AddNodeFields ==
  ASSUME NEW g, DOMAIN g = GraphFields, NEW n
  PROVE /\ DOMAIN AddNode(g, n) = GraphFields
        /\ AddNode(g, n).next = g.next + 1
        /\ AddNode(g, n).nodes = [i \in DOMAIN g.nodes \cup {g.next} |-> IF i = g.next THEN n ELSE g.nodes[i]]
        /\ AddNode(g, n).byName = Enter(g.byName, NameKeys(n), g.next)
        /\ AddNode(g, n).byPackage = Enter(g.byPackage, PackageKeys(n), g.next)
        /\ AddNode(g, n).byFile = Enter(g.byFile, FileKeys(n), g.next)
        /\ AddNode(g, n).byFqcn = Enter(g.byFqcn, FqcnKeys(n), g.next)
<1>1. DOMAIN AddNode(g, n) = GraphFields
  BY DEF AddNode
<1>2. AddNode(g, n).next = g.next + 1
  BY DEF AddNode, GraphFields
<1>3. AddNode(g, n).nodes = [i \in DOMAIN g.nodes \cup {g.next} |-> IF i = g.next THEN n ELSE g.nodes[i]]
  BY DEF AddNode, GraphFields
<1>4. AddNode(g, n).byName = Enter(g.byName, NameKeys(n), g.next)
  BY DEF AddNode, GraphFields
<1>5. AddNode(g, n).byPackage = Enter(g.byPackage, PackageKeys(n), g.next)
  BY DEF AddNode, GraphFields
<1>6. AddNode(g, n).byFile = Enter(g.byFile, FileKeys(n), g.next)
  BY DEF AddNode, GraphFields
<1>7. AddNode(g, n).byFqcn = Enter(g.byFqcn, FqcnKeys(n), g.next)
  BY DEF AddNode, GraphFields
<1> QED BY <1>1, <1>2, <1>3, <1>4, <1>5, <1>6, <1>7

LEMMA AddNodeSound ==
  ASSUME NEW g, Sound(g), NEW n
  PROVE  Sound(AddNode(g, n))
<1> DEFINE h == AddNode(g, n)
<1>0. DOMAIN g = GraphFields /\ g.next \in Nat /\ DOMAIN g.nodes \subseteq 0..(g.next - 1)
  BY DEF Sound, Ided
<1>1. /\ DOMAIN h = GraphFields /\ h.next = g.next + 1
      /\ h.nodes = [i \in DOMAIN g.nodes \cup {g.next} |-> IF i = g.next THEN n ELSE g.nodes[i]]
      /\ h.byName = Enter(g.byName, NameKeys(n), g.next)
      /\ h.byPackage = Enter(g.byPackage, PackageKeys(n), g.next)
      /\ h.byFile = Enter(g.byFile, FileKeys(n), g.next)
      /\ h.byFqcn = Enter(g.byFqcn, FqcnKeys(n), g.next)
  BY <1>0, AddNodeFields
<1> HIDE DEF h
<1>2. Ided(h)
  BY <1>0, <1>1 DEF Ided
<1>3. /\ NamesIn(h) = WithKeys(NamesIn(g), g.next, NameKeys(n))
      /\ PackagesIn(h) = WithKeys(PackagesIn(g), g.next, PackageKeys(n))
      /\ FilesIn(h) = WithKeys(FilesIn(g), g.next, FileKeys(n))
      /\ FqcnsIn(h) = WithKeys(FqcnsIn(g), g.next, FqcnKeys(n))
  BY <1>1 DEF NamesIn, PackagesIn, FilesIn, FqcnsIn, WithKeys
<1>4. /\ DOMAIN NamesIn(g) \subseteq 0..(g.next - 1) /\ DOMAIN PackagesIn(g) \subseteq 0..(g.next - 1)
      /\ DOMAIN FilesIn(g) \subseteq 0..(g.next - 1) /\ DOMAIN FqcnsIn(g) \subseteq 0..(g.next - 1)
  BY <1>0 DEF NamesIn, PackagesIn, FilesIn, FqcnsIn
<1>5. Exact(h.byName, NamesIn(h), h.next)
  BY <1>0, <1>1, <1>3, <1>4, KeysAreShort, EnterExact DEF Sound, Indexed
<1>6. Exact(h.byPackage, PackagesIn(h), h.next)
  BY <1>0, <1>1, <1>3, <1>4, KeysAreShort, EnterExact DEF Sound, Indexed
<1>7. Exact(h.byFile, FilesIn(h), h.next)
  BY <1>0, <1>1, <1>3, <1>4, KeysAreShort, EnterExact DEF Sound, Indexed
<1>8. Exact(h.byFqcn, FqcnsIn(h), h.next)
  BY <1>0, <1>1, <1>3, <1>4, KeysAreShort, EnterExact DEF Sound, Indexed
<1> QED BY <1>2, <1>5, <1>6, <1>7, <1>8 DEF Sound, Indexed, h

GoneKeys(keys, ids) == UNION {ToSet(keys[i]) : i \in ids \cap DOMAIN keys}
LEMMA RemoveFields ==
  ASSUME NEW g, DOMAIN g = GraphFields, NEW ids
  PROVE /\ DOMAIN RemoveNodes(g, ids) = GraphFields
        /\ RemoveNodes(g, ids).next = g.next
        /\ RemoveNodes(g, ids).nodes = [i \in DOMAIN g.nodes \ ids |-> g.nodes[i]]
        /\ RemoveNodes(g, ids).byName = Purge(g.byName, GoneKeys(NamesIn(g), ids), ids)
        /\ RemoveNodes(g, ids).byPackage = Purge(g.byPackage, GoneKeys(PackagesIn(g), ids), ids)
        /\ RemoveNodes(g, ids).byFile = Purge(g.byFile, GoneKeys(FilesIn(g), ids), ids)
        /\ RemoveNodes(g, ids).byFqcn = Purge(g.byFqcn, GoneKeys(FqcnsIn(g), ids), ids)
<1>1. DOMAIN RemoveNodes(g, ids) = GraphFields
  BY DEF RemoveNodes
<1>2. RemoveNodes(g, ids).next = g.next
  BY DEF RemoveNodes, GraphFields
<1>3. RemoveNodes(g, ids).nodes = [i \in DOMAIN g.nodes \ ids |-> g.nodes[i]]
  BY DEF RemoveNodes, GraphFields, Restrict
<1>4. /\ GoneKeys(NamesIn(g), ids) = UNION {ToSet(NameKeys(g.nodes[i])) : i \in ids \cap DOMAIN g.nodes}
      /\ GoneKeys(PackagesIn(g), ids) = UNION {ToSet(PackageKeys(g.nodes[i])) : i \in ids \cap DOMAIN g.nodes}
      /\ GoneKeys(FilesIn(g), ids) = UNION {ToSet(FileKeys(g.nodes[i])) : i \in ids \cap DOMAIN g.nodes}
      /\ GoneKeys(FqcnsIn(g), ids) = UNION {ToSet(FqcnKeys(g.nodes[i])) : i \in ids \cap DOMAIN g.nodes}
  BY DEF GoneKeys, NamesIn, PackagesIn, FilesIn, FqcnsIn
<1>5. RemoveNodes(g, ids).byName = Purge(g.byName, GoneKeys(NamesIn(g), ids), ids)
  BY <1>4 DEF RemoveNodes, GraphFields
<1>6. RemoveNodes(g, ids).byPackage = Purge(g.byPackage, GoneKeys(PackagesIn(g), ids), ids)
  BY <1>4 DEF RemoveNodes, GraphFields
<1>7. RemoveNodes(g, ids).byFile = Purge(g.byFile, GoneKeys(FilesIn(g), ids), ids)
  BY <1>4 DEF RemoveNodes, GraphFields
<1>8. RemoveNodes(g, ids).byFqcn = Purge(g.byFqcn, GoneKeys(FqcnsIn(g), ids), ids)
  BY <1>4 DEF RemoveNodes, GraphFields
<1> QED BY <1>1, <1>2, <1>3, <1>5, <1>6, <1>7, <1>8

(* `remove_nodes` on a graph whose file index may already have lost the    *)
(* buckets of files that are removed whole.                                *)
Dropped(g, h, fs) ==
  /\ DOMAIN h = DOMAIN g /\ h.next = g.next /\ h.nodes = g.nodes
  /\ h.byName = g.byName /\ h.byPackage = g.byPackage /\ h.byFqcn = g.byFqcn
  /\ DOMAIN h.byFile = DOMAIN g.byFile \ fs /\ \A k \in DOMAIN h.byFile : h.byFile[k] = g.byFile[k]
LEMMA RemoveSound ==
  ASSUME NEW g, Sound(g), NEW ids, NEW fs, \A k \in fs : ToSet(Bucket(g.byFile, k)) \subseteq ids, NEW h, Dropped(g, h, fs)
  PROVE Sound(RemoveNodes(h, ids))
<1> DEFINE r == RemoveNodes(h, ids)
<1>0. /\ DOMAIN g = GraphFields /\ g.next \in Nat /\ DOMAIN g.nodes \subseteq 0..(g.next - 1)
      /\ DOMAIN h = GraphFields /\ h.next = g.next
  BY DEF Sound, Ided, Dropped
<1>k. NamesIn(h) = NamesIn(g) /\ PackagesIn(h) = PackagesIn(g) /\ FilesIn(h) = FilesIn(g) /\ FqcnsIn(h) = FqcnsIn(g)
  BY DEF Dropped, NamesIn, PackagesIn, FilesIn, FqcnsIn
<1>1. /\ DOMAIN r = GraphFields /\ r.next = g.next
      /\ r.nodes = [i \in DOMAIN g.nodes \ ids |-> g.nodes[i]]
      /\ r.byName = Purge(g.byName, GoneKeys(NamesIn(g), ids), ids)
      /\ r.byPackage = Purge(g.byPackage, GoneKeys(PackagesIn(g), ids), ids)
      /\ r.byFile = Purge(h.byFile, GoneKeys(FilesIn(g), ids), ids)
      /\ r.byFqcn = Purge(g.byFqcn, GoneKeys(FqcnsIn(g), ids), ids)
  <2>1. /\ DOMAIN r = GraphFields /\ r.next = h.next
        /\ r.nodes = [i \in DOMAIN h.nodes \ ids |-> h.nodes[i]]
        /\ r.byName = Purge(h.byName, GoneKeys(NamesIn(h), ids), ids)
        /\ r.byPackage = Purge(h.byPackage, GoneKeys(PackagesIn(h), ids), ids)
        /\ r.byFile = Purge(h.byFile, GoneKeys(FilesIn(h), ids), ids)
        /\ r.byFqcn = Purge(h.byFqcn, GoneKeys(FqcnsIn(h), ids), ids)
    BY <1>0, RemoveFields
  <2> HIDE DEF r
  <2> QED BY <2>1, <1>0, <1>k DEF Dropped
<1> HIDE DEF r
<1>2. Ided(r)
  BY <1>0, <1>1 DEF Ided
<1>3. /\ NamesIn(r) = Fewer(NamesIn(g), ids) /\ PackagesIn(r) = Fewer(PackagesIn(g), ids)
      /\ FilesIn(r) = Fewer(FilesIn(g), ids) /\ FqcnsIn(r) = Fewer(FqcnsIn(g), ids)
  BY <1>1 DEF NamesIn, PackagesIn, FilesIn, FqcnsIn, Fewer
<1>4. /\ DOMAIN NamesIn(g) \subseteq 0..(g.next - 1) /\ DOMAIN PackagesIn(g) \subseteq 0..(g.next - 1)
      /\ DOMAIN FilesIn(g) \subseteq 0..(g.next - 1) /\ DOMAIN FqcnsIn(g) \subseteq 0..(g.next - 1)
  BY <1>0 DEF NamesIn, PackagesIn, FilesIn, FqcnsIn
<1>5. \A keys : \A i \in ids \cap DOMAIN keys : ToSet(keys[i]) \subseteq GoneKeys(keys, ids)
  BY DEF GoneKeys
<1>6. \A f, keys : (Exact(f, keys, g.next) /\ DOMAIN keys \subseteq 0..(g.next - 1)) =>
                     Exact(Purge(f, GoneKeys(keys, ids), ids), Fewer(keys, ids), g.next)
  <2> TAKE f, keys
  <2> HAVE Exact(f, keys, g.next) /\ DOMAIN keys \subseteq 0..(g.next - 1)
  <2> DEFINE K == GoneKeys(keys, ids)
             n == g.next
             none == {}
  <2>1. \A i \in ids \cap DOMAIN keys : ToSet(keys[i]) \subseteq K
    BY <1>5
  <2>2. n \in Nat /\ Exact(f, keys, n) /\ DOMAIN keys \subseteq 0..(n - 1)
    BY <1>0
  <2>3. DOMAIN f = DOMAIN f \ none /\ (\A k \in DOMAIN f : f[k] = f[k]) /\ \A k \in none : ToSet(Bucket(f, k)) \subseteq ids
    OBVIOUS
  <2> HIDE DEF K, n, none
  <2>4. Exact(Purge(f, K, ids), Fewer(keys, ids), n)
    BY <2>1, <2>2, <2>3, PurgeExact
  <2> QED BY <2>4 DEF K, n
<1>7. Exact(r.byName, NamesIn(r), r.next)
  BY <1>1, <1>3, <1>4, <1>6 DEF Sound, Indexed
<1>8. Exact(r.byPackage, PackagesIn(r), r.next)
  BY <1>1, <1>3, <1>4, <1>6 DEF Sound, Indexed
<1>9. Exact(r.byFqcn, FqcnsIn(r), r.next)
  BY <1>1, <1>3, <1>4, <1>6 DEF Sound, Indexed
<1>10. Exact(r.byFile, FilesIn(r), r.next)
  <2> DEFINE K == GoneKeys(FilesIn(g), ids)
             keys == FilesIn(g)
             n == g.next
             f == g.byFile
             d == h.byFile
  <2>1. \A i \in ids \cap DOMAIN keys : ToSet(keys[i]) \subseteq K
    BY <1>5
  <2>2. n \in Nat /\ Exact(f, keys, n) /\ DOMAIN keys \subseteq 0..(n - 1)
    BY <1>0, <1>4 DEF Sound, Indexed
  <2>3. DOMAIN d = DOMAIN f \ fs /\ (\A k \in DOMAIN d : d[k] = f[k]) /\ \A k \in fs : ToSet(Bucket(f, k)) \subseteq ids
    BY DEF Dropped
  <2> HIDE DEF K, n, f, d, keys
  <2>4. Exact(Purge(d, K, ids), Fewer(keys, ids), n)
    BY <2>1, <2>2, <2>3, PurgeExact
  <2> QED BY <2>4, <1>1, <1>3 DEF K, n, f, d, keys
<1> QED BY <1>2, <1>7, <1>8, <1>9, <1>10 DEF Sound, Indexed, r

LEMMA PurgedSound ==
  ASSUME NEW g, Sound(g), NEW ids
  PROVE  Sound(RemoveNodes(g, ids))
<1>1. Dropped(g, g, {})
  BY DEF Dropped
<1>2. \A k \in {} : ToSet(Bucket(g.byFile, k)) \subseteq ids
  OBVIOUS
<1> QED BY <1>1, <1>2, RemoveSound

LEMMA ForgetSame ==
  ASSUME NEW g, DOMAIN g = GraphFields, NEW stale PROVE SameNodes(g, Forget(g, stale))
<1>1. DOMAIN Forget(g, stale) = DOMAIN g
  BY DEF Forget
<1>2. Forget(g, stale).next = g.next
  BY DEF Forget, GraphFields
<1>3. Forget(g, stale).nodes = g.nodes
  BY DEF Forget, GraphFields
<1>4. Forget(g, stale).byName = g.byName
  BY DEF Forget, GraphFields
<1>5. Forget(g, stale).byPackage = g.byPackage
  BY DEF Forget, GraphFields
<1>6. Forget(g, stale).byFile = g.byFile
  BY DEF Forget, GraphFields
<1>7. Forget(g, stale).byFqcn = g.byFqcn
  BY DEF Forget, GraphFields
<1> QED BY <1>1, <1>2, <1>3, <1>4, <1>5, <1>6, <1>7 DEF SameNodes

LEMMA PatchSound ==
  ASSUME NEW g, Sound(g), NEW fs
  PROVE  Sound(PatchFiles(g, fs))
<1> DEFINE stale == UNION {ToSet(Bucket(g.byFile, f)) : f \in fs}
           rest == [g EXCEPT !.byFile = Restrict(g.byFile, DOMAIN g.byFile \ fs)]
<1>0. DOMAIN g = GraphFields
  BY DEF Sound, Ided
<1>1. Dropped(g, rest, fs)
  <2>1. DOMAIN rest = DOMAIN g /\ rest.next = g.next /\ rest.nodes = g.nodes
    BY <1>0 DEF GraphFields
  <2>2. rest.byName = g.byName /\ rest.byPackage = g.byPackage /\ rest.byFqcn = g.byFqcn
    BY <1>0 DEF GraphFields
  <2>3. rest.byFile = [k \in DOMAIN g.byFile \ fs |-> g.byFile[k]]
    BY <1>0 DEF GraphFields, Restrict
  <2> HIDE DEF rest
  <2> QED BY <2>1, <2>2, <2>3 DEF Dropped
<1>2. \A k \in fs : ToSet(Bucket(g.byFile, k)) \subseteq stale
  OBVIOUS
<1>p. PatchFiles(g, fs) = IF stale = {} THEN rest ELSE Forget(RemoveNodes(rest, stale), stale)
  BY DEF PatchFiles
<1> HIDE DEF stale, rest
<1>3. Sound(RemoveNodes(rest, stale))
  BY <1>1, <1>2, RemoveSound
<1>4. Sound(Forget(RemoveNodes(rest, stale), stale))
  BY <1>3, ForgetSame, SameSound DEF Sound, Ided
<1>5. CASE stale = {}
  <2>1. ASSUME NEW k \in DOMAIN g.byFile PROVE k \notin fs
    <3> SUFFICES ASSUME k \in fs PROVE FALSE
      OBVIOUS
    <3> DEFINE b == Bucket(g.byFile, k)
    <3>1. ToSet(b) = {}
      BY <1>5, <1>2
    <3>2. b = g.byFile[k] /\ b # <<>> /\ b = Listed(FilesIn(g), g.next, k)
      BY <2>1 DEF Sound, Indexed, Exact, Bucket
    <3>3. b \in Seq(Nat)
      BY <3>2, ListedIsSeq DEF Sound, Ided
    <3> HIDE DEF b
    <3>4. b[1] \in ToSet(b)
      BY <3>2, <3>3 DEF ToSet
    <3> QED BY <3>1, <3>4
  <2>2. DOMAIN rest.byFile = DOMAIN g.byFile /\ \A k \in DOMAIN g.byFile : rest.byFile[k] = g.byFile[k]
    BY <1>1, <2>1 DEF Dropped
  <2>3. Ided(rest) /\ NamesIn(rest) = NamesIn(g) /\ PackagesIn(rest) = PackagesIn(g) /\ FilesIn(rest) = FilesIn(g) /\ FqcnsIn(rest) = FqcnsIn(g)
    BY <1>1 DEF Dropped, NamesIn, PackagesIn, FilesIn, FqcnsIn, Sound, Ided
  <2>4. Exact(rest.byFile, FilesIn(g), g.next)
    BY <2>2 DEF Sound, Indexed, Exact, Bucket
  <2>5. Sound(rest)
    BY <2>3, <2>4, <1>1 DEF Sound, Indexed, Dropped
  <2> QED BY <2>5, <1>p, <1>5
<1> QED BY <1>p, <1>4, <1>5

(* `AddNodes`, node by node.                                               *)
PlacedFrom(F, g, ns, n) == F = [i \in 0..n |-> IF i = 0 THEN g ELSE AddNode(F[i - 1], ns[i])]
LEMMA PlacedExists ==
  ASSUME NEW g, NEW ns, NEW n \in Nat
  PROVE  \E F : PlacedFrom(F, g, ns, n)
<1> SUFFICES ASSUME ~\E F : PlacedFrom(F, g, ns, n) PROVE FALSE
  OBVIOUS
<1> DEFINE T == {j \in Nat : ~\E F : PlacedFrom(F, g, ns, j)}
<1>1. T \in SUBSET Nat /\ T # {}
  OBVIOUS
<1> HIDE DEF T
<1>2. PICK j \in T : \A l \in T : j <= l
  BY <1>1, LeastNat
<1>3. j \in Nat /\ ~\E F : PlacedFrom(F, g, ns, j)
  BY DEF T
<1>4. CASE j = 0
  <2>1. PlacedFrom([i \in 0..0 |-> g], g, ns, 0)
    BY DEF PlacedFrom
  <2> QED BY <2>1, <1>4, <1>3
<1>5. CASE j # 0
  <2>1. j - 1 \in Nat /\ j - 1 \notin T
    BY <1>2, <1>3, <1>5
  <2>2. PICK G : PlacedFrom(G, g, ns, j - 1)
    BY <2>1 DEF T
  <2> DEFINE H == [i \in 0..j |-> IF i = j THEN AddNode(G[j - 1], ns[j]) ELSE G[i]]
  <2>3. \A i \in 0..(j - 1) : G[i] = IF i = 0 THEN g ELSE AddNode(G[i - 1], ns[i])
    BY <2>2 DEF PlacedFrom
  <2>4. \A i \in 0..j : H[i] = IF i = 0 THEN g ELSE AddNode(H[i - 1], ns[i])
    BY <2>1, <2>3, <1>3, <1>5
  <2>5. PlacedFrom(H, g, ns, j)
    BY <2>4 DEF PlacedFrom
  <2> QED BY <2>5, <1>3
<1> QED BY <1>4, <1>5

LEMMA PlacedUnfolds ==
  ASSUME NEW g, NEW ns, Len(ns) \in Nat
  PROVE \E F : /\ AddNodes(g, ns) = F[Len(ns)]
               /\ \A i \in 0..Len(ns) : F[i] = IF i = 0 THEN g ELSE AddNode(F[i - 1], ns[i])
<1>1. \E F : PlacedFrom(F, g, ns, Len(ns)) BY PlacedExists
<1> DEFINE F == CHOOSE F : PlacedFrom(F, g, ns, Len(ns))
<1>2. PlacedFrom(F, g, ns, Len(ns)) BY <1>1
<1>3. AddNodes(g, ns) = F[Len(ns)] BY DEF AddNodes, PlacedFrom
<1> HIDE DEF F
<1>4. \A i \in 0..Len(ns) : F[i] = IF i = 0 THEN g ELSE AddNode(F[i - 1], ns[i])
  BY <1>2 DEF PlacedFrom
<1> QED BY <1>3, <1>4

LEMMA AddNodesSound ==
  ASSUME NEW g, Sound(g), NEW ns, Len(ns) \in Nat
  PROVE  Sound(AddNodes(g, ns))
<1>1. Len(ns) \in Nat
  OBVIOUS
<1>2. PICK F : /\ AddNodes(g, ns) = F[Len(ns)]
               /\ \A i \in 0..Len(ns) : F[i] = IF i = 0 THEN g ELSE AddNode(F[i - 1], ns[i])
  BY PlacedUnfolds
<1>3. \A i \in 0..Len(ns) : Sound(F[i])
  <2> DEFINE T == {i \in 0..Len(ns) : ~Sound(F[i])}
  <2> SUFFICES ASSUME T # {} PROVE FALSE
    OBVIOUS
  <2>1. PICK j \in T : \A l \in T : j <= l
    <3>1. T \in SUBSET Nat
      BY <1>1
    <3> HIDE DEF T
    <3> QED BY <3>1, LeastNat
  <2>2. j \in 0..Len(ns) /\ ~Sound(F[j]) /\ j # 0
    BY <1>1, <1>2
  <2>3. j - 1 \in 0..Len(ns) /\ j - 1 \notin T
    BY <1>1, <2>1, <2>2
  <2>4. Sound(F[j - 1])
    BY <2>3
  <2>5. F[j] = AddNode(F[j - 1], ns[j])
    BY <1>2, <2>2
  <2> QED BY <2>2, <2>4, <2>5, AddNodeSound
<1> QED BY <1>1, <1>2, <1>3

LEMMA AddFactsSame ==
  ASSUME NEW g, DOMAIN g = GraphFields, NEW first, NEW idx PROVE SameNodes(g, AddFacts(g, first, idx))
<1>1. DOMAIN AddFacts(g, first, idx) = DOMAIN g
  BY DEF AddFacts
<1>2. AddFacts(g, first, idx).next = g.next
  BY DEF AddFacts, GraphFields
<1>3. AddFacts(g, first, idx).nodes = g.nodes
  BY DEF AddFacts, GraphFields
<1>4. AddFacts(g, first, idx).byName = g.byName
  BY DEF AddFacts, GraphFields
<1>5. AddFacts(g, first, idx).byPackage = g.byPackage
  BY DEF AddFacts, GraphFields
<1>6. AddFacts(g, first, idx).byFile = g.byFile
  BY DEF AddFacts, GraphFields
<1>7. AddFacts(g, first, idx).byFqcn = g.byFqcn
  BY DEF AddFacts, GraphFields
<1> QED BY <1>1, <1>2, <1>3, <1>4, <1>5, <1>6, <1>7 DEF SameNodes

LEMMA ApplySound ==
  ASSUME NEW g, Sound(g), NEW f, NEW idx, Len(NodesOf(f, idx)) \in Nat PROVE Sound(Apply(g, f, idx))
<1>1. Sound(AddNodes(g, NodesOf(f, idx)))
  BY AddNodesSound
<1> QED BY <1>1, AddFactsSame, SameSound DEF Apply, Sound, Ided

(* `WithHubsKept`, topic by topic.                                         *)
GrownFrom(F, g, n) == F = [i \in 0..n |-> IF i = 0 THEN g ELSE IF Sorted[i] \in Topics(g) THEN WithHub(F[i - 1], Sorted[i]) ELSE F[i - 1]]
LEMMA GrownExists ==
  ASSUME NEW g, NEW n \in Nat
  PROVE  \E F : GrownFrom(F, g, n)
<1> SUFFICES ASSUME ~\E F : GrownFrom(F, g, n) PROVE FALSE
  OBVIOUS
<1> DEFINE T == {j \in Nat : ~\E F : GrownFrom(F, g, j)}
<1>1. T \in SUBSET Nat /\ T # {}
  OBVIOUS
<1> HIDE DEF T
<1>2. PICK j \in T : \A l \in T : j <= l
  BY <1>1, LeastNat
<1>3. j \in Nat /\ ~\E F : GrownFrom(F, g, j)
  BY DEF T
<1>4. CASE j = 0
  <2>1. GrownFrom([i \in 0..0 |-> g], g, 0)
    BY DEF GrownFrom
  <2> QED BY <2>1, <1>4, <1>3
<1>5. CASE j # 0
  <2>1. j - 1 \in Nat /\ j - 1 \notin T
    BY <1>2, <1>3, <1>5
  <2>2. PICK G : GrownFrom(G, g, j - 1)
    BY <2>1 DEF T
  <2> DEFINE H == [i \in 0..j |-> IF i = j THEN IF Sorted[j] \in Topics(g) THEN WithHub(G[j - 1], Sorted[j]) ELSE G[j - 1] ELSE G[i]]
  <2>3. \A i \in 0..(j - 1) : G[i] = IF i = 0 THEN g ELSE IF Sorted[i] \in Topics(g) THEN WithHub(G[i - 1], Sorted[i]) ELSE G[i - 1]
    BY <2>2 DEF GrownFrom
  <2>4. \A i \in 0..j : H[i] = IF i = 0 THEN g ELSE IF Sorted[i] \in Topics(g) THEN WithHub(H[i - 1], Sorted[i]) ELSE H[i - 1]
    BY <2>1, <2>3, <1>3, <1>5
  <2>5. GrownFrom(H, g, j)
    BY <2>4 DEF GrownFrom
  <2> QED BY <2>5, <1>3
<1> QED BY <1>4, <1>5

LEMMA GrownUnfolds ==
  ASSUME NEW g, Len(Sorted) \in Nat
  PROVE \E F : /\ WithHubsKept(g) = F[Len(Sorted)]
               /\ \A i \in 0..Len(Sorted) : F[i] = IF i = 0 THEN g ELSE IF Sorted[i] \in Topics(g) THEN WithHub(F[i - 1], Sorted[i]) ELSE F[i - 1]
<1>1. \E F : GrownFrom(F, g, Len(Sorted)) BY GrownExists
<1> DEFINE F == CHOOSE F : GrownFrom(F, g, Len(Sorted))
<1>2. GrownFrom(F, g, Len(Sorted)) BY <1>1
<1>3. WithHubsKept(g) = F[Len(Sorted)] BY DEF WithHubsKept, GrownFrom
<1> HIDE DEF F
<1>4. \A i \in 0..Len(Sorted) : F[i] = IF i = 0 THEN g ELSE IF Sorted[i] \in Topics(g) THEN WithHub(F[i - 1], Sorted[i]) ELSE F[i - 1]
  BY <1>2 DEF GrownFrom
<1> QED BY <1>3, <1>4

LEMMA WithHubSound ==
  ASSUME NEW g, Sound(g), NEW k
  PROVE  Sound(WithHub(g, k))
BY AddNodeSound DEF WithHub

LEMMA HubsKeptSound ==
  ASSUME NEW g, Sound(g)
  PROVE  Sound(WithHubsKept(g))
<1>1. Len(Sorted) \in Nat
  BY GraphAssumption DEF IsList
<1>2. PICK F : /\ WithHubsKept(g) = F[Len(Sorted)]
               /\ \A i \in 0..Len(Sorted) :
                    F[i] = IF i = 0 THEN g ELSE IF Sorted[i] \in Topics(g) THEN WithHub(F[i - 1], Sorted[i]) ELSE F[i - 1]
  BY <1>1, GrownUnfolds
<1>3. \A i \in 0..Len(Sorted) : Sound(F[i])
  <2> DEFINE T == {i \in 0..Len(Sorted) : ~Sound(F[i])}
  <2> SUFFICES ASSUME T # {} PROVE FALSE
    OBVIOUS
  <2>1. PICK j \in T : \A l \in T : j <= l
    <3>1. T \in SUBSET Nat
      BY <1>1
    <3> HIDE DEF T
    <3> QED BY <3>1, LeastNat
  <2>2. j \in 0..Len(Sorted) /\ ~Sound(F[j]) /\ j # 0
    BY <1>1, <1>2
  <2>3. j - 1 \in 0..Len(Sorted) /\ j - 1 \notin T
    BY <1>1, <2>1, <2>2
  <2>4. Sound(F[j - 1])
    BY <2>3
  <2>5. F[j] = WithHub(F[j - 1], Sorted[j]) \/ F[j] = F[j - 1]
    BY <1>2, <2>2
  <2> QED BY <2>2, <2>4, <2>5, WithHubSound
<1> QED BY <1>1, <1>2, <1>3

LEMMA ReconcileSound ==
  ASSUME NEW g, Sound(g)
  PROVE  Sound(ReconcileEdges(g))
<1> DEFINE h == WithHubs(g)
<1>1. Sound(h)
  BY PurgedSound, HubsKeptSound DEF WithHubs
<1> HIDE DEF h
<1>2. \A names, imports : SameNodes(h, WithEdges(h, names, imports))
  <2> TAKE names, imports
  <2> DEFINE e == WithEdges(h, names, imports)
  <2>0. DOMAIN h = GraphFields
    BY <1>1 DEF Sound, Ided
  <2>1. DOMAIN e = DOMAIN h
    BY <2>0 DEF WithEdges
  <2>2. e.next = h.next
    BY <2>0 DEF WithEdges, GraphFields
  <2>3. e.nodes = h.nodes
    BY <2>0 DEF WithEdges, GraphFields
  <2>4. e.byName = h.byName
    BY <2>0 DEF WithEdges, GraphFields
  <2>5. e.byPackage = h.byPackage
    BY <2>0 DEF WithEdges, GraphFields
  <2>6. e.byFile = h.byFile
    BY <2>0 DEF WithEdges, GraphFields
  <2>7. e.byFqcn = h.byFqcn
    BY <2>0 DEF WithEdges, GraphFields
  <2> QED BY <2>1, <2>2, <2>3, <2>4, <2>5, <2>6, <2>7 DEF SameNodes
<1>3. ReconcileEdges(g) = WithEdges(h, RpcNames(h), ImportEdges(g))
  BY DEF ReconcileEdges, Reconciled, h
<1> QED BY <1>1, <1>2, <1>3, SameSound

(* `Folded`, file by file.                                                 *)
DoneFrom(F, g, fs, c, n) == F = [i \in 0..n |-> IF i = 0 THEN g ELSE IF Files[i] \in fs /\ c[Files[i]] # NoFile THEN Apply(F[i - 1], Files[i], Extracted[c[Files[i]]]) ELSE F[i - 1]]
LEMMA DoneExists ==
  ASSUME NEW g, NEW fs, NEW c, NEW n \in Nat
  PROVE  \E F : DoneFrom(F, g, fs, c, n)
<1> SUFFICES ASSUME ~\E F : DoneFrom(F, g, fs, c, n) PROVE FALSE
  OBVIOUS
<1> DEFINE T == {j \in Nat : ~\E F : DoneFrom(F, g, fs, c, j)}
<1>1. T \in SUBSET Nat /\ T # {}
  OBVIOUS
<1> HIDE DEF T
<1>2. PICK j \in T : \A l \in T : j <= l
  BY <1>1, LeastNat
<1>3. j \in Nat /\ ~\E F : DoneFrom(F, g, fs, c, j)
  BY DEF T
<1>4. CASE j = 0
  <2>1. DoneFrom([i \in 0..0 |-> g], g, fs, c, 0)
    BY DEF DoneFrom
  <2> QED BY <2>1, <1>4, <1>3
<1>5. CASE j # 0
  <2>1. j - 1 \in Nat /\ j - 1 \notin T
    BY <1>2, <1>3, <1>5
  <2>2. PICK G : DoneFrom(G, g, fs, c, j - 1)
    BY <2>1 DEF T
  <2> DEFINE H == [i \in 0..j |-> IF i = j THEN IF Files[j] \in fs /\ c[Files[j]] # NoFile THEN Apply(G[j - 1], Files[j], Extracted[c[Files[j]]]) ELSE G[j - 1] ELSE G[i]]
  <2>3. \A i \in 0..(j - 1) : G[i] = IF i = 0 THEN g ELSE IF Files[i] \in fs /\ c[Files[i]] # NoFile THEN Apply(G[i - 1], Files[i], Extracted[c[Files[i]]]) ELSE G[i - 1]
    BY <2>2 DEF DoneFrom
  <2>4. \A i \in 0..j : H[i] = IF i = 0 THEN g ELSE IF Files[i] \in fs /\ c[Files[i]] # NoFile THEN Apply(H[i - 1], Files[i], Extracted[c[Files[i]]]) ELSE H[i - 1]
    BY <2>1, <2>3, <1>3, <1>5
  <2>5. DoneFrom(H, g, fs, c, j)
    BY <2>4 DEF DoneFrom
  <2> QED BY <2>5, <1>3
<1> QED BY <1>4, <1>5

LEMMA DoneUnfolds ==
  ASSUME NEW g, NEW fs, NEW c, Len(Files) \in Nat
  PROVE \E F : /\ Folded(g, fs, c) = F[Len(Files)]
               /\ \A i \in 0..Len(Files) : F[i] = IF i = 0 THEN g ELSE IF Files[i] \in fs /\ c[Files[i]] # NoFile THEN Apply(F[i - 1], Files[i], Extracted[c[Files[i]]]) ELSE F[i - 1]
<1>1. \E F : DoneFrom(F, g, fs, c, Len(Files)) BY DoneExists
<1> DEFINE F == CHOOSE F : DoneFrom(F, g, fs, c, Len(Files))
<1>2. DoneFrom(F, g, fs, c, Len(Files)) BY <1>1
<1>3. Folded(g, fs, c) = F[Len(Files)] BY DEF Folded, DoneFrom
<1> HIDE DEF F
<1>4. \A i \in 0..Len(Files) : F[i] = IF i = 0 THEN g ELSE IF Files[i] \in fs /\ c[Files[i]] # NoFile THEN Apply(F[i - 1], Files[i], Extracted[c[Files[i]]]) ELSE F[i - 1]
  BY <1>2 DEF DoneFrom
<1> QED BY <1>3, <1>4

LEMMA FoldedSound ==
  ASSUME NEW g, Sound(g), NEW fs, NEW c \in Inhabited
  PROVE  Sound(Folded(g, fs, c))
<1>1. Len(Files) \in Nat
  BY GraphAssumption DEF IsList
<1>2. PICK F : /\ Folded(g, fs, c) = F[Len(Files)]
               /\ \A i \in 0..Len(Files) :
                    F[i] = IF i = 0 THEN g
                           ELSE IF Files[i] \in fs /\ c[Files[i]] # NoFile THEN Apply(F[i - 1], Files[i], Extracted[c[Files[i]]])
                           ELSE F[i - 1]
  BY <1>1, DoneUnfolds
<1>3. \A i \in 0..Len(Files) : Sound(F[i])
  <2> DEFINE T == {i \in 0..Len(Files) : ~Sound(F[i])}
  <2> SUFFICES ASSUME T # {} PROVE FALSE
    OBVIOUS
  <2>1. PICK j \in T : \A l \in T : j <= l
    <3>1. T \in SUBSET Nat
      BY <1>1
    <3> HIDE DEF T
    <3> QED BY <3>1, LeastNat
  <2>2. j \in 0..Len(Files) /\ ~Sound(F[j]) /\ j # 0
    BY <1>1, <1>2
  <2>3. j - 1 \in 0..Len(Files) /\ j - 1 \notin T
    BY <1>1, <2>1, <2>2
  <2>4. Sound(F[j - 1])
    BY <2>3
  <2>5. CASE Files[j] \in fs /\ c[Files[j]] # NoFile
    <3> DEFINE idx == Extracted[c[Files[j]]]
    <3>1. F[j] = Apply(F[j - 1], Files[j], idx)
      BY <1>2, <2>2, <2>5
    <3>2. Files[j] \in ToSet(Files)
      <4>1. j \in 1..Len(Files) /\ DOMAIN Files = 1..Len(Files)
        BY <1>1, <2>2, GraphAssumption DEF IsList
      <4> QED BY <4>1 DEF ToSet
    <3>3. c[Files[j]] \in DOMAIN Extracted
      BY <3>2, <2>5, GraphAssumption DEF Inhabited
    <3>4. Len(NodesOf(Files[j], idx)) \in Nat
      <4>1. idx.nodes \in Seq(ToSet(idx.nodes))
        BY <3>3, ExtractedAssumption DEF IsList
      <4> DEFINE N == ToSet(idx.nodes)
                 ns == NodesOf(Files[j], idx)
      <4>2. DOMAIN ns = DOMAIN idx.nodes
        BY DEF NodesOf
      <4>3. DOMAIN idx.nodes = 1..Len(idx.nodes) /\ Len(idx.nodes) \in Nat
        <5> DEFINE x == idx.nodes
        <5> HIDE DEF N, x
        <5>1. x \in Seq(N)
          BY <4>1 DEF N, x
        <5>2. DOMAIN x = 1..Len(x) /\ Len(x) \in Nat
          BY <5>1
        <5> QED BY <5>2 DEF x
      <4> HIDE DEF ns
      <4> QED BY <4>2, <4>3, LenProperties DEF ns
    <3> QED BY <2>2, <2>4, <3>1, <3>4, ApplySound
  <2>6. CASE ~(Files[j] \in fs /\ c[Files[j]] # NoFile)
    BY <1>2, <2>2, <2>4, <2>6
  <2> QED BY <2>5, <2>6
<1> QED BY <1>1, <1>2, <1>3

(* Whatever is built, in full or by reloads, has exact indices.            *)
LEMMA BuiltSound ==
  ASSUME NEW c \in Inhabited
  PROVE  Sound(FullBuild(c))
BY EmptySound, FoldedSound, ReconcileSound DEF FullBuild
LEMMA ReloadedSound ==
  ASSUME NEW g, Sound(g), NEW fs, NEW c \in Inhabited
  PROVE  Sound(ApplyIncremental(g, fs, c))
BY PatchSound, FoldedSound, ReconcileSound DEF ApplyIncremental

IndexInv == content \in Inhabited /\ Sound(graph)
(* The indices are exact, for any contents and any sequence of reloads: the *)
(* ids under a name, a package, a file or a qualified name are those of the *)
(* nodes that have it, in the order they were added, and no bucket is left  *)
(* empty (`add_node`, `remove_nodes`, `retain_bucket`).                     *)
THEOREM IndicesAlwaysExact == Spec => []IndicesDescribeNodes
<1>1. Init => IndexInv
  <2> SUFFICES ASSUME Init PROVE IndexInv
    OBVIOUS
  <2>1. content \in Inhabited /\ graph = FullBuild(content)
    BY DEF Init, Rebuilt
  <2> QED BY <2>1, BuiltSound DEF IndexInv
<1>2. IndexInv /\ [Next]_vars => IndexInv'
  <2> SUFFICES ASSUME IndexInv, [Next]_vars PROVE IndexInv'
    OBVIOUS
  <2>1. ASSUME NEW fs, Reload(fs) PROVE IndexInv'
    <3>1. content' \in Inhabited /\ graph' = ApplyIncremental(graph, fs, content')
      BY <2>1 DEF Reload
    <3> QED BY <3>1, ReloadedSound DEF IndexInv
  <2>2. CASE UNCHANGED vars
    <3>1. content' = content /\ graph' = graph
      BY <2>2 DEF vars
    <3> QED BY <3>1 DEF IndexInv
  <2> QED BY <2>1, <2>2 DEF Next
<1>3. IndexInv => IndicesDescribeNodes
  <2> SUFFICES ASSUME IndexInv PROVE IndicesDescribeNodes
    OBVIOUS
  <2>1. \A f, keys, n : Exact(f, keys, n) => Lists(f, keys, n)
    BY DEF Exact, Lists
  <2> QED BY <2>1 DEF IndexInv, Sound, Indexed, IndicesDescribeNodes
<1> QED BY <1>1, <1>2, <1>3, PTL DEF Spec

----
(* What is in a list: after taking out, pushing, joining.                  *)
LEMMA WithoutMembers ==
  ASSUME NEW S, NEW s \in Seq(S), NEW ids
  PROVE Without(s, ids) \in Seq(S) /\ ToSet(Without(s, ids)) = ToSet(s) \ ids
<1>0. Len(s) \in Nat /\ DOMAIN s = 1..Len(s)
  OBVIOUS
<1>1. PICK F : KeptFrom(F, s, ids, Len(s)) /\ Without(s, ids) = F[Len(s)]
  BY <1>0, WithoutUnfolds
<1>3. \A i \in 0..Len(s) : F[i] = IF i = 0 THEN <<>> ELSE IF s[i] \in ids THEN F[i - 1] ELSE Append(F[i - 1], s[i])
  BY <1>1 DEF KeptFrom
<1> DEFINE Fine(i) == F[i] \in Seq(S) /\ ToSet(F[i]) = {s[j] : j \in 1..i} \ ids
<1>5. \A i \in 0..Len(s) : Fine(i)
  <2> DEFINE T == {i \in 0..Len(s) : ~Fine(i)}
  <2> SUFFICES ASSUME T # {} PROVE FALSE
    OBVIOUS
  <2>1. PICK k \in T : \A m \in T : k <= m
    <3>1. T \in SUBSET Nat
      BY <1>0
    <3> HIDE DEF T
    <3> QED BY <3>1, LeastNat
  <2>0. Fine(0)
    <3>1. F[0] = <<>>
      BY <1>0, <1>3
    <3>2. <<>> \in Seq(S) /\ ToSet(<<>>) = {}
      BY DEF ToSet
    <3> QED BY <3>1, <3>2
  <2>3. k \in 0..Len(s) /\ ~Fine(k) /\ k # 0
    BY <2>0
  <2>4. k - 1 \in 0..Len(s) /\ k - 1 \notin T
    <3> HIDE DEF T
    <3> QED BY <2>1, <2>3, <1>0
  <2>5. Fine(k - 1)
    BY <2>4
  <2> DEFINE e == F[k - 1]
             x == s[k]
  <2>6. e \in Seq(S) /\ x \in S /\ ToSet(e) = {s[j] : j \in 1..(k - 1)} \ ids
    BY <2>5, <2>3, <1>0
  <2>7. F[k] = IF x \in ids THEN e ELSE Append(e, x)
    BY <1>3, <2>3
  <2>8. {s[j] : j \in 1..k} = {s[j] : j \in 1..(k - 1)} \cup {x}
    BY <2>3, <1>0
  <2> HIDE DEF e, x
  <2>9. Append(e, x) \in Seq(S) /\ ToSet(Append(e, x)) = ToSet(e) \cup {x}
    <3>1. Append(e, x) \in Seq(S) /\ Len(Append(e, x)) = Len(e) + 1 /\ Len(e) \in Nat /\ DOMAIN e = 1..Len(e)
      BY <2>6
    <3>2. \A i \in 1..(Len(e) + 1) : Append(e, x)[i] = IF i = Len(e) + 1 THEN x ELSE e[i]
      BY <2>6
    <3>3. DOMAIN Append(e, x) = 1..(Len(e) + 1)
      BY <2>6
    <3> QED BY SMTT(30), <3>1, <3>2, <3>3 DEF ToSet
  <2> QED BY <2>3, <2>6, <2>7, <2>8, <2>9
<1>6. Len(s) \in 0..Len(s)
  BY <1>0
<1>7. Fine(Len(s))
  <2> HIDE DEF Fine
  <2> QED BY <1>5, <1>6
<1>8. ToSet(s) = {s[j] : j \in 1..Len(s)}
  BY <1>0 DEF ToSet
<1> QED BY <1>1, <1>7, <1>8

LEMMA AppendMembers ==
  ASSUME NEW S, NEW s \in Seq(S), NEW x \in S
  PROVE ToSet(Append(s, x)) = ToSet(s) \cup {x}
<1>1. Len(s) \in Nat /\ DOMAIN s = 1..Len(s) /\ DOMAIN Append(s, x) = 1..(Len(s) + 1)
  OBVIOUS
<1>2. \A i \in 1..(Len(s) + 1) : Append(s, x)[i] = IF i = Len(s) + 1 THEN x ELSE s[i]
  OBVIOUS
<1> QED BY <1>1, <1>2 DEF ToSet

LEMMA JoinMembers ==
  ASSUME NEW S, NEW s \in Seq(S), NEW t \in Seq(S)
  PROVE s \o t \in Seq(S) /\ ToSet(s \o t) = ToSet(s) \cup ToSet(t)
<1>1. s \o t \in Seq(S) /\ Len(s) \in Nat /\ Len(t) \in Nat /\ DOMAIN s = 1..Len(s) /\ DOMAIN t = 1..Len(t)
      /\ DOMAIN (s \o t) = 1..(Len(s) + Len(t))
  OBVIOUS
<1>2. \A i \in 1..(Len(s) + Len(t)) : (s \o t)[i] = IF i <= Len(s) THEN s[i] ELSE t[i - Len(s)]
  OBVIOUS
<1>3. \A i \in 1..Len(s) : (s \o t)[i] = s[i] /\ i \in 1..(Len(s) + Len(t))
  BY <1>1, <1>2
<1>4. \A i \in 1..Len(t) : (s \o t)[i + Len(s)] = t[i] /\ i + Len(s) \in 1..(Len(s) + Len(t))
  <2> TAKE i \in 1..Len(t)
  <2>1. i + Len(s) \in 1..(Len(s) + Len(t)) /\ ~(i + Len(s) <= Len(s)) /\ (i + Len(s)) - Len(s) = i
    BY <1>1
  <2> QED BY <2>1, <1>2
<1>5. ToSet(s \o t) \subseteq ToSet(s) \cup ToSet(t)
  BY <1>1, <1>2 DEF ToSet
<1>6. ToSet(s) \subseteq ToSet(s \o t)
  BY <1>1, <1>3 DEF ToSet
<1>7. ToSet(t) \subseteq ToSet(s \o t)
  BY <1>1, <1>4 DEF ToSet
<1> QED BY <1>1, <1>5, <1>6, <1>7

(* Who is listed under a key: the nodes that have it.                      *)
LEMMA ListedMembers ==
  ASSUME NEW keys, NEW n \in Nat, NEW k, \A i \in DOMAIN keys : ShortKeys(keys[i])
  PROVE ToSet(Listed(keys, n, k)) = {i \in DOMAIN keys \cap 0..(n - 1) : k \in ToSet(keys[i])}
<1> DEFINE Having(m) == {i \in DOMAIN keys \cap 0..(m - 1) : k \in ToSet(keys[i])}
           Fine(m) == ToSet(Listed(keys, m, k)) = Having(m)
<1> SUFFICES ASSUME ~Fine(n) PROVE FALSE
  OBVIOUS
<1> DEFINE T == {j \in Nat : ~Fine(j)}
<1>1. PICK j \in T : \A l \in T : j <= l
  <2>1. T \in SUBSET Nat /\ T # {}
    OBVIOUS
  <2> HIDE DEF T
  <2> QED BY <2>1, LeastNat
<1>0. Fine(0)
  <2>1. Having(0) = {}
    OBVIOUS
  <2>2. ToSet(<<>>) = {}
    BY DEF ToSet
  <2> QED BY <2>1, <2>2, ListedZero
<1>2. j \in Nat /\ ~Fine(j) /\ j # 0
  BY <1>0
<1> DEFINE i == j - 1
<1>3. i \in Nat /\ i \notin T /\ i + 1 = j
  BY <1>1, <1>2
<1>4. ToSet(Listed(keys, i, k)) = Having(i)
  BY <1>3
<1>5. Having(i + 1) = Having(i) \cup (IF i \in DOMAIN keys /\ k \in ToSet(keys[i]) THEN {i} ELSE {})
  BY <1>3
<1> HIDE DEF i, T, Having
<1>6. Listed(keys, i + 1, k) = Listed(keys, i, k) \o Entry(keys, i, k)
  BY <1>3, ListedNext
<1>7. Listed(keys, i, k) \in Seq(Nat)
  BY <1>3, ListedIsSeq
<1>8. Entry(keys, i, k) \in Seq(Nat) /\ ToSet(Entry(keys, i, k)) = IF i \in DOMAIN keys /\ k \in ToSet(keys[i]) THEN {i} ELSE {}
  <2>1. /\ <<>> \in Seq(Nat) /\ <<i>> \in Seq(Nat) /\ <<i, i>> \in Seq(Nat)
        /\ ToSet(<<>>) = {} /\ ToSet(<<i>>) = {i} /\ ToSet(<<i, i>>) = {i}
    BY <1>3 DEF ToSet
  <2>2. CASE i \notin DOMAIN keys
    BY <2>1, <2>2 DEF Entry
  <2>3. CASE i \in DOMAIN keys
    <3> DEFINE ks == keys[i]
    <3>0. ShortKeys(ks)
      BY <2>3
    <3>1. Entry(keys, i, k) = IF (1 \in DOMAIN ks /\ ks[1] = k) /\ (2 \in DOMAIN ks /\ ks[2] = k) THEN <<i, i>>
                              ELSE IF (1 \in DOMAIN ks /\ ks[1] = k) \/ (2 \in DOMAIN ks /\ ks[2] = k) THEN <<i>> ELSE <<>>
      BY <2>3 DEF Entry
    <3> HIDE DEF ks
    <3>2. k \in ToSet(ks) <=> (1 \in DOMAIN ks /\ ks[1] = k) \/ (2 \in DOMAIN ks /\ ks[2] = k)
      <4>1. CASE ks = <<>>
        BY <4>1 DEF ToSet
      <4>2. CASE \E a : ks = <<a>>
        BY <4>2 DEF ToSet
      <4>3. CASE \E a, b : ks = <<a, b>>
        BY <4>3 DEF ToSet
      <4> QED BY <3>0, <4>1, <4>2, <4>3 DEF ShortKeys
    <3> QED BY <2>1, <2>3, <3>1, <3>2 DEF ks
  <2> QED BY <2>2, <2>3
<1> DEFINE l == Listed(keys, i, k)
           e == Entry(keys, i, k)
<1>9. ToSet(l \o e) = ToSet(l) \cup ToSet(e)
  <2>1. l \in Seq(Nat) /\ e \in Seq(Nat)
    BY <1>7, <1>8
  <2> HIDE DEF l, e
  <2> QED BY <2>1, JoinMembers
<1> QED BY <1>2, <1>3, <1>4, <1>5, <1>6, <1>8, <1>9
----
(* The facts, as pairs of a key and a node.                                *)
Filled(m) == \A k \in DOMAIN m : m[k] \in Seq(Nat) /\ m[k] # <<>>

LEMMA PairsAre ==
  ASSUME NEW m
  PROVE /\ \A k, i : <<k, i>> \in PairsOf(m) <=> k \in DOMAIN m /\ i \in ToSet(m[k])
        /\ \A p \in PairsOf(m) : p = <<p[1], p[2]>>
BY DEF PairsOf

LEMMA PushPairs ==
  ASSUME NEW m, Filled(m), NEW k, NEW x \in Nat
  PROVE Filled(Push(m, k, x)) /\ PairsOf(Push(m, k, x)) = PairsOf(m) \cup {<<k, x>>}
<1> DEFINE b == Bucket(m, k)
           q == Push(m, k, x)
<1>1. b \in Seq(Nat) /\ (k \in DOMAIN m => b = m[k]) /\ (k \notin DOMAIN m => b = <<>>)
  <2>1. <<>> \in Seq(Nat)
    OBVIOUS
  <2> QED BY <2>1 DEF Filled, Bucket
<1>2. DOMAIN q = DOMAIN m \cup {k} /\ \A j \in DOMAIN q : q[j] = IF j = k THEN Append(b, x) ELSE m[j]
  BY DEF Push
<1> HIDE DEF b, q
<1>3. Append(b, x) \in Seq(Nat) /\ Append(b, x) # <<>> /\ ToSet(Append(b, x)) = ToSet(b) \cup {x}
  BY <1>1, AppendMembers
<1>4. Filled(q)
  BY <1>2, <1>3 DEF Filled
<1>5. ToSet(<<>>) = {}
  BY DEF ToSet
<1>6. \A j, i : <<j, i>> \in PairsOf(q) <=> (<<j, i>> \in PairsOf(m) \/ (j = k /\ i = x))
  <2> TAKE j, i
  <2>1. <<j, i>> \in PairsOf(q) <=> j \in DOMAIN q /\ i \in ToSet(q[j])
    BY PairsAre
  <2>2. <<j, i>> \in PairsOf(m) <=> j \in DOMAIN m /\ i \in ToSet(m[j])
    BY PairsAre
  <2> QED BY <2>1, <2>2, <1>1, <1>2, <1>3, <1>5
<1>7. \A p \in PairsOf(q) : p \in PairsOf(m) \cup {<<k, x>>}
  <2> TAKE p \in PairsOf(q)
  <2>1. p = <<p[1], p[2]>>
    BY PairsAre
  <2> QED BY <2>1, <1>6
<1>8. \A p \in PairsOf(m) \cup {<<k, x>>} : p \in PairsOf(q)
  <2> TAKE p \in PairsOf(m) \cup {<<k, x>>}
  <2>1. p = <<p[1], p[2]>>
    BY PairsAre
  <2> QED BY <2>1, <1>6
<1> QED BY <1>4, <1>7, <1>8 DEF q

LEMMA RetainPairs ==
  ASSUME NEW m, Filled(m), NEW ids
  PROVE Filled(Retain(m, ids)) /\ PairsOf(Retain(m, ids)) = {p \in PairsOf(m) : p[2] \notin ids}
<1> DEFINE q == Retain(m, ids)
<1>1. /\ DOMAIN q = {j \in DOMAIN m : Without(m[j], ids) # <<>>}
      /\ \A j \in DOMAIN q : q[j] = Without(m[j], ids)
  BY DEF Retain, Purge
<1> HIDE DEF q
<1>2. \A j \in DOMAIN m : Without(m[j], ids) \in Seq(Nat) /\ ToSet(Without(m[j], ids)) = ToSet(m[j]) \ ids
  BY WithoutMembers DEF Filled
<1>3. Filled(q)
  BY <1>1, <1>2 DEF Filled
<1>4. ToSet(<<>>) = {}
  BY DEF ToSet
<1>5. \A j, i : <<j, i>> \in PairsOf(q) <=> <<j, i>> \in PairsOf(m) /\ i \notin ids
  <2> TAKE j, i
  <2>1. <<j, i>> \in PairsOf(q) <=> j \in DOMAIN q /\ i \in ToSet(q[j])
    BY PairsAre
  <2>2. <<j, i>> \in PairsOf(m) <=> j \in DOMAIN m /\ i \in ToSet(m[j])
    BY PairsAre
  <2> QED BY <2>1, <2>2, <1>1, <1>2, <1>4
<1>6. \A p \in PairsOf(q) : p \in PairsOf(m) /\ p[2] \notin ids
  <2> TAKE p \in PairsOf(q)
  <2>1. p = <<p[1], p[2]>>
    BY PairsAre
  <2> QED BY <2>1, <1>5
<1>7. \A p \in PairsOf(m) : p[2] \notin ids => p \in PairsOf(q)
  <2> TAKE p \in PairsOf(m)
  <2>1. p = <<p[1], p[2]>>
    BY PairsAre
  <2> QED BY <2>1, <1>5
<1> QED BY <1>3, <1>6, <1>7 DEF q

(* `AddRelation`, fact by fact.                                            *)
NotedFrom(F, m, rel, first, topical, n) == F = [i \in 0..n |-> IF i = 0 THEN m ELSE Push(F[i - 1], KeyOf(rel[i], topical), first + rel[i][1] - 1)]
LEMMA NotedExists ==
  ASSUME NEW m, NEW rel, NEW first, NEW topical, NEW n \in Nat
  PROVE  \E F : NotedFrom(F, m, rel, first, topical, n)
<1> SUFFICES ASSUME ~\E F : NotedFrom(F, m, rel, first, topical, n) PROVE FALSE
  OBVIOUS
<1> DEFINE T == {j \in Nat : ~\E F : NotedFrom(F, m, rel, first, topical, j)}
<1>1. T \in SUBSET Nat /\ T # {}
  OBVIOUS
<1> HIDE DEF T
<1>2. PICK j \in T : \A l \in T : j <= l
  BY <1>1, LeastNat
<1>3. j \in Nat /\ ~\E F : NotedFrom(F, m, rel, first, topical, j)
  BY DEF T
<1>4. CASE j = 0
  <2>1. NotedFrom([i \in 0..0 |-> m], m, rel, first, topical, 0)
    BY DEF NotedFrom
  <2> QED BY <2>1, <1>4, <1>3
<1>5. CASE j # 0
  <2>1. j - 1 \in Nat /\ j - 1 \notin T
    BY <1>2, <1>3, <1>5
  <2>2. PICK G : NotedFrom(G, m, rel, first, topical, j - 1)
    BY <2>1 DEF T
  <2> DEFINE H == [i \in 0..j |-> IF i = j THEN Push(G[j - 1], KeyOf(rel[j], topical), first + rel[j][1] - 1) ELSE G[i]]
  <2>3. \A i \in 0..(j - 1) : G[i] = IF i = 0 THEN m ELSE Push(G[i - 1], KeyOf(rel[i], topical), first + rel[i][1] - 1)
    BY <2>2 DEF NotedFrom
  <2>4. \A i \in 0..j : H[i] = IF i = 0 THEN m ELSE Push(H[i - 1], KeyOf(rel[i], topical), first + rel[i][1] - 1)
    BY <2>1, <2>3, <1>3, <1>5
  <2>5. NotedFrom(H, m, rel, first, topical, j)
    BY <2>4 DEF NotedFrom
  <2> QED BY <2>5, <1>3
<1> QED BY <1>4, <1>5

LEMMA NotedUnfolds ==
  ASSUME NEW m, NEW rel, NEW first, NEW topical, Len(rel) \in Nat
  PROVE \E F : /\ AddRelation(m, rel, first, topical) = F[Len(rel)]
               /\ \A i \in 0..Len(rel) : F[i] = IF i = 0 THEN m ELSE Push(F[i - 1], KeyOf(rel[i], topical), first + rel[i][1] - 1)
<1>1. \E F : NotedFrom(F, m, rel, first, topical, Len(rel)) BY NotedExists
<1> DEFINE F == CHOOSE F : NotedFrom(F, m, rel, first, topical, Len(rel))
<1>2. NotedFrom(F, m, rel, first, topical, Len(rel)) BY <1>1
<1>3. AddRelation(m, rel, first, topical) = F[Len(rel)] BY DEF AddRelation, NotedFrom
<1> HIDE DEF F
<1>4. \A i \in 0..Len(rel) : F[i] = IF i = 0 THEN m ELSE Push(F[i - 1], KeyOf(rel[i], topical), first + rel[i][1] - 1)
  BY <1>2 DEF NotedFrom
<1> QED BY <1>3, <1>4

(* A relation adds a pair for each of its facts.                           *)
Noted(rel, first, topical) == {<<KeyOf(r, topical), first + r[1] - 1>> : r \in ToSet(rel)}
LEMMA RelationPairs ==
  ASSUME NEW m, Filled(m), NEW rel, IsList(rel), NEW first \in Nat, NEW topical, \A r \in ToSet(rel) : r[1] \in Nat \ {0}
  PROVE /\ Filled(AddRelation(m, rel, first, topical))
        /\ PairsOf(AddRelation(m, rel, first, topical)) = PairsOf(m) \cup Noted(rel, first, topical)
<1>1. Len(rel) \in Nat /\ DOMAIN rel = 1..Len(rel)
  BY DEF IsList
<1>2. PICK F : /\ AddRelation(m, rel, first, topical) = F[Len(rel)]
               /\ \A i \in 0..Len(rel) : F[i] = IF i = 0 THEN m ELSE Push(F[i - 1], KeyOf(rel[i], topical), first + rel[i][1] - 1)
  BY <1>1, NotedUnfolds
<1> DEFINE Upto(n) == {<<KeyOf(rel[j], topical), first + rel[j][1] - 1>> : j \in 1..n}
           Fine(n) == Filled(F[n]) /\ PairsOf(F[n]) = PairsOf(m) \cup Upto(n)
<1>3. \A i \in 0..Len(rel) : Fine(i)
  <2> DEFINE T == {i \in 0..Len(rel) : ~Fine(i)}
  <2> SUFFICES ASSUME T # {} PROVE FALSE
    OBVIOUS
  <2>1. PICK j \in T : \A n \in T : j <= n
    <3>1. T \in SUBSET Nat
      BY <1>1
    <3> HIDE DEF T
    <3> QED BY <3>1, LeastNat
  <2>0. Fine(0)
    <3>1. Upto(0) = {} /\ F[0] = m
      BY <1>1, <1>2
    <3> QED BY <3>1
  <2>2. j \in 0..Len(rel) /\ ~Fine(j) /\ j # 0
    BY <2>0
  <2>3. j - 1 \in 0..Len(rel) /\ j - 1 \notin T
    <3> HIDE DEF T
    <3> QED BY <1>1, <2>1, <2>2
  <2>4. Fine(j - 1)
    <3> HIDE DEF Fine
    <3> QED BY <2>3
  <2>5. F[j] = Push(F[j - 1], KeyOf(rel[j], topical), first + rel[j][1] - 1)
    BY <1>2, <2>2
  <2>6. first + rel[j][1] - 1 \in Nat
    <3>1. rel[j] \in ToSet(rel)
      BY <1>1, <2>2 DEF ToSet
    <3>2. rel[j][1] \in Nat \ {0}
      BY <3>1
    <3> QED BY <3>2
  <2>7. Upto(j) = Upto(j - 1) \cup {<<KeyOf(rel[j], topical), first + rel[j][1] - 1>>}
    <3>1. 1..j = (1..(j - 1)) \cup {j}
      BY <1>1, <2>2
    <3> QED BY <3>1
  <2> HIDE DEF Upto
  <2>8. Fine(j)
    BY <2>4, <2>5, <2>6, <2>7, PushPairs
  <2> QED BY <2>2, <2>8
<1>4. Fine(Len(rel))
  <2> HIDE DEF Fine
  <2>1. Len(rel) \in 0..Len(rel)
    BY <1>1
  <2> QED BY <1>3, <2>1
<1>5. Upto(Len(rel)) = Noted(rel, first, topical)
  BY <1>1 DEF Noted, ToSet
<1> QED BY <1>2, <1>4, <1>5
----
(* A graph that holds the contents c of the files: what the nodes of each  *)
(* file are, who else is there, and what is known of them.                 *)
Given(c) == c \in [ToSet(Files) -> DOMAIN Extracted \cup {NoFile}]
Placed(n) == n.file \in ToSet(Files) \/ (n = HubNode(n.name) /\ Lower(n.name) = n.name /\ n.name \in TopicKeys)
SingleHubs(g) == \A i, j \in HubIds(g) : g.nodes[i].name = g.nodes[j].name => i = j
FactsFilled(g) == Filled(g.deps) /\ Filled(g.producers) /\ Filled(g.consumers) /\ IsList(g.calls)
Held(g, c) ==
  /\ Sound(g) /\ FactsFilled(g)
  /\ \A f \in ToSet(Files) : FileHeld(g, f, c[f])
  /\ \A i \in DOMAIN g.nodes : Placed(g.nodes[i])
  /\ SingleHubs(g)
  /\ FactsHeld(g, c)

LEMMA ListDomain ==
  ASSUME NEW s, IsList(s)
  PROVE  Len(s) \in Nat /\ DOMAIN s = 1..Len(s)
<1> DEFINE S == ToSet(s)
<1>1. s \in Seq(S)
  BY DEF IsList
<1> HIDE DEF S
<1> QED BY <1>1

LEMMA FileNodes ==
  ASSUME NEW g, Sound(g), NEW f
  PROVE /\ Bucket(g.byFile, f) \in Seq(Nat)
        /\ \A i : i \in ToSet(Bucket(g.byFile, f)) <=> i \in DOMAIN g.nodes /\ g.nodes[i].file = f
<1> DEFINE keys == FilesIn(g)
           n == g.next
<1>1. n \in Nat /\ DOMAIN g.nodes \subseteq 0..(n - 1) /\ Bucket(g.byFile, f) = Listed(keys, n, f)
  BY DEF Sound, Ided, Indexed, Exact
<1>2. DOMAIN keys = DOMAIN g.nodes /\ \A i \in DOMAIN keys : keys[i] = <<g.nodes[i].file>>
  BY DEF FilesIn, FileKeys
<1>3. \A i \in DOMAIN keys : ShortKeys(keys[i])
  BY <1>2 DEF ShortKeys
<1>4. \A i \in DOMAIN keys : f \in ToSet(keys[i]) <=> g.nodes[i].file = f
  BY <1>2 DEF ToSet
<1> HIDE DEF keys, n
<1>5. ToSet(Listed(keys, n, f)) = {i \in DOMAIN keys \cap 0..(n - 1) : f \in ToSet(keys[i])}
  BY <1>1, <1>3, ListedMembers
<1>6. Listed(keys, n, f) \in Seq(Nat)
  BY SMTT(30), <1>1, ListedIsSeq
<1> QED BY <1>1, <1>2, <1>4, <1>5, <1>6

LEMMA NodeOwned ==
  ASSUME NEW g, NEW c, Held(g, c), Given(c), NEW i \in DOMAIN g.nodes, g.nodes[i].file \in ToSet(Files)
  PROVE /\ c[g.nodes[i].file] \in DOMAIN Extracted
        /\ \E j \in DOMAIN Extracted[c[g.nodes[i].file]].nodes :
             g.nodes[i] = Located(Extracted[c[g.nodes[i].file]].nodes[j], g.nodes[i].file)
<1> DEFINE f == g.nodes[i].file
           ids == Bucket(g.byFile, f)
           x == c[f]
<1>0. f \in ToSet(Files) /\ x \in DOMAIN Extracted \cup {NoFile}
  BY DEF Given
<1>1. FileHeld(g, f, x) /\ Sound(g)
  BY DEF Held
<1>2. ids \in Seq(Nat) /\ i \in ToSet(ids)
  BY <1>1, FileNodes
<1> HIDE DEF f, x
<1>3. ids # <<>> /\ DOMAIN ids = 1..Len(ids) /\ Len(ids) \in Nat
  <2> HIDE DEF ids
  <2> QED BY <1>2 DEF ToSet
<1>4. x # NoFile /\ Len(ids) = Len(Extracted[x].nodes) /\ \A m \in DOMAIN ids : g.nodes[ids[m]] = NodesOf(f, Extracted[x])[m]
  BY <1>1, <1>3 DEF FileHeld
<1>5. PICK m \in DOMAIN ids : i = ids[m]
  BY <1>2 DEF ToSet
<1>6. IsList(Extracted[x].nodes)
  BY <1>0, <1>4, ExtractedAssumption
<1>7. m \in DOMAIN Extracted[x].nodes
  BY <1>3, <1>4, <1>5, <1>6, ListDomain
<1>8. g.nodes[i] = Located(Extracted[x].nodes[m], f)
  BY <1>4, <1>5, <1>7 DEF NodesOf
<1> QED BY <1>0, <1>4, <1>7, <1>8 DEF f, x

LEMMA LocatedFields ==
  ASSUME NEW c \in DOMAIN Extracted, NEW j \in DOMAIN Extracted[c].nodes, NEW f
  PROVE /\ Located(Extracted[c].nodes[j], f).file = f
        /\ Located(Extracted[c].nodes[j], f).name = Extracted[c].nodes[j].name
        /\ Located(Extracted[c].nodes[j], f).kind = Extracted[c].nodes[j].kind
        /\ Located(Extracted[c].nodes[j], f).pkg = Extracted[c].nodes[j].pkg
<1>1. {"name", "kind", "pkg"} \subseteq DOMAIN Extracted[c].nodes[j]
  BY ExtractedAssumption
<1> QED BY <1>1 DEF Located

(* A stream of the hubs' package is a hub.                                 *)
LEMMA HubsOnly ==
  ASSUME HubsReserved, NEW g, NEW c, Held(g, c), Given(c), NEW i \in DOMAIN g.nodes,
         g.nodes[i].pkg = Hub, g.nodes[i].kind \in StreamKinds
  PROVE g.nodes[i] = HubNode(g.nodes[i].name) /\ Lower(g.nodes[i].name) = g.nodes[i].name
<1> SUFFICES ASSUME g.nodes[i].file \in ToSet(Files) PROVE FALSE
  BY DEF Held, Placed
<1> DEFINE f == g.nodes[i].file
           x == c[f]
<1>1. x \in DOMAIN Extracted
  BY NodeOwned
<1>2. PICK j \in DOMAIN Extracted[x].nodes : g.nodes[i] = Located(Extracted[x].nodes[j], f)
  BY NodeOwned
<1> HIDE DEF x
<1>3. Extracted[x].nodes[j].pkg = Hub /\ Extracted[x].nodes[j].kind \in StreamKinds
  BY <1>1, <1>2, LocatedFields
<1> QED BY <1>1, <1>3 DEF HubsReserved

(* A change of hubs alone: the files' nodes and the facts stand.           *)
SameFacts(g, h) ==
  h.deps = g.deps /\ h.producers = g.producers /\ h.consumers = g.consumers /\ h.calls = g.calls /\ h.heuristic = g.heuristic
LEMMA HeldSame ==
  ASSUME NEW g, NEW c, Held(g, c), NEW h, Sound(h), SameFacts(g, h),
         \A f \in ToSet(Files) : Bucket(h.byFile, f) = Bucket(g.byFile, f),
         \A i \in DOMAIN g.nodes : g.nodes[i].file \in ToSet(Files) => i \in DOMAIN h.nodes /\ h.nodes[i] = g.nodes[i],
         \A i \in DOMAIN h.nodes : Placed(h.nodes[i]), SingleHubs(h)
  PROVE Held(h, c)
<1>1. FactsFilled(h)
  BY DEF Held, FactsFilled, SameFacts
<1>2. ASSUME NEW f \in ToSet(Files) PROVE FileHeld(h, f, c[f])
  <2> DEFINE ids == Bucket(g.byFile, f)
  <2>1. ids = Bucket(h.byFile, f)
    OBVIOUS
  <2>2. \A i \in DOMAIN ids : h.nodes[ids[i]] = g.nodes[ids[i]] /\ ids[i] \in DOMAIN h.nodes
    <3> TAKE i \in DOMAIN ids
    <3>1. ids[i] \in ToSet(ids)
      BY DEF ToSet
    <3>s. Sound(g)
      BY DEF Held
    <3>0. \A j : j \in ToSet(Bucket(g.byFile, f)) <=> j \in DOMAIN g.nodes /\ g.nodes[j].file = f
      BY <3>s, FileNodes
    <3>2. ids[i] \in DOMAIN g.nodes /\ g.nodes[ids[i]].file = f
      BY <3>0, <3>1
    <3> QED BY <3>2
  <2>3. FileHeld(g, f, c[f])
    BY DEF Held
  <2> HIDE DEF ids
  <2> QED BY <2>1, <2>2, <2>3 DEF FileHeld, ids
<1>3. \A f \in There(c) : \A rel, topical : Told(h, f, rel, topical) = Told(g, f, rel, topical)
  BY DEF Told, There
<1>4. \A f \in There(c) : Bucket(h.byFile, f) = Bucket(g.byFile, f)
  BY DEF There
<1>5. FactsHeld(h, c)
  <2>0. FactsHeld(g, c)
    BY DEF Held
  <2>1. PairsOf(h.deps) = UNION {Told(h, f, Extracted[c[f]].deps, FALSE) : f \in There(c)}
    <3>1. {Told(h, f, Extracted[c[f]].deps, FALSE) : f \in There(c)} = {Told(g, f, Extracted[c[f]].deps, FALSE) : f \in There(c)}
      BY <1>3
    <3> QED BY <2>0, <3>1 DEF FactsHeld, SameFacts
  <2>2. PairsOf(h.producers) = UNION {Told(h, f, Extracted[c[f]].producers, TRUE) : f \in There(c)}
    <3>1. {Told(h, f, Extracted[c[f]].producers, TRUE) : f \in There(c)} = {Told(g, f, Extracted[c[f]].producers, TRUE) : f \in There(c)}
      BY <1>3
    <3> QED BY <2>0, <3>1 DEF FactsHeld, SameFacts
  <2>3. PairsOf(h.consumers) = UNION {Told(h, f, Extracted[c[f]].consumers, TRUE) : f \in There(c)}
    <3>1. {Told(h, f, Extracted[c[f]].consumers, TRUE) : f \in There(c)} = {Told(g, f, Extracted[c[f]].consumers, TRUE) : f \in There(c)}
      BY <1>3
    <3> QED BY <2>0, <3>1 DEF FactsHeld, SameFacts
  <2>4. {<<d.to, d.by>> : d \in ToSet(h.calls)} = UNION {Told(h, f, Extracted[c[f]].calls, FALSE) : f \in There(c)}
    <3>1. {Told(h, f, Extracted[c[f]].calls, FALSE) : f \in There(c)} = {Told(g, f, Extracted[c[f]].calls, FALSE) : f \in There(c)}
      BY <1>3
    <3> QED BY <2>0, <3>1 DEF FactsHeld, SameFacts
  <2>5. h.heuristic = UNION {{Bucket(h.byFile, f)[i] : i \in Extracted[c[f]].heuristic} : f \in There(c)}
    BY <2>0, <1>4 DEF FactsHeld, SameFacts
  <2> QED BY <2>1, <2>2, <2>3, <2>4, <2>5 DEF FactsHeld
<1> QED BY <1>1, <1>2, <1>5 DEF Held
----
(* `patch_files`: the files are gone, and what was known of their nodes.   *)
LEMMA RemoveNodesFacts ==
  ASSUME NEW g, DOMAIN g = GraphFields, NEW ids
  PROVE  SameFacts(g, RemoveNodes(g, ids))
<1>1. RemoveNodes(g, ids).deps = g.deps
  BY DEF RemoveNodes, GraphFields
<1>2. RemoveNodes(g, ids).producers = g.producers
  BY DEF RemoveNodes, GraphFields
<1>3. RemoveNodes(g, ids).consumers = g.consumers
  BY DEF RemoveNodes, GraphFields
<1>4. RemoveNodes(g, ids).calls = g.calls
  BY DEF RemoveNodes, GraphFields
<1>5. RemoveNodes(g, ids).heuristic = g.heuristic
  BY DEF RemoveNodes, GraphFields
<1> QED BY <1>1, <1>2, <1>3, <1>4, <1>5 DEF SameFacts

LEMMA AddNodeFacts ==
  ASSUME NEW g, DOMAIN g = GraphFields, NEW n
  PROVE  SameFacts(g, AddNode(g, n))
<1>1. AddNode(g, n).deps = g.deps
  BY DEF AddNode, GraphFields
<1>2. AddNode(g, n).producers = g.producers
  BY DEF AddNode, GraphFields
<1>3. AddNode(g, n).consumers = g.consumers
  BY DEF AddNode, GraphFields
<1>4. AddNode(g, n).calls = g.calls
  BY DEF AddNode, GraphFields
<1>5. AddNode(g, n).heuristic = g.heuristic
  BY DEF AddNode, GraphFields
<1> QED BY <1>1, <1>2, <1>3, <1>4, <1>5 DEF SameFacts

LEMMA PurgeBucket ==
  ASSUME NEW f, NEW keys, NEW ids, NEW k
  PROVE Bucket(Purge(f, keys, ids), k) = IF k \in keys THEN Without(Bucket(f, k), ids) ELSE Bucket(f, k)
<1> DEFINE p == Purge(f, keys, ids)
<1>1. /\ DOMAIN p = {j \in DOMAIN f : j \in keys => Without(f[j], ids) # <<>>}
      /\ \A j \in DOMAIN p : p[j] = IF j \in keys THEN Without(f[j], ids) ELSE f[j]
  BY DEF Purge
<1> HIDE DEF p
<1>2. CASE k \notin DOMAIN f
  BY <1>1, <1>2, WithoutEmpty DEF Bucket, p
<1>3. CASE k \in DOMAIN f
  BY <1>1, <1>3 DEF Bucket, p
<1> QED BY <1>2, <1>3

Stale(g, fs) == UNION {ToSet(Bucket(g.byFile, f)) : f \in fs}
Reduced(g, h, stale) ==
  /\ FactsFilled(h)
  /\ PairsOf(h.deps) = {p \in PairsOf(g.deps) : p[2] \notin stale}
  /\ PairsOf(h.producers) = {p \in PairsOf(g.producers) : p[2] \notin stale}
  /\ PairsOf(h.consumers) = {p \in PairsOf(g.consumers) : p[2] \notin stale}
  /\ ToSet(h.calls) = {d \in ToSet(g.calls) : d.by \notin stale}
  /\ h.heuristic = g.heuristic \ stale

LEMMA ForgetReduces ==
  ASSUME NEW g, DOMAIN g = GraphFields, FactsFilled(g), NEW stale
  PROVE Reduced(g, Forget(g, stale), stale)
<1> DEFINE h == Forget(g, stale)
           said == {d \in ToSet(g.calls) : d.by \in stale}
<1>1. h.deps = Retain(g.deps, stale)
  BY DEF Forget, GraphFields
<1>2. h.producers = Retain(g.producers, stale)
  BY DEF Forget, GraphFields
<1>3. h.consumers = Retain(g.consumers, stale)
  BY DEF Forget, GraphFields
<1>4. h.calls = Without(g.calls, said)
  BY DEF Forget, GraphFields
<1>5. h.heuristic = g.heuristic \ stale
  BY DEF Forget, GraphFields
<1> HIDE DEF h, said
<1>6. Filled(h.deps) /\ PairsOf(h.deps) = {p \in PairsOf(g.deps) : p[2] \notin stale}
  BY <1>1, RetainPairs DEF FactsFilled
<1>7. Filled(h.producers) /\ PairsOf(h.producers) = {p \in PairsOf(g.producers) : p[2] \notin stale}
  BY <1>2, RetainPairs DEF FactsFilled
<1>8. Filled(h.consumers) /\ PairsOf(h.consumers) = {p \in PairsOf(g.consumers) : p[2] \notin stale}
  BY <1>3, RetainPairs DEF FactsFilled
<1>9. IsList(h.calls) /\ ToSet(h.calls) = {d \in ToSet(g.calls) : d.by \notin stale}
  <2> DEFINE S == ToSet(g.calls)
             s == g.calls
  <2>1. s \in Seq(S)
    BY DEF FactsFilled, IsList
  <2> HIDE DEF S, s
  <2>2. Without(s, said) \in Seq(S) /\ ToSet(Without(s, said)) = ToSet(s) \ said
    BY <2>1, WithoutMembers
  <2>3. IsList(Without(s, said))
    <3> DEFINE w == Without(s, said)
    <3> HIDE DEF w
    <3>1. w \in Seq(S)
      BY <2>2 DEF w
    <3>2. w \in Seq(ToSet(w))
      <4>1. Len(w) \in Nat /\ DOMAIN w = 1..Len(w) /\ w = [i \in 1..Len(w) |-> w[i]]
        BY <3>1
      <4>2. \A i \in 1..Len(w) : w[i] \in ToSet(w)
        BY <4>1 DEF ToSet
      <4> QED BY <4>1, <4>2, SeqDef
    <3> QED BY <3>2 DEF w, IsList
  <2> QED BY <2>2, <2>3, <1>4 DEF s, said
<1> QED BY <1>5, <1>6, <1>7, <1>8, <1>9 DEF Reduced, FactsFilled, h

LEMMA PatchTrace ==
  ASSUME NEW g, Sound(g), FactsFilled(g), NEW fs
  PROVE /\ DOMAIN PatchFiles(g, fs).nodes = DOMAIN g.nodes \ Stale(g, fs)
        /\ \A i \in DOMAIN g.nodes \ Stale(g, fs) : PatchFiles(g, fs).nodes[i] = g.nodes[i]
        /\ \A f \in fs : Bucket(PatchFiles(g, fs).byFile, f) = <<>>
        /\ \A f : f \notin fs => Bucket(PatchFiles(g, fs).byFile, f) = Bucket(g.byFile, f)
        /\ Reduced(g, PatchFiles(g, fs), Stale(g, fs))
<1> DEFINE p == PatchFiles(g, fs)
           stale == Stale(g, fs)
           rest == [g EXCEPT !.byFile = Restrict(g.byFile, DOMAIN g.byFile \ fs)]
           less == RemoveNodes(rest, stale)
<1>0. DOMAIN g = GraphFields
  BY DEF Sound, Ided
<1>1. DOMAIN rest = GraphFields /\ rest.nodes = g.nodes /\ SameFacts(g, rest)
  <2>1. DOMAIN rest = GraphFields
    BY <1>0 DEF GraphFields
  <2>2. rest.nodes = g.nodes
    BY <1>0 DEF GraphFields
  <2>3. rest.deps = g.deps /\ rest.producers = g.producers
    BY <1>0 DEF GraphFields
  <2>4. rest.consumers = g.consumers /\ rest.calls = g.calls /\ rest.heuristic = g.heuristic
    BY <1>0 DEF GraphFields
  <2> HIDE DEF rest
  <2> QED BY <2>1, <2>2, <2>3, <2>4 DEF SameFacts
<1>2. \A k : Bucket(rest.byFile, k) = IF k \in fs THEN <<>> ELSE Bucket(g.byFile, k)
  <2>1. rest.byFile = [k \in DOMAIN g.byFile \ fs |-> g.byFile[k]]
    BY <1>0 DEF GraphFields, Restrict
  <2> HIDE DEF rest
  <2> QED BY <2>1 DEF Bucket
<1>3. p = IF stale = {} THEN rest ELSE Forget(less, stale)
  BY DEF PatchFiles, Stale
<1> HIDE DEF p, rest, less
<1>4. /\ DOMAIN less = GraphFields /\ SameFacts(g, less)
      /\ less.nodes = [i \in DOMAIN g.nodes \ stale |-> g.nodes[i]]
      /\ less.byFile = Purge(rest.byFile, GoneKeys(FilesIn(rest), stale), stale)
  <2>1. SameFacts(rest, less)
    BY <1>1, RemoveNodesFacts DEF less
  <2>2. DOMAIN less = GraphFields /\ less.nodes = [i \in DOMAIN rest.nodes \ stale |-> rest.nodes[i]]
        /\ less.byFile = Purge(rest.byFile, GoneKeys(FilesIn(rest), stale), stale)
    BY <1>1, RemoveFields DEF less
  <2>3. SameFacts(g, less)
    BY <1>1, <2>1 DEF SameFacts
  <2> QED BY <1>1, <2>2, <2>3
<1>5. GoneKeys(FilesIn(rest), stale) \subseteq fs
  <2>1. ASSUME NEW i \in stale, i \in DOMAIN g.nodes PROVE g.nodes[i].file \in fs
    <3>1. PICK f \in fs : i \in ToSet(Bucket(g.byFile, f))
      BY <2>1 DEF Stale
    <3>2. g.nodes[i].file = f
      BY <3>1, FileNodes
    <3> QED BY <3>2
  <2>2. \A i \in stale \cap DOMAIN FilesIn(rest) : ToSet(FilesIn(rest)[i]) = {g.nodes[i].file} /\ i \in DOMAIN g.nodes
    <3>1. DOMAIN FilesIn(rest) = DOMAIN g.nodes /\ \A i \in DOMAIN g.nodes : FilesIn(rest)[i] = <<g.nodes[i].file>>
      BY <1>1 DEF FilesIn, FileKeys
    <3>2. \A f : ToSet(<<f>>) = {f}
      BY DEF ToSet
    <3> HIDE DEF stale
    <3> QED BY <3>1, <3>2
  <2> HIDE DEF stale
  <2> QED BY <2>1, <2>2 DEF GoneKeys
<1>6. \A k : Bucket(less.byFile, k) = IF k \in fs THEN <<>> ELSE Bucket(g.byFile, k)
  <2> TAKE k
  <2>1. Bucket(less.byFile, k) = IF k \in GoneKeys(FilesIn(rest), stale) THEN Without(Bucket(rest.byFile, k), stale) ELSE Bucket(rest.byFile, k)
    BY <1>4, PurgeBucket
  <2> HIDE DEF stale
  <2> QED BY <2>1, <1>2, <1>5, WithoutEmpty
<1>7. CASE stale = {}
  <2>1. p = rest
    BY <1>3, <1>7
  <2>2. DOMAIN rest.nodes = DOMAIN g.nodes \ stale /\ \A i \in DOMAIN g.nodes \ stale : rest.nodes[i] = g.nodes[i]
    BY <1>1, <1>7
  <2>3. Reduced(g, rest, stale)
    <3>1. FactsFilled(rest)
      BY <1>1 DEF FactsFilled, SameFacts
    <3>2. rest.heuristic = g.heuristic \ stale /\ ToSet(rest.calls) = {d \in ToSet(g.calls) : d.by \notin stale}
      BY <1>1, <1>7 DEF SameFacts
    <3> HIDE DEF stale
    <3> QED BY <1>1, <1>7, <3>1, <3>2 DEF Reduced, SameFacts
  <2> QED BY <2>1, <2>2, <2>3, <1>2 DEF p
<1>8. CASE stale # {}
  <2>1. p = Forget(less, stale)
    BY <1>3, <1>8
  <2>2. SameNodes(less, p)
    BY <2>1, <1>4, ForgetSame
  <2>3. FactsFilled(less)
    BY <1>4 DEF FactsFilled, SameFacts
  <2>4. Reduced(less, p, stale)
    BY <2>1, <2>3, <1>4, ForgetReduces
  <2>5. Reduced(g, p, stale)
    BY <2>4, <1>4 DEF Reduced, SameFacts
  <2> HIDE DEF stale
  <2>6. p.nodes = [i \in DOMAIN g.nodes \ stale |-> g.nodes[i]] /\ p.byFile = less.byFile
    BY <2>2, <1>4 DEF SameNodes
  <2>7. DOMAIN p.nodes = DOMAIN g.nodes \ stale /\ \A i \in DOMAIN g.nodes \ stale : p.nodes[i] = g.nodes[i]
    BY <2>6
  <2> QED BY <2>5, <2>6, <2>7, <1>6 DEF p, stale
<1> QED BY <1>7, <1>8
(* Of facts told file by file, those of some files' nodes go.              *)
LEMMA ToldParts ==
  ASSUME NEW P, NEW A, NEW B \in SUBSET A, NEW W, NEW V, NEW stale, P = UNION {W[f] : f \in A},
         \A f \in B : V[f] = W[f] /\ \A q \in W[f] : q[2] \notin stale,
         \A f \in A \ B : \A q \in W[f] : q[2] \in stale
  PROVE {q \in P : q[2] \notin stale} = UNION {V[f] : f \in B}
OBVIOUS

LEMMA ToldIds ==
  ASSUME NEW g, NEW c, Held(g, c), Given(c), NEW f \in There(c),
         NEW rel, Named(rel) \subseteq DOMAIN Extracted[c[f]].nodes, NEW topical
  PROVE \A q \in Told(g, f, rel, topical) : q[2] \in ToSet(Bucket(g.byFile, f))
<1> DEFINE ids == Bucket(g.byFile, f)
           x == c[f]
<1>0. f \in ToSet(Files) /\ x # NoFile /\ x \in DOMAIN Extracted
  BY DEF There, Given
<1>1. Sound(g) /\ FileHeld(g, f, x)
  BY <1>0 DEF Held
<1>2. ids \in Seq(Nat)
  BY <1>1, FileNodes
<1> HIDE DEF x
<1>3. Len(ids) = Len(Extracted[x].nodes)
  BY <1>0, <1>1 DEF FileHeld
<1>4. IsList(Extracted[x].nodes)
  BY <1>0, ExtractedAssumption
<1>5. DOMAIN ids = 1..Len(ids)
  BY <1>2
<1>6. DOMAIN ids = DOMAIN Extracted[x].nodes
  BY <1>3, <1>4, <1>5, ListDomain
<1>7. \A r \in ToSet(rel) : r[1] \in DOMAIN ids
  BY <1>6 DEF Named, x
<1>8. \A r \in ToSet(rel) : ids[r[1]] \in ToSet(ids)
  BY <1>7 DEF ToSet
<1> QED BY <1>8 DEF Told

Emptied(c, fs) == [f \in ToSet(Files) |-> IF f \in fs THEN NoFile ELSE c[f]]
LEMMA PatchHeld ==
  ASSUME NEW g, NEW c, Held(g, c), Given(c), NEW fs
  PROVE Held(PatchFiles(g, fs), Emptied(c, fs))
<1> DEFINE p == PatchFiles(g, fs)
           stale == Stale(g, fs)
           e == Emptied(c, fs)
<1>0. Sound(g) /\ FactsFilled(g)
  BY DEF Held
<1>1. /\ DOMAIN p.nodes = DOMAIN g.nodes \ stale
      /\ \A i \in DOMAIN g.nodes \ stale : p.nodes[i] = g.nodes[i]
      /\ \A f \in fs : Bucket(p.byFile, f) = <<>>
      /\ \A f : f \notin fs => Bucket(p.byFile, f) = Bucket(g.byFile, f)
      /\ Reduced(g, p, stale)
  BY <1>0, PatchTrace
<1>2. Sound(p)
  BY <1>0, PatchSound
<1>3. \A i \in stale : \E f \in fs : i \in DOMAIN g.nodes /\ g.nodes[i].file = f
  <2> TAKE i \in stale
  <2>1. PICK f \in fs : i \in ToSet(Bucket(g.byFile, f))
    BY DEF Stale
  <2> QED BY <2>1, <1>0, FileNodes
<1>4. \A f \in fs : ToSet(Bucket(g.byFile, f)) \subseteq stale
  BY DEF Stale
<1>5. \A f : f \notin fs => \A i \in ToSet(Bucket(g.byFile, f)) : i \in DOMAIN g.nodes /\ i \notin stale
  <2> TAKE f
  <2> HAVE f \notin fs
  <2>1. \A i \in ToSet(Bucket(g.byFile, f)) : i \in DOMAIN g.nodes /\ g.nodes[i].file = f
    BY <1>0, FileNodes
  <2> HIDE DEF stale
  <2> QED BY <2>1, <1>3
<1>6. There(e) = There(c) \ fs /\ \A f \in There(e) : e[f] = c[f]
  BY DEF There, Emptied
<1>7. \A f \in ToSet(Files) : e[f] = IF f \in fs THEN NoFile ELSE c[f]
  BY DEF Emptied
<1> HIDE DEF p, stale, e
<1>8. ASSUME NEW f \in ToSet(Files) PROVE FileHeld(p, f, e[f])
  <2>1. CASE f \in fs
    BY <2>1, <1>1, <1>7 DEF FileHeld
  <2>2. CASE f \notin fs
    <3> DEFINE ids == Bucket(g.byFile, f)
    <3>1. Bucket(p.byFile, f) = ids /\ e[f] = c[f]
      BY <2>2, <1>1, <1>7
    <3>2. \A i \in DOMAIN ids : ids[i] \in DOMAIN p.nodes /\ p.nodes[ids[i]] = g.nodes[ids[i]]
      <4> TAKE i \in DOMAIN ids
      <4>1. ids[i] \in ToSet(ids)
        BY DEF ToSet
      <4> QED BY <4>1, <2>2, <1>1, <1>5
    <3>3. FileHeld(g, f, c[f])
      BY DEF Held
    <3> HIDE DEF ids
    <3> QED BY <3>1, <3>2, <3>3 DEF FileHeld, ids
  <2> QED BY <2>1, <2>2
<1>9. \A i \in DOMAIN p.nodes : Placed(p.nodes[i])
  BY <1>1 DEF Held
<1>10. SingleHubs(p)
  <2>1. \A i \in HubIds(p) : i \in HubIds(g) /\ p.nodes[i] = g.nodes[i]
    BY <1>1 DEF HubIds
  <2>2. SingleHubs(g)
    BY DEF Held
  <2> QED BY <2>1, <2>2 DEF SingleHubs
<1>11. FactsHeld(g, c)
  BY DEF Held
<1>12. \A f \in There(e) : \A rel, topical : Told(p, f, rel, topical) = Told(g, f, rel, topical)
  BY <1>1, <1>6 DEF Told
<1>13. ASSUME NEW f \in There(c) PROVE c[f] \in DOMAIN Extracted
  BY DEF There, Given
<1>14. PairsOf(p.deps) = UNION {Told(p, f, Extracted[e[f]].deps, FALSE) : f \in There(e)}
  <2> DEFINE A == There(c)
             B == There(e)
             W == [f \in A |-> Told(g, f, Extracted[c[f]].deps, FALSE)]
             V == [f \in B |-> Told(p, f, Extracted[e[f]].deps, FALSE)]
             P == PairsOf(g.deps)
  <2>1. B \in SUBSET A
    BY <1>6
  <2>2. P = UNION {W[f] : f \in A}
    <3>1. {W[f] : f \in A} = {Told(g, f, Extracted[c[f]].deps, FALSE) : f \in There(c)}
      OBVIOUS
    <3> QED BY <3>1, <1>11 DEF FactsHeld
  <2>3. \A f \in A : \A q \in W[f] : q[2] \in ToSet(Bucket(g.byFile, f))
    <3> TAKE f \in A
    <3>1. Named(Extracted[c[f]].deps) \subseteq DOMAIN Extracted[c[f]].nodes
      BY <1>13, ExtractedAssumption
    <3> QED BY <3>1, ToldIds
  <2>4. \A f \in B : V[f] = W[f] /\ f \notin fs
    BY <1>6, <1>12
  <2>5. PairsOf(p.deps) = {q \in P : q[2] \notin stale}
    BY <1>1 DEF Reduced
  <2>6. {V[f] : f \in B} = {Told(p, f, Extracted[e[f]].deps, FALSE) : f \in There(e)}
    OBVIOUS
  <2>7. \A f \in A \ B : f \in fs
    BY <1>6
  <2> HIDE DEF A, B, W, V, P
  <2>8. \A f \in B : V[f] = W[f] /\ \A q \in W[f] : q[2] \notin stale
    BY <2>1, <2>3, <2>4, <1>5
  <2>9. \A f \in A \ B : \A q \in W[f] : q[2] \in stale
    BY <2>3, <2>7, <1>4
  <2>10. {q \in P : q[2] \notin stale} = UNION {V[f] : f \in B}
    BY <2>1, <2>2, <2>8, <2>9, ToldParts
  <2> QED BY <2>5, <2>6, <2>10
<1>15. PairsOf(p.producers) = UNION {Told(p, f, Extracted[e[f]].producers, TRUE) : f \in There(e)}
  <2> DEFINE A == There(c)
             B == There(e)
             W == [f \in A |-> Told(g, f, Extracted[c[f]].producers, TRUE)]
             V == [f \in B |-> Told(p, f, Extracted[e[f]].producers, TRUE)]
             P == PairsOf(g.producers)
  <2>1. B \in SUBSET A
    BY <1>6
  <2>2. P = UNION {W[f] : f \in A}
    <3>1. {W[f] : f \in A} = {Told(g, f, Extracted[c[f]].producers, TRUE) : f \in There(c)}
      OBVIOUS
    <3> QED BY <3>1, <1>11 DEF FactsHeld
  <2>3. \A f \in A : \A q \in W[f] : q[2] \in ToSet(Bucket(g.byFile, f))
    <3> TAKE f \in A
    <3>1. Named(Extracted[c[f]].producers) \subseteq DOMAIN Extracted[c[f]].nodes
      BY <1>13, ExtractedAssumption
    <3> QED BY <3>1, ToldIds
  <2>4. \A f \in B : V[f] = W[f] /\ f \notin fs
    BY <1>6, <1>12
  <2>5. PairsOf(p.producers) = {q \in P : q[2] \notin stale}
    BY <1>1 DEF Reduced
  <2>6. {V[f] : f \in B} = {Told(p, f, Extracted[e[f]].producers, TRUE) : f \in There(e)}
    OBVIOUS
  <2>7. \A f \in A \ B : f \in fs
    BY <1>6
  <2> HIDE DEF A, B, W, V, P
  <2>8. \A f \in B : V[f] = W[f] /\ \A q \in W[f] : q[2] \notin stale
    BY <2>1, <2>3, <2>4, <1>5
  <2>9. \A f \in A \ B : \A q \in W[f] : q[2] \in stale
    BY <2>3, <2>7, <1>4
  <2>10. {q \in P : q[2] \notin stale} = UNION {V[f] : f \in B}
    BY <2>1, <2>2, <2>8, <2>9, ToldParts
  <2> QED BY <2>5, <2>6, <2>10
<1>16. PairsOf(p.consumers) = UNION {Told(p, f, Extracted[e[f]].consumers, TRUE) : f \in There(e)}
  <2> DEFINE A == There(c)
             B == There(e)
             W == [f \in A |-> Told(g, f, Extracted[c[f]].consumers, TRUE)]
             V == [f \in B |-> Told(p, f, Extracted[e[f]].consumers, TRUE)]
             P == PairsOf(g.consumers)
  <2>1. B \in SUBSET A
    BY <1>6
  <2>2. P = UNION {W[f] : f \in A}
    <3>1. {W[f] : f \in A} = {Told(g, f, Extracted[c[f]].consumers, TRUE) : f \in There(c)}
      OBVIOUS
    <3> QED BY <3>1, <1>11 DEF FactsHeld
  <2>3. \A f \in A : \A q \in W[f] : q[2] \in ToSet(Bucket(g.byFile, f))
    <3> TAKE f \in A
    <3>1. Named(Extracted[c[f]].consumers) \subseteq DOMAIN Extracted[c[f]].nodes
      BY <1>13, ExtractedAssumption
    <3> QED BY <3>1, ToldIds
  <2>4. \A f \in B : V[f] = W[f] /\ f \notin fs
    BY <1>6, <1>12
  <2>5. PairsOf(p.consumers) = {q \in P : q[2] \notin stale}
    BY <1>1 DEF Reduced
  <2>6. {V[f] : f \in B} = {Told(p, f, Extracted[e[f]].consumers, TRUE) : f \in There(e)}
    OBVIOUS
  <2>7. \A f \in A \ B : f \in fs
    BY <1>6
  <2> HIDE DEF A, B, W, V, P
  <2>8. \A f \in B : V[f] = W[f] /\ \A q \in W[f] : q[2] \notin stale
    BY <2>1, <2>3, <2>4, <1>5
  <2>9. \A f \in A \ B : \A q \in W[f] : q[2] \in stale
    BY <2>3, <2>7, <1>4
  <2>10. {q \in P : q[2] \notin stale} = UNION {V[f] : f \in B}
    BY <2>1, <2>2, <2>8, <2>9, ToldParts
  <2> QED BY <2>5, <2>6, <2>10
<1>17. {<<d.to, d.by>> : d \in ToSet(p.calls)} = UNION {Told(p, f, Extracted[e[f]].calls, FALSE) : f \in There(e)}
  <2> DEFINE A == There(c)
             B == There(e)
             W == [f \in A |-> Told(g, f, Extracted[c[f]].calls, FALSE)]
             V == [f \in B |-> Told(p, f, Extracted[e[f]].calls, FALSE)]
             P == {<<d.to, d.by>> : d \in ToSet(g.calls)}
  <2>1. B \in SUBSET A
    BY <1>6
  <2>2. P = UNION {W[f] : f \in A}
    <3>1. {W[f] : f \in A} = {Told(g, f, Extracted[c[f]].calls, FALSE) : f \in There(c)}
      OBVIOUS
    <3> QED BY <3>1, <1>11 DEF FactsHeld
  <2>3. \A f \in A : \A q \in W[f] : q[2] \in ToSet(Bucket(g.byFile, f))
    <3> TAKE f \in A
    <3>1. Named(Extracted[c[f]].calls) \subseteq DOMAIN Extracted[c[f]].nodes
      BY <1>13, ExtractedAssumption
    <3> QED BY <3>1, ToldIds
  <2>4. \A f \in B : V[f] = W[f] /\ f \notin fs
    BY <1>6, <1>12
  <2>5. {<<d.to, d.by>> : d \in ToSet(p.calls)} = {q \in P : q[2] \notin stale}
    BY <1>1 DEF Reduced
  <2>6. {V[f] : f \in B} = {Told(p, f, Extracted[e[f]].calls, FALSE) : f \in There(e)}
    OBVIOUS
  <2>7. \A f \in A \ B : f \in fs
    BY <1>6
  <2> HIDE DEF A, B, W, V, P
  <2>8. \A f \in B : V[f] = W[f] /\ \A q \in W[f] : q[2] \notin stale
    BY <2>1, <2>3, <2>4, <1>5
  <2>9. \A f \in A \ B : \A q \in W[f] : q[2] \in stale
    BY <2>3, <2>7, <1>4
  <2>10. {q \in P : q[2] \notin stale} = UNION {V[f] : f \in B}
    BY <2>1, <2>2, <2>8, <2>9, ToldParts
  <2> QED BY <2>5, <2>6, <2>10
<1>18. p.heuristic = UNION {{Bucket(p.byFile, f)[i] : i \in Extracted[e[f]].heuristic} : f \in There(e)}
  <2>1. \A f \in There(c) : \A i \in Extracted[c[f]].heuristic : Bucket(g.byFile, f)[i] \in ToSet(Bucket(g.byFile, f))
    <3> TAKE f \in There(c)
    <3> DEFINE ids == Bucket(g.byFile, f)
               x == c[f]
    <3>0. f \in ToSet(Files) /\ x # NoFile /\ x \in DOMAIN Extracted
      BY <1>13 DEF There
    <3>1. ids \in Seq(Nat) /\ FileHeld(g, f, x)
      BY <1>0, <3>0, FileNodes DEF Held
    <3> HIDE DEF x
    <3>2. Len(ids) = Len(Extracted[x].nodes) /\ DOMAIN ids = 1..Len(ids)
      BY <3>0, <3>1 DEF FileHeld
    <3>3. IsList(Extracted[x].nodes) /\ Extracted[x].heuristic \subseteq DOMAIN Extracted[x].nodes
      BY <3>0, ExtractedAssumption
    <3>4. DOMAIN ids = DOMAIN Extracted[x].nodes
      BY <3>2, <3>3, ListDomain
    <3> QED BY <3>3, <3>4 DEF ToSet, x
  <2>2. p.heuristic = g.heuristic \ stale
    BY <1>1 DEF Reduced
  <2>3. g.heuristic = UNION {{Bucket(g.byFile, f)[i] : i \in Extracted[c[f]].heuristic} : f \in There(c)}
    BY <1>11 DEF FactsHeld
  <2>4. \A f \in There(e) : Bucket(p.byFile, f) = Bucket(g.byFile, f) /\ e[f] = c[f] /\ f \in There(c) /\ f \notin fs
    BY <1>1, <1>6
  <2>5. \A i : i \in p.heuristic <=> \E f \in There(e) : \E j \in Extracted[e[f]].heuristic : i = Bucket(p.byFile, f)[j]
    BY <2>1, <2>2, <2>3, <2>4, <1>4, <1>5, <1>6
  <2> QED BY <2>5
<1>19. FactsHeld(p, e)
  BY <1>14, <1>15, <1>16, <1>17, <1>18 DEF FactsHeld
<1>20. FactsFilled(p)
  BY <1>1 DEF Reduced
<1> QED BY <1>2, <1>8, <1>9, <1>10, <1>19, <1>20 DEF Held, p, e
----
(* `FileIndex::apply`: the nodes of the file take the next ids, in order.  *)
Traced(g, h, ns, n, f) ==
  /\ DOMAIN h = GraphFields /\ h.next = g.next + n
  /\ DOMAIN h.nodes = DOMAIN g.nodes \cup (g.next..(g.next + n - 1))
  /\ \A i \in DOMAIN g.nodes : h.nodes[i] = g.nodes[i]
  /\ \A m \in 1..n : h.nodes[g.next + m - 1] = ns[m]
  /\ Bucket(h.byFile, f) = [m \in 1..n |-> g.next + m - 1]
  /\ \A k : k # f => Bucket(h.byFile, k) = Bucket(g.byFile, k)
  /\ SameFacts(g, h)

LEMMA TracedNext ==
  ASSUME NEW g, g.next \in Nat, DOMAIN g.nodes \subseteq 0..(g.next - 1), NEW h, NEW ns, NEW n \in Nat, NEW f,
         Traced(g, h, ns, n, f), NEW x, x = ns[n + 1], x.file = f
  PROVE Traced(g, AddNode(h, x), ns, n + 1, f)
<1> DEFINE a == AddNode(h, x)
           first == g.next
<1>0. first \in Nat /\ DOMAIN h = GraphFields /\ h.next = first + n
  BY DEF Traced
<1>1. /\ DOMAIN a = GraphFields /\ a.next = h.next + 1
      /\ a.nodes = [i \in DOMAIN h.nodes \cup {h.next} |-> IF i = h.next THEN x ELSE h.nodes[i]]
      /\ a.byFile = Enter(h.byFile, FileKeys(x), h.next)
  BY <1>0, AddNodeFields
<1>2. SameFacts(h, a)
  BY <1>0, AddNodeFacts
<1> HIDE DEF a, first
<1>3. SameFacts(g, a)
  BY <1>2 DEF Traced, SameFacts
<1>4. a.next = first + (n + 1)
  BY <1>0, <1>1
<1>5. DOMAIN a.nodes = DOMAIN g.nodes \cup (first..(first + (n + 1) - 1))
  <2>1. DOMAIN a.nodes = DOMAIN g.nodes \cup (first..(first + n - 1)) \cup {first + n}
    BY <1>0, <1>1 DEF Traced, first
  <2>2. first..(first + (n + 1) - 1) = (first..(first + n - 1)) \cup {first + n}
    BY <1>0
  <2> QED BY <2>1, <2>2
<1>6. \A i \in DOMAIN g.nodes : a.nodes[i] = g.nodes[i]
  <2> TAKE i \in DOMAIN g.nodes
  <2>1. i # h.next /\ i \in DOMAIN h.nodes
    BY <1>0 DEF Traced, first
  <2> QED BY <2>1, <1>1 DEF Traced
<1>7. \A m \in 1..(n + 1) : a.nodes[first + m - 1] = ns[m]
  <2> TAKE m \in 1..(n + 1)
  <2>1. CASE m = n + 1
    <3>1. first + m - 1 = h.next
      BY <1>0, <2>1
    <3> QED BY <3>1, <2>1, <1>1
  <2>2. CASE m # n + 1
    <3>1. m \in 1..n /\ first + m - 1 # h.next /\ first + m - 1 \in first..(first + n - 1)
      BY <1>0, <2>2
    <3>2. first + m - 1 \in DOMAIN h.nodes /\ h.nodes[first + m - 1] = ns[m]
      BY <3>1 DEF Traced, first
    <3> QED BY <3>1, <3>2, <1>1
  <2> QED BY <2>1, <2>2
<1>8. a.byFile = Push(h.byFile, f, h.next)
  <2>1. FileKeys(x) = <<f>> /\ Len(<<f>>) = 1 /\ <<f>> # <<>> /\ <<f>>[1] = f
    BY DEF FileKeys
  <2> QED BY <2>1, <1>1 DEF Enter
<1>9. Bucket(a.byFile, f) = [m \in 1..(n + 1) |-> first + m - 1]
  <2> DEFINE s == [m \in 1..n |-> first + m - 1]
             t == [m \in 1..(n + 1) |-> first + m - 1]
  <2>1. Bucket(a.byFile, f) = Append(s, first + n)
    BY <1>0, <1>8, PushBucket DEF Traced, first
  <2>2. s \in Seq(Nat) /\ Len(s) = n /\ t \in Seq(Nat) /\ Len(t) = n + 1
    BY <1>0
  <2>3. /\ Append(s, first + n) \in Seq(Nat) /\ Len(Append(s, first + n)) = n + 1
        /\ \A m \in 1..(n + 1) : Append(s, first + n)[m] = IF m = n + 1 THEN first + n ELSE s[m]
    <3>1. first + n \in Nat
      BY <1>0
    <3> HIDE DEF s
    <3> QED BY <2>2, <3>1
  <2>4. \A m \in 1..(n + 1) : t[m] = IF m = n + 1 THEN first + n ELSE s[m]
    <3> TAKE m \in 1..(n + 1)
    <3>1. t[m] = first + m - 1
      OBVIOUS
    <3>2. CASE m = n + 1
      BY <1>0, <3>1, <3>2
    <3>3. CASE m # n + 1
      <4>1. m \in 1..n
        BY <3>3
      <4>2. s[m] = first + m - 1
        BY <4>1
      <4> QED BY <3>1, <3>3, <4>2
    <3> QED BY <3>2, <3>3
  <2>5. Append(s, first + n) = t
    <3> DEFINE w == Append(s, first + n)
    <3>1. \A m \in 1..(n + 1) : w[m] = t[m]
      BY <2>3, <2>4
    <3>2. w \in Seq(Nat) /\ Len(w) = n + 1
      BY <2>3
    <3> HIDE DEF s, t, w
    <3>3. w = [m \in 1..(n + 1) |-> w[m]] /\ t = [m \in 1..(n + 1) |-> t[m]]
      BY <3>2, <2>2
    <3> QED BY <3>1, <3>3 DEF w
  <2> QED BY <2>1, <2>5
<1>10. \A k : k # f => Bucket(a.byFile, k) = Bucket(g.byFile, k)
  BY <1>8, PushBucket DEF Traced
<1> QED BY <1>1, <1>3, <1>4, <1>5, <1>6, <1>7, <1>9, <1>10 DEF Traced, a, first

LEMMA AddNodesTrace ==
  ASSUME NEW g, Sound(g), NEW ns, Len(ns) \in Nat, NEW f, \A m \in 1..Len(ns) : ns[m].file = f, Bucket(g.byFile, f) = <<>>
  PROVE Traced(g, AddNodes(g, ns), ns, Len(ns), f)
<1>0. g.next \in Nat /\ DOMAIN g.nodes \subseteq 0..(g.next - 1) /\ DOMAIN g = GraphFields
  BY DEF Sound, Ided
<1>2. PICK F : /\ AddNodes(g, ns) = F[Len(ns)]
               /\ \A i \in 0..Len(ns) : F[i] = IF i = 0 THEN g ELSE AddNode(F[i - 1], ns[i])
  BY PlacedUnfolds
<1>3. \A i \in 0..Len(ns) : Traced(g, F[i], ns, i, f)
  <2> DEFINE T == {i \in 0..Len(ns) : ~Traced(g, F[i], ns, i, f)}
  <2> SUFFICES ASSUME T # {} PROVE FALSE
    OBVIOUS
  <2>1. PICK j \in T : \A l \in T : j <= l
    <3>1. T \in SUBSET Nat
      OBVIOUS
    <3> HIDE DEF T
    <3> QED BY <3>1, LeastNat
  <2>0. Traced(g, F[0], ns, 0, f)
    <3>1. F[0] = g
      BY <1>2
    <3>2. g.next..(g.next + 0 - 1) = {} /\ 1..0 = {} /\ g.next + 0 = g.next
      BY <1>0
    <3>3. [m \in 1..0 |-> g.next + m - 1] = <<>>
      BY <3>2
    <3> QED BY <1>0, <3>1, <3>2, <3>3 DEF Traced, SameFacts
  <2>2. j \in 0..Len(ns) /\ ~Traced(g, F[j], ns, j, f) /\ j # 0
    BY <2>0
  <2> DEFINE n == j - 1
             h == F[j - 1]
  <2>3. n \in 0..Len(ns) /\ n \notin T /\ n \in Nat /\ n + 1 = j
    <3> HIDE DEF T
    <3> QED BY <2>1, <2>2
  <2>4. Traced(g, h, ns, n, f)
    BY <2>3
  <2>5. F[j] = AddNode(h, ns[n + 1]) /\ ns[n + 1].file = f
    BY <1>2, <2>2, <2>3
  <2> HIDE DEF n, h, T
  <2>6. Traced(g, AddNode(h, ns[n + 1]), ns, n + 1, f)
    BY <1>0, <2>3, <2>4, <2>5, TracedNext
  <2> QED BY <2>2, <2>3, <2>5, <2>6
<1>4. Len(ns) \in 0..Len(ns)
  OBVIOUS
<1> QED BY <1>2, <1>3, <1>4

(* Facts told file by file, and those of one file more.                    *)
LEMMA ToldMore ==
  ASSUME NEW P, NEW A, NEW B, NEW f, B = A \cup {f}, f \notin A, NEW W, NEW V, NEW N, P = UNION {W[k] : k \in A},
         \A k \in A : V[k] = W[k], V[f] = N
  PROVE P \cup N = UNION {V[k] : k \in B}
OBVIOUS

LEMMA SeqIsList ==
  ASSUME NEW S, NEW s \in Seq(S)
  PROVE  IsList(s)
<1>1. Len(s) \in Nat /\ DOMAIN s = 1..Len(s) /\ s = [i \in 1..Len(s) |-> s[i]]
  OBVIOUS
<1>2. \A i \in 1..Len(s) : s[i] \in ToSet(s)
  BY <1>1 DEF ToSet
<1>3. s \in Seq(ToSet(s))
  BY <1>1, <1>2, SeqDef
<1> QED BY <1>3 DEF IsList

NewCalls(rel, first) == [j \in DOMAIN rel |-> [by |-> first + rel[j][1] - 1, to |-> rel[j][2]]]
LEMMA CallsJoined ==
  ASSUME NEW calls, IsList(calls), NEW rel, IsList(rel), NEW first, NEW all,
         all = calls \o NewCalls(rel, first)
  PROVE /\ IsList(all)
        /\ {<<d.to, d.by>> : d \in ToSet(all)} = {<<d.to, d.by>> : d \in ToSet(calls)} \cup Noted(rel, first, FALSE)
<1> DEFINE new == NewCalls(rel, first)
           N == {[by |-> first + r[1] - 1, to |-> r[2]] : r \in ToSet(rel)}
           S == ToSet(calls) \cup N
<1>1. Len(rel) \in Nat /\ DOMAIN rel = 1..Len(rel)
  BY ListDomain
<1>2. DOMAIN new = 1..Len(rel) /\ ToSet(new) = N
  BY <1>1 DEF ToSet, NewCalls
<1>3. \A d \in N : <<d.to, d.by>> \in Noted(rel, first, FALSE)
  <2>1. ASSUME NEW r \in ToSet(rel)
        PROVE LET d == [by |-> first + r[1] - 1, to |-> r[2]] IN <<d.to, d.by>> \in Noted(rel, first, FALSE)
    BY DEF Noted, KeyOf
  <2> QED BY <2>1
<1>4. \A q \in Noted(rel, first, FALSE) : \E d \in N : q = <<d.to, d.by>>
  <2> TAKE q \in Noted(rel, first, FALSE)
  <2>1. PICK r \in ToSet(rel) : q = <<r[2], first + r[1] - 1>>
    BY DEF Noted, KeyOf
  <2> DEFINE d == [by |-> first + r[1] - 1, to |-> r[2]]
  <2>2. d \in N /\ q = <<d.to, d.by>>
    BY <2>1
  <2> HIDE DEF d, N
  <2> QED BY <2>2
<1>n. \A j \in 1..Len(rel) : new[j] \in N
  BY <1>2 DEF ToSet
<1>5. new \in Seq(S)
  <2>1. new = [j \in 1..Len(rel) |-> new[j]]
    BY <1>1 DEF NewCalls
  <2>2. \A j \in 1..Len(rel) : new[j] \in S
    BY <1>n
  <2> HIDE DEF new, N, S
  <2> QED BY <1>1, <2>1, <2>2, SeqDef
<1>6. calls \in Seq(S)
  <2>1. calls \in Seq(ToSet(calls))
    BY DEF IsList
  <2>2. Len(calls) \in Nat /\ DOMAIN calls = 1..Len(calls)
    BY ListDomain
  <2>3. calls = [j \in 1..Len(calls) |-> calls[j]]
    <3> DEFINE C == ToSet(calls)
    <3>1. calls \in Seq(C)
      BY <2>1
    <3> HIDE DEF C
    <3> QED BY <3>1
  <2>4. \A j \in 1..Len(calls) : calls[j] \in S
    BY <2>2 DEF ToSet
  <2> HIDE DEF S
  <2> QED BY <2>2, <2>3, <2>4, SeqDef
<1>7. all = calls \o new
  OBVIOUS
<1> HIDE DEF new, N, S
<1>8. all \in Seq(S) /\ ToSet(all) = ToSet(calls) \cup N
  <2>1. calls \o new \in Seq(S) /\ ToSet(calls \o new) = ToSet(calls) \cup ToSet(new)
    BY <1>5, <1>6, JoinMembers
  <2> QED BY <2>1, <1>2, <1>7
<1>9. IsList(all)
  BY <1>8, SeqIsList
<1> QED BY <1>3, <1>4, <1>8, <1>9

LEMMA ApplyHeld ==
  ASSUME NEW g, NEW c, Held(g, c), Given(c), NEW f \in ToSet(Files), c[f] = NoFile, NEW x \in DOMAIN Extracted, x # NoFile
  PROVE Held(Apply(g, f, Extracted[x]), [c EXCEPT ![f] = x])
<1> DEFINE idx == Extracted[x]
           ns == NodesOf(f, idx)
           first == g.next
           h == AddNodes(g, ns)
           a == Apply(g, f, idx)
           e == [c EXCEPT ![f] = x]
<1>0. Sound(g) /\ FactsFilled(g) /\ FactsHeld(g, c)
  BY DEF Held
<1>1. first \in Nat /\ DOMAIN g.nodes \subseteq 0..(first - 1) /\ DOMAIN g = GraphFields
  BY <1>0 DEF Sound, Ided
<1>2. /\ IsList(idx.nodes) /\ IsList(idx.deps) /\ IsList(idx.producers) /\ IsList(idx.consumers) /\ IsList(idx.calls)
      /\ idx.heuristic \cup Named(idx.deps) \cup Named(idx.producers) \cup Named(idx.consumers) \cup Named(idx.calls)
           \subseteq DOMAIN idx.nodes
  BY ExtractedAssumption
<1> DEFINE len == Len(idx.nodes)
<1>3. len \in Nat /\ DOMAIN idx.nodes = 1..len
  BY <1>2, ListDomain
<1>4. DOMAIN ns = 1..len /\ Len(ns) = len /\ \A m \in 1..len : ns[m].file = f
  <2>1. DOMAIN ns = 1..len /\ \A m \in 1..len : ns[m] = Located(idx.nodes[m], f)
    BY <1>3 DEF NodesOf
  <2>2. Len(ns) = len
    <3> HIDE DEF ns, len
    <3> QED BY <1>3, <2>1, LenProperties
  <2>3. \A n : Located(n, f).file = f
    BY DEF Located
  <2> QED BY <2>1, <2>2, <2>3
<1>5. Bucket(g.byFile, f) = <<>>
  BY DEF Held, FileHeld
<1>6. Traced(g, h, ns, len, f)
  <2> HIDE DEF ns, len
  <2>1. Traced(g, AddNodes(g, ns), ns, Len(ns), f)
    BY <1>0, <1>3, <1>4, <1>5, AddNodesTrace
  <2> QED BY <2>1, <1>4
<1>7. a = AddFacts(h, first, idx)
  BY DEF Apply
<1>8. Sound(a)
  <2>1. Len(NodesOf(f, idx)) \in Nat
    BY <1>3, <1>4
  <2> QED BY <2>1, <1>0, ApplySound
<1>9. DOMAIN h = GraphFields /\ SameFacts(g, h)
  BY <1>6 DEF Traced
<1>10. e \in [ToSet(Files) -> DOMAIN Extracted \cup {NoFile}] /\ e[f] = x /\ \A k \in ToSet(Files) : k # f => e[k] = c[k]
  BY DEF Given
<1>11. There(e) = There(c) \cup {f} /\ f \notin There(c) /\ \A k \in There(c) : e[k] = c[k]
  BY <1>10 DEF There
<1> HIDE DEF ns, h, a, e, len, first, idx
<1>12. SameNodes(h, a)
  BY <1>7, <1>9, AddFactsSame
<1>13. /\ Bucket(a.byFile, f) = [m \in 1..len |-> first + m - 1]
       /\ \A k : k # f => Bucket(a.byFile, k) = Bucket(g.byFile, k)
       /\ DOMAIN a.nodes = DOMAIN g.nodes \cup (first..(first + len - 1))
       /\ \A i \in DOMAIN g.nodes : a.nodes[i] = g.nodes[i]
       /\ \A m \in 1..len : a.nodes[first + m - 1] = ns[m]
  BY <1>6, <1>12 DEF SameNodes, Traced, first
<1>14. /\ a.deps = AddRelation(g.deps, idx.deps, first, FALSE)
       /\ a.producers = AddRelation(g.producers, idx.producers, first, TRUE)
       /\ a.consumers = AddRelation(g.consumers, idx.consumers, first, TRUE)
       /\ a.calls = g.calls \o NewCalls(idx.calls, first)
       /\ a.heuristic = g.heuristic \cup {first + i - 1 : i \in idx.heuristic}
  <2>1. a.deps = AddRelation(g.deps, idx.deps, first, FALSE)
    BY <1>7, <1>9 DEF AddFacts, GraphFields, SameFacts
  <2>2. a.producers = AddRelation(g.producers, idx.producers, first, TRUE)
    BY <1>7, <1>9 DEF AddFacts, GraphFields, SameFacts
  <2>3. a.consumers = AddRelation(g.consumers, idx.consumers, first, TRUE)
    BY <1>7, <1>9 DEF AddFacts, GraphFields, SameFacts
  <2>4. a.calls = g.calls \o NewCalls(idx.calls, first)
    BY <1>7, <1>9 DEF AddFacts, GraphFields, SameFacts, NewCalls
  <2>5. a.heuristic = g.heuristic \cup {first + i - 1 : i \in idx.heuristic}
    BY <1>7, <1>9 DEF AddFacts, GraphFields, SameFacts
  <2> QED BY <2>1, <2>2, <2>3, <2>4, <2>5
<1>15. ASSUME NEW rel, Named(rel) \subseteq DOMAIN idx.nodes, NEW topical
       PROVE Noted(rel, first, topical) = Told(a, f, rel, topical) /\ \A r \in ToSet(rel) : r[1] \in Nat \ {0}
  <2>1. \A r \in ToSet(rel) : r[1] \in 1..len
    BY <1>15, <1>3 DEF Named
  <2>2. \A r \in ToSet(rel) : Bucket(a.byFile, f)[r[1]] = first + r[1] - 1
    BY <2>1, <1>13
  <2> QED BY <2>1, <2>2, <1>3 DEF Noted, Told
<1>16. \A k \in There(c) : Bucket(a.byFile, k) = Bucket(g.byFile, k)
  BY <1>11, <1>13
<1>17. \A k \in There(c) : \A rel, topical : Told(a, k, rel, topical) = Told(g, k, rel, topical)
  BY <1>16 DEF Told
<1>18. e[f] = x /\ Extracted[x] = idx
  BY <1>10 DEF idx
<1>19. Filled(a.deps) /\ PairsOf(a.deps) = UNION {Told(a, k, Extracted[e[k]].deps, FALSE) : k \in There(e)}
  <2> DEFINE A == There(c)
             B == There(e)
             W == [k \in A |-> Told(g, k, Extracted[c[k]].deps, FALSE)]
             V == [k \in B |-> Told(a, k, Extracted[e[k]].deps, FALSE)]
             P == PairsOf(g.deps)
             N == Noted(idx.deps, first, FALSE)
  <2>1. Filled(a.deps) /\ PairsOf(a.deps) = P \cup N
    <3>1. \A r \in ToSet(idx.deps) : r[1] \in Nat \ {0}
      BY <1>2, <1>15
    <3>2. Filled(g.deps) /\ IsList(idx.deps)
      BY <1>0, <1>2 DEF FactsFilled
    <3> DEFINE topical == FALSE
               rel == idx.deps
               m == g.deps
    <3>3. a.deps = AddRelation(m, rel, first, topical) /\ N = Noted(rel, first, topical) /\ P = PairsOf(m)
      BY <1>14
    <3> HIDE DEF topical, rel, m, N, P
    <3>4. Filled(m) /\ IsList(rel) /\ first \in Nat /\ \A r \in ToSet(rel) : r[1] \in Nat \ {0}
      BY <3>1, <3>2, <1>1 DEF m, rel
    <3>5. /\ Filled(AddRelation(m, rel, first, topical))
          /\ PairsOf(AddRelation(m, rel, first, topical)) = PairsOf(m) \cup Noted(rel, first, topical)
      BY <3>4, RelationPairs
    <3> QED BY <3>3, <3>5
  <2>2. P = UNION {W[k] : k \in A}
    <3>1. {W[k] : k \in A} = {Told(g, k, Extracted[c[k]].deps, FALSE) : k \in There(c)}
      OBVIOUS
    <3> QED BY <3>1, <1>0 DEF FactsHeld
  <2>3. \A k \in A : V[k] = W[k]
    <3> TAKE k \in A
    <3>1. k \in There(c) /\ k \in B /\ e[k] = c[k]
      BY <1>11
    <3>2. V[k] = Told(a, k, Extracted[e[k]].deps, FALSE)
      BY <3>1
    <3>3. W[k] = Told(g, k, Extracted[c[k]].deps, FALSE)
      BY <3>1
    <3>4. Told(a, k, Extracted[c[k]].deps, FALSE) = Told(g, k, Extracted[c[k]].deps, FALSE)
      BY <3>1, <1>17
    <3> QED BY <3>1, <3>2, <3>3, <3>4
  <2>4. V[f] = N
    <3>1. N = Told(a, f, idx.deps, FALSE)
      BY <1>2, <1>15
    <3> QED BY <3>1, <1>11, <1>18
  <2>5. {V[k] : k \in B} = {Told(a, k, Extracted[e[k]].deps, FALSE) : k \in There(e)}
    OBVIOUS
  <2>6. B = A \cup {f} /\ f \notin A
    BY <1>11
  <2> HIDE DEF A, B, W, V, P, N
  <2>7. P \cup N = UNION {V[k] : k \in B}
    BY <2>2, <2>3, <2>4, <2>6, ToldMore
  <2> QED BY <2>1, <2>5, <2>7
<1>20. Filled(a.producers) /\ PairsOf(a.producers) = UNION {Told(a, k, Extracted[e[k]].producers, TRUE) : k \in There(e)}
  <2> DEFINE A == There(c)
             B == There(e)
             W == [k \in A |-> Told(g, k, Extracted[c[k]].producers, TRUE)]
             V == [k \in B |-> Told(a, k, Extracted[e[k]].producers, TRUE)]
             P == PairsOf(g.producers)
             N == Noted(idx.producers, first, TRUE)
  <2>1. Filled(a.producers) /\ PairsOf(a.producers) = P \cup N
    <3>1. \A r \in ToSet(idx.producers) : r[1] \in Nat \ {0}
      BY <1>2, <1>15
    <3>2. Filled(g.producers) /\ IsList(idx.producers)
      BY <1>0, <1>2 DEF FactsFilled
    <3> DEFINE topical == TRUE
               rel == idx.producers
               m == g.producers
    <3>3. a.producers = AddRelation(m, rel, first, topical) /\ N = Noted(rel, first, topical) /\ P = PairsOf(m)
      BY <1>14
    <3> HIDE DEF topical, rel, m, N, P
    <3>4. Filled(m) /\ IsList(rel) /\ first \in Nat /\ \A r \in ToSet(rel) : r[1] \in Nat \ {0}
      BY <3>1, <3>2, <1>1 DEF m, rel
    <3>5. /\ Filled(AddRelation(m, rel, first, topical))
          /\ PairsOf(AddRelation(m, rel, first, topical)) = PairsOf(m) \cup Noted(rel, first, topical)
      BY <3>4, RelationPairs
    <3> QED BY <3>3, <3>5
  <2>2. P = UNION {W[k] : k \in A}
    <3>1. {W[k] : k \in A} = {Told(g, k, Extracted[c[k]].producers, TRUE) : k \in There(c)}
      OBVIOUS
    <3> QED BY <3>1, <1>0 DEF FactsHeld
  <2>3. \A k \in A : V[k] = W[k]
    <3> TAKE k \in A
    <3>1. k \in There(c) /\ k \in B /\ e[k] = c[k]
      BY <1>11
    <3>2. V[k] = Told(a, k, Extracted[e[k]].producers, TRUE)
      BY <3>1
    <3>3. W[k] = Told(g, k, Extracted[c[k]].producers, TRUE)
      BY <3>1
    <3>4. Told(a, k, Extracted[c[k]].producers, TRUE) = Told(g, k, Extracted[c[k]].producers, TRUE)
      BY <3>1, <1>17
    <3> QED BY <3>1, <3>2, <3>3, <3>4
  <2>4. V[f] = N
    <3>1. N = Told(a, f, idx.producers, TRUE)
      BY <1>2, <1>15
    <3> QED BY <3>1, <1>11, <1>18
  <2>5. {V[k] : k \in B} = {Told(a, k, Extracted[e[k]].producers, TRUE) : k \in There(e)}
    OBVIOUS
  <2>6. B = A \cup {f} /\ f \notin A
    BY <1>11
  <2> HIDE DEF A, B, W, V, P, N
  <2>7. P \cup N = UNION {V[k] : k \in B}
    BY <2>2, <2>3, <2>4, <2>6, ToldMore
  <2> QED BY <2>1, <2>5, <2>7
<1>21. Filled(a.consumers) /\ PairsOf(a.consumers) = UNION {Told(a, k, Extracted[e[k]].consumers, TRUE) : k \in There(e)}
  <2> DEFINE A == There(c)
             B == There(e)
             W == [k \in A |-> Told(g, k, Extracted[c[k]].consumers, TRUE)]
             V == [k \in B |-> Told(a, k, Extracted[e[k]].consumers, TRUE)]
             P == PairsOf(g.consumers)
             N == Noted(idx.consumers, first, TRUE)
  <2>1. Filled(a.consumers) /\ PairsOf(a.consumers) = P \cup N
    <3>1. \A r \in ToSet(idx.consumers) : r[1] \in Nat \ {0}
      BY <1>2, <1>15
    <3>2. Filled(g.consumers) /\ IsList(idx.consumers)
      BY <1>0, <1>2 DEF FactsFilled
    <3> DEFINE topical == TRUE
               rel == idx.consumers
               m == g.consumers
    <3>3. a.consumers = AddRelation(m, rel, first, topical) /\ N = Noted(rel, first, topical) /\ P = PairsOf(m)
      BY <1>14
    <3> HIDE DEF topical, rel, m, N, P
    <3>4. Filled(m) /\ IsList(rel) /\ first \in Nat /\ \A r \in ToSet(rel) : r[1] \in Nat \ {0}
      BY <3>1, <3>2, <1>1 DEF m, rel
    <3>5. /\ Filled(AddRelation(m, rel, first, topical))
          /\ PairsOf(AddRelation(m, rel, first, topical)) = PairsOf(m) \cup Noted(rel, first, topical)
      BY <3>4, RelationPairs
    <3> QED BY <3>3, <3>5
  <2>2. P = UNION {W[k] : k \in A}
    <3>1. {W[k] : k \in A} = {Told(g, k, Extracted[c[k]].consumers, TRUE) : k \in There(c)}
      OBVIOUS
    <3> QED BY <3>1, <1>0 DEF FactsHeld
  <2>3. \A k \in A : V[k] = W[k]
    <3> TAKE k \in A
    <3>1. k \in There(c) /\ k \in B /\ e[k] = c[k]
      BY <1>11
    <3>2. V[k] = Told(a, k, Extracted[e[k]].consumers, TRUE)
      BY <3>1
    <3>3. W[k] = Told(g, k, Extracted[c[k]].consumers, TRUE)
      BY <3>1
    <3>4. Told(a, k, Extracted[c[k]].consumers, TRUE) = Told(g, k, Extracted[c[k]].consumers, TRUE)
      BY <3>1, <1>17
    <3> QED BY <3>1, <3>2, <3>3, <3>4
  <2>4. V[f] = N
    <3>1. N = Told(a, f, idx.consumers, TRUE)
      BY <1>2, <1>15
    <3> QED BY <3>1, <1>11, <1>18
  <2>5. {V[k] : k \in B} = {Told(a, k, Extracted[e[k]].consumers, TRUE) : k \in There(e)}
    OBVIOUS
  <2>6. B = A \cup {f} /\ f \notin A
    BY <1>11
  <2> HIDE DEF A, B, W, V, P, N
  <2>7. P \cup N = UNION {V[k] : k \in B}
    BY <2>2, <2>3, <2>4, <2>6, ToldMore
  <2> QED BY <2>1, <2>5, <2>7
<1>22. IsList(a.calls) /\ {<<d.to, d.by>> : d \in ToSet(a.calls)} = UNION {Told(a, k, Extracted[e[k]].calls, FALSE) : k \in There(e)}
  <2> DEFINE A == There(c)
             B == There(e)
             W == [k \in A |-> Told(g, k, Extracted[c[k]].calls, FALSE)]
             V == [k \in B |-> Told(a, k, Extracted[e[k]].calls, FALSE)]
             P == {<<d.to, d.by>> : d \in ToSet(g.calls)}
             N == Noted(idx.calls, first, FALSE)
  <2>1. IsList(a.calls) /\ {<<d.to, d.by>> : d \in ToSet(a.calls)} = P \cup N
    <3>1. IsList(g.calls) /\ IsList(idx.calls)
      BY <1>0, <1>2 DEF FactsFilled
    <3>2. a.calls = g.calls \o NewCalls(idx.calls, first)
      BY <1>14
    <3> DEFINE old == g.calls
               rel == idx.calls
               all == a.calls
    <3>3. IsList(old) /\ IsList(rel) /\ all = old \o NewCalls(rel, first)
      BY <3>1, <3>2
    <3> HIDE DEF old, rel, all, N
    <3>4. IsList(all)
      BY <3>3, CallsJoined
    <3>5. {<<d.to, d.by>> : d \in ToSet(all)} = {<<d.to, d.by>> : d \in ToSet(old)} \cup Noted(rel, first, FALSE)
      BY <3>3, CallsJoined
    <3> QED BY <3>4, <3>5 DEF old, rel, all, N
  <2>2. P = UNION {W[k] : k \in A}
    <3>1. {W[k] : k \in A} = {Told(g, k, Extracted[c[k]].calls, FALSE) : k \in There(c)}
      OBVIOUS
    <3> QED BY <3>1, <1>0 DEF FactsHeld
  <2>3. \A k \in A : V[k] = W[k]
    <3> TAKE k \in A
    <3>1. k \in There(c) /\ k \in B /\ e[k] = c[k]
      BY <1>11
    <3>2. V[k] = Told(a, k, Extracted[e[k]].calls, FALSE)
      BY <3>1
    <3>3. W[k] = Told(g, k, Extracted[c[k]].calls, FALSE)
      BY <3>1
    <3>4. Told(a, k, Extracted[c[k]].calls, FALSE) = Told(g, k, Extracted[c[k]].calls, FALSE)
      BY <3>1, <1>17
    <3> QED BY <3>1, <3>2, <3>3, <3>4
  <2>4. V[f] = N
    <3>1. N = Told(a, f, idx.calls, FALSE)
      BY <1>2, <1>15
    <3> QED BY <3>1, <1>11, <1>18
  <2>5. {V[k] : k \in B} = {Told(a, k, Extracted[e[k]].calls, FALSE) : k \in There(e)}
    OBVIOUS
  <2>6. B = A \cup {f} /\ f \notin A
    BY <1>11
  <2> HIDE DEF A, B, W, V, P, N
  <2>7. P \cup N = UNION {V[k] : k \in B}
    BY <2>2, <2>3, <2>4, <2>6, ToldMore
  <2> QED BY <2>1, <2>5, <2>7
<1>23. a.heuristic = UNION {{Bucket(a.byFile, k)[i] : i \in Extracted[e[k]].heuristic} : k \in There(e)}
  <2>1. g.heuristic = UNION {{Bucket(g.byFile, k)[i] : i \in Extracted[c[k]].heuristic} : k \in There(c)}
    BY <1>0 DEF FactsHeld
  <2>2. \A i \in idx.heuristic : Bucket(a.byFile, f)[i] = first + i - 1
    <3>1. idx.heuristic \subseteq 1..len
      BY <1>2, <1>3
    <3> QED BY <3>1, <1>13
  <2>3. \A i : i \in a.heuristic <=> (i \in g.heuristic \/ \E j \in idx.heuristic : i = Bucket(a.byFile, f)[j])
    BY <2>2, <1>14
  <2>4. \A i : i \in a.heuristic <=> \E k \in There(e) : \E j \in Extracted[e[k]].heuristic : i = Bucket(a.byFile, k)[j]
    BY <2>1, <2>3, <1>11, <1>16, <1>18
  <2> QED BY <2>4
<1>24. FactsFilled(a) /\ FactsHeld(a, e)
  BY <1>19, <1>20, <1>21, <1>22, <1>23 DEF FactsFilled, FactsHeld
<1>25. ASSUME NEW k \in ToSet(Files) PROVE FileHeld(a, k, e[k])
  <2>1. CASE k = f
    <3> DEFINE ids == Bucket(a.byFile, f)
    <3>1. ids = [m \in 1..len |-> first + m - 1] /\ DOMAIN ids = 1..len
      BY <1>13
    <3>2. Len(ids) = len
      <4>1. \A m \in 1..len : first + m - 1 \in Nat
        BY <1>1, <1>3
      <4>2. ids \in Seq(Nat)
        BY <3>1, <4>1, <1>3
      <4> HIDE DEF ids
      <4> QED BY <3>1, <4>2, <1>3
    <3>3. \A m \in 1..len : ids[m] \in DOMAIN a.nodes /\ a.nodes[ids[m]] = ns[m]
      <4> TAKE m \in 1..len
      <4>1. ids[m] = first + m - 1 /\ first + m - 1 \in first..(first + len - 1)
        BY <3>1, <1>1, <1>3
      <4> QED BY <4>1, <1>13
    <3> HIDE DEF ids
    <3> QED BY <2>1, <3>1, <3>2, <3>3, <1>18 DEF FileHeld, ids, ns, len
  <2>2. CASE k # f
    <3> DEFINE ids == Bucket(g.byFile, k)
    <3>1. Bucket(a.byFile, k) = ids /\ e[k] = c[k]
      BY <2>2, <1>10, <1>13
    <3>2. \A m \in DOMAIN ids : ids[m] \in DOMAIN a.nodes /\ a.nodes[ids[m]] = g.nodes[ids[m]]
      <4> TAKE m \in DOMAIN ids
      <4>1. ids[m] \in ToSet(ids)
        BY DEF ToSet
      <4>2. ids[m] \in DOMAIN g.nodes
        BY <4>1, <1>0, FileNodes
      <4> QED BY <4>2, <1>13
    <3>3. FileHeld(g, k, c[k])
      BY DEF Held
    <3> HIDE DEF ids
    <3> QED BY <3>1, <3>2, <3>3 DEF FileHeld, ids
  <2> QED BY <2>1, <2>2
<1>26. \A i \in DOMAIN a.nodes : i \in DOMAIN g.nodes \/ a.nodes[i].file = f
  <2> TAKE i \in DOMAIN a.nodes
  <2>1. CASE i \in first..(first + len - 1)
    <3> DEFINE m == i - first + 1
    <3>1. m \in 1..len /\ first + m - 1 = i
      BY <2>1, <1>1, <1>3
    <3> QED BY <3>1, <1>4, <1>13
  <2> QED BY <2>1, <1>13
<1>27. \A i \in DOMAIN a.nodes : Placed(a.nodes[i])
  BY <1>13, <1>26 DEF Held, Placed
<1>28. SingleHubs(a)
  <2>1. \A i \in HubIds(a) : i \in HubIds(g) /\ a.nodes[i] = g.nodes[i]
    BY <1>13, <1>26, GraphAssumption DEF HubIds
  <2>2. SingleHubs(g)
    BY DEF Held
  <2> QED BY <2>1, <2>2 DEF SingleHubs
<1> QED BY <1>8, <1>24, <1>25, <1>27, <1>28 DEF Held, a, e, idx
----
(* The files that changed, one after the other.                            *)
LEMMA EmptyHeld ==
  ASSUME NEW c, \A f \in ToSet(Files) : c[f] = NoFile
  PROVE  Held(EmptyGraph, c)
<1>1. /\ EmptyGraph.nodes = NoMap /\ EmptyGraph.byFile = NoMap /\ EmptyGraph.deps = NoMap /\ EmptyGraph.producers = NoMap
      /\ EmptyGraph.consumers = NoMap /\ EmptyGraph.calls = <<>> /\ EmptyGraph.heuristic = {}
  BY DEF EmptyGraph
<1>2. DOMAIN NoMap = {}
  BY DEF NoMap
<1>3. There(c) = {}
  BY DEF There
<1>4. PairsOf(NoMap) = {}
  BY <1>2 DEF PairsOf
<1>5. ToSet(<<>>) = {} /\ IsList(<<>>)
  <2>1. ToSet(<<>>) = {}
    BY DEF ToSet
  <2>2. <<>> \in Seq({})
    OBVIOUS
  <2> QED BY <2>1, <2>2 DEF IsList
<1>6. FactsFilled(EmptyGraph)
  BY <1>1, <1>2, <1>5 DEF FactsFilled, Filled
<1>7. FactsHeld(EmptyGraph, c)
  BY <1>1, <1>3, <1>4, <1>5 DEF FactsHeld
<1>8. \A f \in ToSet(Files) : FileHeld(EmptyGraph, f, c[f])
  BY <1>1, <1>2 DEF FileHeld, Bucket
<1>9. SingleHubs(EmptyGraph)
  BY <1>1, <1>2 DEF SingleHubs, HubIds
<1> QED BY <1>1, <1>2, <1>6, <1>7, <1>8, <1>9, EmptySound DEF Held

Upto(c, fs, n) == [f \in ToSet(Files) |-> IF f \in fs /\ f \notin {Files[j] : j \in 1..n} THEN NoFile ELSE c[f]]
LEMMA FoldedHeld ==
  ASSUME NEW c, Given(c), NEW fs, NEW g, Held(g, Emptied(c, fs))
  PROVE Held(Folded(g, fs, c), c)
<1>1. Len(Files) \in Nat /\ DOMAIN Files = 1..Len(Files)
  BY GraphAssumption, ListDomain
<1>2. PICK F : /\ Folded(g, fs, c) = F[Len(Files)]
               /\ \A i \in 0..Len(Files) :
                    F[i] = IF i = 0 THEN g
                           ELSE IF Files[i] \in fs /\ c[Files[i]] # NoFile THEN Apply(F[i - 1], Files[i], Extracted[c[Files[i]]])
                           ELSE F[i - 1]
  BY <1>1, DoneUnfolds
<1>3. \A i \in 0..Len(Files) : Held(F[i], Upto(c, fs, i))
  <2> DEFINE T == {i \in 0..Len(Files) : ~Held(F[i], Upto(c, fs, i))}
  <2> SUFFICES ASSUME T # {} PROVE FALSE
    OBVIOUS
  <2>1. PICK j \in T : \A l \in T : j <= l
    <3>1. T \in SUBSET Nat
      BY <1>1
    <3> HIDE DEF T
    <3> QED BY <3>1, LeastNat
  <2>0. Held(F[0], Upto(c, fs, 0))
    <3>1. F[0] = g
      BY <1>1, <1>2
    <3>2. Upto(c, fs, 0) = Emptied(c, fs)
      BY DEF Upto, Emptied
    <3> QED BY <3>1, <3>2
  <2>2. j \in 0..Len(Files) /\ ~Held(F[j], Upto(c, fs, j)) /\ j # 0
    BY <2>0
  <2> DEFINE n == j - 1
             h == F[j - 1]
             d == Upto(c, fs, n)
             f == Files[j]
             x == c[f]
  <2>3. n \in 0..Len(Files) /\ n \notin T /\ n \in Nat /\ j \in 1..Len(Files)
    <3> HIDE DEF T
    <3> QED BY <1>1, <2>1, <2>2
  <2>4. Held(h, d)
    BY <2>3
  <2>5. f \in ToSet(Files) /\ f \notin {Files[i] : i \in 1..n}
    <3>1. f \in ToSet(Files)
      BY <1>1, <2>3 DEF ToSet
    <3>2. \A i \in 1..n : i \in DOMAIN Files /\ i # j
      BY <1>1, <2>3
    <3>3. j \in DOMAIN Files
      BY <1>1, <2>3
    <3> QED BY <3>1, <3>2, <3>3, GraphAssumption
  <2>6. {Files[i] : i \in 1..j} = {Files[i] : i \in 1..n} \cup {f}
    <3>1. 1..j = (1..n) \cup {j}
      BY <1>1, <2>3
    <3> QED BY <3>1
  <2>7. Given(d)
    BY DEF Given, Upto
  <2> HIDE DEF T
  <2>8. CASE f \in fs /\ x # NoFile
    <3>1. F[j] = Apply(h, f, Extracted[x])
      BY <1>2, <2>2, <2>8
    <3>2. d[f] = NoFile
      BY <2>5, <2>8 DEF Upto
    <3>3. x \in DOMAIN Extracted
      BY <2>5, <2>8 DEF Given
    <3>4. Upto(c, fs, j) = [d EXCEPT ![f] = x]
      <4>1. \A k \in ToSet(Files) : Upto(c, fs, j)[k] = IF k = f THEN x ELSE d[k]
        <5> TAKE k \in ToSet(Files)
        <5>1. Upto(c, fs, j)[k] = IF k \in fs /\ k \notin {Files[i] : i \in 1..j} THEN NoFile ELSE c[k]
          BY DEF Upto
        <5>2. d[k] = IF k \in fs /\ k \notin {Files[i] : i \in 1..n} THEN NoFile ELSE c[k]
          BY DEF Upto
        <5> QED BY <5>1, <5>2, <2>6
      <4>2. Upto(c, fs, j) = [k \in ToSet(Files) |-> Upto(c, fs, j)[k]] /\ d = [k \in ToSet(Files) |-> d[k]]
        BY DEF Upto
      <4> HIDE DEF d, x, f
      <4> QED BY <4>1, <4>2, <2>5
    <3> HIDE DEF h, d, f, x
    <3>5. Held(Apply(h, f, Extracted[x]), [d EXCEPT ![f] = x])
      BY <2>4, <2>5, <2>7, <2>8, <3>2, <3>3, ApplyHeld
    <3> QED BY <2>2, <3>1, <3>4, <3>5
  <2>9. CASE ~(f \in fs /\ x # NoFile)
    <3>1. F[j] = h
      BY <1>2, <2>2, <2>9
    <3>2. Upto(c, fs, j) = d
      <4>1. \A k \in ToSet(Files) : Upto(c, fs, j)[k] = d[k]
        <5> TAKE k \in ToSet(Files)
        <5>1. Upto(c, fs, j)[k] = IF k \in fs /\ k \notin {Files[i] : i \in 1..j} THEN NoFile ELSE c[k]
          BY DEF Upto
        <5>2. d[k] = IF k \in fs /\ k \notin {Files[i] : i \in 1..n} THEN NoFile ELSE c[k]
          BY DEF Upto
        <5> QED BY <5>1, <5>2, <2>6, <2>9
      <4>2. Upto(c, fs, j) = [k \in ToSet(Files) |-> Upto(c, fs, j)[k]] /\ d = [k \in ToSet(Files) |-> d[k]]
        BY DEF Upto
      <4> QED BY <4>1, <4>2
    <3> QED BY <2>2, <2>4, <3>1, <3>2
  <2> QED BY <2>8, <2>9
<1>4. Upto(c, fs, Len(Files)) = c
  <2>1. \A f \in ToSet(Files) : f \in {Files[j] : j \in 1..Len(Files)}
    BY <1>1 DEF ToSet
  <2>2. \A f \in ToSet(Files) : Upto(c, fs, Len(Files))[f] = c[f]
    BY <2>1 DEF Upto
  <2>3. Upto(c, fs, Len(Files)) = [f \in ToSet(Files) |-> Upto(c, fs, Len(Files))[f]] /\ c = [f \in ToSet(Files) |-> c[f]]
    BY DEF Upto, Given
  <2> QED BY <2>2, <2>3
<1>5. Len(Files) \in 0..Len(Files)
  BY <1>1
<1> QED BY <1>2, <1>3, <1>4, <1>5

(* Topic keys are in lower case, and all of them are in Sorted.            *)
LEMMA LowerTwice ==
  ASSUME NEW n
  PROVE  Lower(Lower(n)) = Lower(n)
<1>1. \A t : LowerT(LowerT(t)) = LowerT(t)
  BY DEF LowerT, Tok
<1> QED BY <1>1 DEF Lower

LEMMA TopicsSorted ==
  ASSUME NEW g, NEW c, Held(g, c), Given(c), NEW k \in Topics(g)
  PROVE k \in ToSet(Sorted) /\ Lower(k) = k /\ k \in TopicKeys
<1>0. FactsHeld(g, c) /\ FactsFilled(g)
  BY DEF Held
<1>1. ASSUME NEW m, Filled(m), k \in DOMAIN m PROVE \E i : <<k, i>> \in PairsOf(m)
  <2> DEFINE s == m[k]
  <2>1. s \in Seq(Nat) /\ s # <<>>
    BY <1>1 DEF Filled
  <2> HIDE DEF s
  <2>2. s[1] \in ToSet(s)
    BY <2>1 DEF ToSet
  <2>3. <<k, s[1]>> \in PairsOf(m)
    BY <1>1, <2>2, PairsAre DEF s
  <2> QED BY <2>3
<1>2. ASSUME NEW f \in There(c), NEW rel,
             \A r \in ToSet(rel) : NormalizeTopicKey(r[2]) \in ToSet(Sorted) /\ NormalizeTopicKey(r[2]) \in TopicKeys,
             NEW i, <<k, i>> \in Told(g, f, rel, TRUE)
      PROVE k \in ToSet(Sorted) /\ Lower(k) = k /\ k \in TopicKeys
  <2>1. PICK r \in ToSet(rel) : k = NormalizeTopicKey(r[2])
    BY <1>2 DEF Told, KeyOf
  <2>2. Lower(k) = k
    BY <2>1, LowerTwice DEF NormalizeTopicKey
  <2> QED BY <2>1, <2>2, <1>2
<1>3. ASSUME NEW f \in There(c)
      PROVE /\ \A r \in ToSet(Extracted[c[f]].producers) : NormalizeTopicKey(r[2]) \in ToSet(Sorted) /\ NormalizeTopicKey(r[2]) \in TopicKeys
            /\ \A r \in ToSet(Extracted[c[f]].consumers) : NormalizeTopicKey(r[2]) \in ToSet(Sorted) /\ NormalizeTopicKey(r[2]) \in TopicKeys
  <2>1. c[f] \in DOMAIN Extracted
    BY DEF There, Given
  <2>2. \A r \in ToSet(Extracted[c[f]].producers) \cup ToSet(Extracted[c[f]].consumers) : NormalizeTopicKey(r[2]) \in TopicKeys
    BY <2>1 DEF TopicKeys
  <2> QED BY <2>1, <2>2, ExtractedAssumption
<1>4. CASE k \in DOMAIN g.producers
  <2>1. PICK i : <<k, i>> \in PairsOf(g.producers)
    BY <1>0, <1>1, <1>4 DEF FactsFilled
  <2>2. PICK f \in There(c) : <<k, i>> \in Told(g, f, Extracted[c[f]].producers, TRUE)
    BY <2>1, <1>0 DEF FactsHeld
  <2> QED BY <2>2, <1>2, <1>3
<1>5. CASE k \in DOMAIN g.consumers
  <2>1. PICK i : <<k, i>> \in PairsOf(g.consumers)
    BY <1>0, <1>1, <1>5 DEF FactsFilled
  <2>2. PICK f \in There(c) : <<k, i>> \in Told(g, f, Extracted[c[f]].consumers, TRUE)
    BY <2>1, <1>0 DEF FactsHeld
  <2> QED BY <2>2, <1>2, <1>3
<1> QED BY <1>4, <1>5 DEF Topics
----
(* `reconcile_edges`: hubs no topic has go, and each topic gets its own.   *)
HubNames(g) == {g.nodes[i].name : i \in HubIds(g)}

LEMMA HubFields ==
  ASSUME NEW k
  PROVE /\ HubNode(k).name = k /\ HubNode(k).kind = "EventStream" /\ HubNode(k).pkg = Hub /\ HubNode(k).file = HubFile
BY DEF HubNode

LEMMA HubsAre ==
  ASSUME NEW g, NEW c, Held(g, c), NEW i \in HubIds(g)
  PROVE /\ i \in DOMAIN g.nodes /\ g.nodes[i] = HubNode(g.nodes[i].name) /\ Lower(g.nodes[i].name) = g.nodes[i].name
        /\ g.nodes[i].pkg = Hub /\ g.nodes[i].kind = "EventStream"
<1>1. i \in DOMAIN g.nodes /\ g.nodes[i].file = HubFile
  BY DEF HubIds
<1>2. g.nodes[i] = HubNode(g.nodes[i].name) /\ Lower(g.nodes[i].name) = g.nodes[i].name
  BY <1>1, GraphAssumption DEF Held, Placed
<1> DEFINE k == g.nodes[i].name
<1>3. g.nodes[i] = HubNode(k)
  BY <1>2
<1> HIDE DEF k
<1>4. g.nodes[i].pkg = Hub /\ g.nodes[i].kind = "EventStream"
  BY <1>3, HubFields
<1> QED BY <1>1, <1>2, <1>4

LEMMA StaleHubsGo ==
  ASSUME HubsReserved, NEW g, NEW c, Held(g, c), Given(c), NEW p, p = RemoveNodes(g, StaleHubs(g))
  PROVE Held(p, c) /\ SameFacts(g, p) /\ HubNames(p) \subseteq Topics(g)
<1> DEFINE stale == StaleHubs(g)
<1>0. Sound(g) /\ DOMAIN g = GraphFields
  BY DEF Held, Sound, Ided
<1>1. /\ p.nodes = [i \in DOMAIN g.nodes \ stale |-> g.nodes[i]]
      /\ p.byFile = Purge(g.byFile, GoneKeys(FilesIn(g), stale), stale)
  BY <1>0, RemoveFields
<1>2. SameFacts(g, p) /\ Sound(p)
  BY <1>0, RemoveNodesFacts, PurgedSound
<1>3. \A i \in stale : i \in DOMAIN g.nodes /\ g.nodes[i].file = HubFile
  <2> TAKE i \in stale
  <2>1. i \in DOMAIN g.nodes /\ g.nodes[i].pkg = Hub /\ g.nodes[i].kind \in StreamKinds
    BY DEF StaleHubs
  <2>2. g.nodes[i] = HubNode(g.nodes[i].name)
    BY <2>1, HubsOnly
  <2> DEFINE k == g.nodes[i].name
  <2>3. g.nodes[i] = HubNode(k)
    BY <2>2
  <2> HIDE DEF k
  <2> QED BY <2>1, <2>3, HubFields
<1>4. \A i \in HubIds(g) : i \notin stale => g.nodes[i].name \in Topics(g)
  <2> TAKE i \in HubIds(g)
  <2>1. i \in DOMAIN g.nodes /\ g.nodes[i].pkg = Hub /\ g.nodes[i].kind = "EventStream"
    BY HubsAre
  <2> QED BY <2>1 DEF StaleHubs, StreamKinds
<1> HIDE DEF stale
<1>5. GoneKeys(FilesIn(g), stale) \subseteq {HubFile}
  <2>1. \A i \in stale \cap DOMAIN FilesIn(g) : ToSet(FilesIn(g)[i]) = {HubFile}
    <3>1. DOMAIN FilesIn(g) = DOMAIN g.nodes /\ \A i \in DOMAIN g.nodes : FilesIn(g)[i] = <<g.nodes[i].file>>
      BY DEF FilesIn, FileKeys
    <3>2. \A f : ToSet(<<f>>) = {f}
      BY DEF ToSet
    <3> QED BY <1>3, <3>1, <3>2
  <2> QED BY <2>1 DEF GoneKeys
<1>6. \A f \in ToSet(Files) : Bucket(p.byFile, f) = Bucket(g.byFile, f)
  <2> TAKE f \in ToSet(Files)
  <2>1. f \notin GoneKeys(FilesIn(g), stale)
    BY <1>5, GraphAssumption
  <2> QED BY <2>1, <1>1, PurgeBucket
<1>7. \A i \in DOMAIN g.nodes : g.nodes[i].file \in ToSet(Files) => i \in DOMAIN p.nodes /\ p.nodes[i] = g.nodes[i]
  BY <1>1, <1>3, GraphAssumption
<1>8. \A i \in DOMAIN p.nodes : i \in DOMAIN g.nodes /\ i \notin stale /\ p.nodes[i] = g.nodes[i]
  BY <1>1
<1>9. \A i \in DOMAIN p.nodes : Placed(p.nodes[i])
  BY <1>8 DEF Held
<1>10. \A i \in HubIds(p) : i \in HubIds(g) /\ i \notin stale /\ p.nodes[i] = g.nodes[i]
  BY <1>8 DEF HubIds
<1>11. SingleHubs(p)
  <2>1. SingleHubs(g)
    BY DEF Held
  <2> QED BY <2>1, <1>10 DEF SingleHubs
<1>12. Held(p, c)
  BY <1>2, <1>6, <1>7, <1>9, <1>11, HeldSame
<1>13. HubNames(p) \subseteq Topics(g)
  BY <1>4, <1>10 DEF HubNames
<1> QED BY <1>2, <1>12, <1>13

(* The hubs found under a name are the hubs of that name.                  *)
LEMMA HubsListed ==
  ASSUME HubsReserved, NEW g, NEW c, Held(g, c), Given(c), NEW k
  PROVE /\ HubsOf(g, k) \in Seq(Nat)
        /\ \A i : i \in ToSet(HubsOf(g, k)) <=> i \in HubIds(g) /\ g.nodes[i].name = k
<1> DEFINE keys == NamesIn(g)
           n == g.next
           b == Bucket(g.byName, k)
           others == {i \in DOMAIN g.nodes : ~IsHub(g.nodes[i])}
<1>0. Sound(g)
  BY DEF Held
<1>1. n \in Nat /\ DOMAIN g.nodes \subseteq 0..(n - 1) /\ b = Listed(keys, n, k)
  BY <1>0 DEF Sound, Ided, Indexed, Exact
<1>2. DOMAIN keys = DOMAIN g.nodes /\ \A i \in DOMAIN keys : keys[i] = NameKeys(g.nodes[i]) /\ ShortKeys(keys[i])
  BY KeysAreShort DEF NamesIn
<1>3. HubsOf(g, k) = Without(b, others)
  BY DEF HubsOf
<1>4. \A i \in others : i \in DOMAIN g.nodes /\ ~IsHub(g.nodes[i])
  OBVIOUS
<1>5. \A i \in DOMAIN g.nodes : i \notin others => IsHub(g.nodes[i])
  OBVIOUS
<1> HIDE DEF keys, n, b, others
<1>6. ToSet(b) = {i \in DOMAIN keys \cap 0..(n - 1) : k \in ToSet(keys[i])} /\ b \in Seq(Nat)
  BY <1>1, <1>2, ListedMembers, ListedIsSeq
<1>7. Without(b, others) \in Seq(Nat) /\ ToSet(Without(b, others)) = ToSet(b) \ others
  BY <1>6, WithoutMembers
<1>8. ASSUME NEW i \in HubIds(g), g.nodes[i].name = k PROVE i \in ToSet(b) \ others
  <2>1. i \in DOMAIN g.nodes /\ g.nodes[i].pkg = Hub /\ g.nodes[i].kind = "EventStream"
    BY HubsAre
  <2>2. IsHub(g.nodes[i])
    BY <2>1 DEF IsHub
  <2>3. keys[i] = <<k, Lower(k)>>
    BY <2>1, <1>2, <1>8 DEF NameKeys, StreamKinds
  <2>4. k \in ToSet(keys[i])
    BY <2>3 DEF ToSet
  <2> QED BY <2>1, <2>2, <2>4, <1>1, <1>2, <1>4, <1>6
<1>9. ASSUME NEW i \in ToSet(b) \ others PROVE i \in HubIds(g) /\ g.nodes[i].name = k
  <2>1. i \in DOMAIN g.nodes /\ IsHub(g.nodes[i]) /\ k \in ToSet(NameKeys(g.nodes[i]))
    BY <1>2, <1>5, <1>6
  <2>2. g.nodes[i].pkg = Hub /\ g.nodes[i].kind = "EventStream" /\ g.nodes[i].kind \in StreamKinds
    BY <2>1 DEF IsHub, StreamKinds
  <2>3. g.nodes[i] = HubNode(g.nodes[i].name) /\ Lower(g.nodes[i].name) = g.nodes[i].name
    BY <2>1, <2>2, HubsOnly
  <2> DEFINE name == g.nodes[i].name
  <2>4. NameKeys(g.nodes[i]) = <<name, name>> /\ g.nodes[i] = HubNode(name)
    BY <2>2, <2>3 DEF NameKeys
  <2> HIDE DEF name
  <2>5. ToSet(<<name, name>>) = {name}
    BY DEF ToSet
  <2>6. name = k /\ g.nodes[i].file = HubFile
    BY <2>1, <2>4, <2>5, HubFields
  <2> QED BY <2>1, <2>6 DEF HubIds, name
<1> QED BY <1>3, <1>7, <1>8, <1>9

LEMMA HubsFound ==
  ASSUME HubsReserved, NEW g, NEW c, Held(g, c), Given(c), NEW k
  PROVE HubsOf(g, k) = <<>> <=> k \notin HubNames(g)
<1> DEFINE s == HubsOf(g, k)
<1>1. s \in Seq(Nat) /\ \A i : i \in ToSet(s) <=> i \in HubIds(g) /\ g.nodes[i].name = k
  BY HubsListed
<1>2. k \in HubNames(g) <=> \E i \in HubIds(g) : g.nodes[i].name = k
  BY DEF HubNames
<1> HIDE DEF s
<1>3. s = <<>> <=> ToSet(s) = {}
  <2>1. CASE s = <<>>
    BY <2>1 DEF ToSet
  <2>2. CASE s # <<>>
    <3>1. s[1] \in ToSet(s)
      BY <1>1, <2>2 DEF ToSet
    <3> QED BY <2>2, <3>1
  <2> QED BY <2>1, <2>2
<1> QED BY <1>1, <1>2, <1>3 DEF s

LEMMA WithHubHeld ==
  ASSUME HubsReserved, NEW g, NEW c, Held(g, c), Given(c), NEW k, Lower(k) = k, k \in TopicKeys, NEW h, h = WithHub(g, k)
  PROVE Held(h, c) /\ SameFacts(g, h) /\ HubNames(h) = HubNames(g) \cup {k}
<1>0. Sound(g) /\ DOMAIN g = GraphFields /\ g.next \in Nat /\ DOMAIN g.nodes \subseteq 0..(g.next - 1)
  BY DEF Held, Sound, Ided
<1>1. CASE k \in HubNames(g)
  <2>1. h = g
    BY <1>1, HubsFound DEF WithHub
  <2> QED BY <2>1, <1>1 DEF SameFacts
<1>2. CASE k \notin HubNames(g)
  <2> DEFINE id == g.next
             n == HubNode(k)
  <2>1. h = AddNode(g, n)
    BY <1>2, HubsFound DEF WithHub
  <2>2. n.name = k /\ n.file = HubFile /\ Placed(n)
    <3>1. n.name = k /\ n.file = HubFile
      BY HubFields
    <3>2. n = HubNode(n.name) /\ Lower(n.name) = n.name /\ n.name \in TopicKeys
      BY <3>1
    <3> HIDE DEF n
    <3> QED BY <3>1, <3>2 DEF Placed
  <2> HIDE DEF n
  <2>3. /\ h.nodes = [i \in DOMAIN g.nodes \cup {id} |-> IF i = id THEN n ELSE g.nodes[i]]
        /\ h.byFile = Enter(g.byFile, FileKeys(n), id)
    BY <2>1, <1>0, AddNodeFields
  <2>4. SameFacts(g, h) /\ Sound(h)
    BY <2>1, <1>0, AddNodeFacts, AddNodeSound
  <2>5. id \notin DOMAIN g.nodes
    BY <1>0
  <2> HIDE DEF id
  <2>6. DOMAIN h.nodes = DOMAIN g.nodes \cup {id} /\ h.nodes[id] = n /\ \A i \in DOMAIN g.nodes : h.nodes[i] = g.nodes[i]
    BY <2>3, <2>5
  <2>7. h.byFile = Push(g.byFile, HubFile, id)
    <3>1. FileKeys(n) = <<HubFile>> /\ Len(<<HubFile>>) = 1 /\ <<HubFile>> # <<>> /\ <<HubFile>>[1] = HubFile
      BY <2>2 DEF FileKeys
    <3> QED BY <3>1, <2>3 DEF Enter
  <2>8. \A f \in ToSet(Files) : Bucket(h.byFile, f) = Bucket(g.byFile, f)
    BY <2>7, PushBucket, GraphAssumption
  <2>9. \A i \in DOMAIN h.nodes : Placed(h.nodes[i])
    BY <2>2, <2>6 DEF Held
  <2>10. HubIds(h) = HubIds(g) \cup {id}
    BY <2>2, <2>6 DEF HubIds
  <2>11. \A i \in HubIds(g) : h.nodes[i] = g.nodes[i] /\ g.nodes[i].name # k
    BY <2>6, <1>2 DEF HubIds, HubNames
  <2>12. SingleHubs(h)
    <3>1. SingleHubs(g)
      BY DEF Held
    <3> QED BY <3>1, <2>2, <2>6, <2>10, <2>11 DEF SingleHubs
  <2>13. HubNames(h) = HubNames(g) \cup {k}
    BY <2>2, <2>6, <2>10, <2>11 DEF HubNames
  <2>14. Held(h, c)
    BY <2>4, <2>6, <2>8, <2>9, <2>12, HeldSame
  <2> QED BY <2>4, <2>13, <2>14
<1> QED BY <1>1, <1>2

LEMMA HubsKeptHeld ==
  ASSUME HubsReserved, NEW g, NEW c, Held(g, c), Given(c), HubNames(g) \subseteq Topics(g)
  PROVE LET h == WithHubsKept(g) IN Held(h, c) /\ SameFacts(g, h) /\ HubNames(h) = Topics(g)
<1>1. Len(Sorted) \in Nat /\ DOMAIN Sorted = 1..Len(Sorted)
  BY GraphAssumption, ListDomain
<1>2. PICK F : /\ WithHubsKept(g) = F[Len(Sorted)]
               /\ \A i \in 0..Len(Sorted) :
                    F[i] = IF i = 0 THEN g ELSE IF Sorted[i] \in Topics(g) THEN WithHub(F[i - 1], Sorted[i]) ELSE F[i - 1]
  BY <1>1, GrownUnfolds
<1> DEFINE Seen(n) == {Sorted[j] : j \in 1..n} \cap Topics(g)
           Fine(n) == Held(F[n], c) /\ SameFacts(g, F[n]) /\ HubNames(F[n]) = HubNames(g) \cup Seen(n)
<1>3. \A i \in 0..Len(Sorted) : Fine(i)
  <2> DEFINE T == {i \in 0..Len(Sorted) : ~Fine(i)}
  <2> SUFFICES ASSUME T # {} PROVE FALSE
    OBVIOUS
  <2>1. PICK j \in T : \A l \in T : j <= l
    <3>1. T \in SUBSET Nat
      BY <1>1
    <3> HIDE DEF T
    <3> QED BY <3>1, LeastNat
  <2>0. Fine(0)
    <3>1. F[0] = g /\ Seen(0) = {}
      BY <1>1, <1>2
    <3> QED BY <3>1 DEF SameFacts
  <2>2. j \in 0..Len(Sorted) /\ ~Fine(j) /\ j # 0
    BY <2>0
  <2>3. j - 1 \in 0..Len(Sorted) /\ j - 1 \notin T /\ j \in 1..Len(Sorted)
    <3> HIDE DEF T
    <3> QED BY <1>1, <2>1, <2>2
  <2>4. Fine(j - 1)
    <3> HIDE DEF Fine
    <3> QED BY <2>3
  <2> DEFINE k == Sorted[j]
             h == F[j - 1]
  <2>5. Seen(j) = Seen(j - 1) \cup (IF k \in Topics(g) THEN {k} ELSE {})
    <3>1. 1..j = (1..(j - 1)) \cup {j}
      BY <1>1, <2>3
    <3> QED BY <3>1
  <2> HIDE DEF T, Seen
  <2>6. CASE k \in Topics(g)
    <3>1. F[j] = WithHub(h, k)
      BY <1>2, <2>2, <2>6
    <3>2. Lower(k) = k /\ k \in TopicKeys
      BY <2>6, TopicsSorted
    <3> HIDE DEF k, h
    <3>3. Held(h, c) /\ SameFacts(g, h) /\ HubNames(h) = HubNames(g) \cup Seen(j - 1)
      BY <2>4 DEF h
    <3>4. Held(F[j], c) /\ SameFacts(h, F[j]) /\ HubNames(F[j]) = HubNames(h) \cup {k}
      BY <3>1, <3>2, <3>3, WithHubHeld
    <3>5. SameFacts(g, F[j])
      BY <3>3, <3>4 DEF SameFacts
    <3> QED BY <2>2, <2>5, <2>6, <3>3, <3>4, <3>5
  <2>7. CASE k \notin Topics(g)
    <3>1. F[j] = h
      BY <1>2, <2>2, <2>7
    <3> QED BY <2>2, <2>4, <2>5, <2>7, <3>1
  <2> QED BY <2>6, <2>7
<1>4. Fine(Len(Sorted))
  <2> HIDE DEF Fine
  <2>1. Len(Sorted) \in 0..Len(Sorted)
    BY <1>1
  <2> QED BY <1>3, <2>1
<1>5. Seen(Len(Sorted)) = Topics(g)
  <2>1. \A k \in Topics(g) : k \in ToSet(Sorted)
    BY TopicsSorted
  <2>2. ToSet(Sorted) = {Sorted[j] : j \in 1..Len(Sorted)}
    BY <1>1 DEF ToSet
  <2> QED BY <2>1, <2>2
<1> HIDE DEF Seen
<1> QED BY <1>2, <1>4, <1>5

LEMMA ReconcileHeld ==
  ASSUME HubsReserved, NEW g, NEW c, Held(g, c), Given(c)
  PROVE LET r == ReconcileEdges(g) IN Held(r, c) /\ HubNames(r) = Topics(r)
<1> DEFINE p == RemoveNodes(g, StaleHubs(g))
           h == WithHubs(g)
           r == ReconcileEdges(g)
<1>1. Held(p, c) /\ SameFacts(g, p) /\ HubNames(p) \subseteq Topics(g)
  BY StaleHubsGo
<1>2. h = WithHubsKept(p)
  BY DEF WithHubs
<1>3. r = WithEdges(h, RpcNames(h), ImportEdges(g))
  BY DEF ReconcileEdges, Reconciled
<1> HIDE DEF p, h, r
<1>4. HubNames(p) \subseteq Topics(p)
  BY <1>1 DEF SameFacts, Topics
<1>5. Held(h, c) /\ HubNames(h) = Topics(h)
  <2>1. Held(h, c) /\ SameFacts(p, h) /\ HubNames(h) = Topics(p)
    BY <1>1, <1>2, <1>4, HubsKeptHeld
  <2> QED BY <2>1 DEF SameFacts, Topics
<1>6. DOMAIN h = GraphFields /\ Sound(h)
  BY <1>5 DEF Held, Sound, Ided
<1>7. r.nodes = h.nodes
  BY <1>3, <1>6 DEF WithEdges, GraphFields
<1>8. r.byFile = h.byFile
  BY <1>3, <1>6 DEF WithEdges, GraphFields
<1>9. SameFacts(h, r)
  <2>1. r.deps = h.deps /\ r.producers = h.producers
    BY <1>3, <1>6 DEF WithEdges, GraphFields
  <2>2. r.consumers = h.consumers /\ r.calls = h.calls /\ r.heuristic = h.heuristic
    BY <1>3, <1>6 DEF WithEdges, GraphFields
  <2> QED BY <2>1, <2>2 DEF SameFacts
<1>10. Sound(r)
  <2>1. Sound(g)
    BY DEF Held
  <2> QED BY <2>1, ReconcileSound DEF r
<1>11. (\A i \in DOMAIN r.nodes : Placed(r.nodes[i])) /\ SingleHubs(r) /\ HubNames(r) = HubNames(h)
  BY <1>5, <1>7 DEF Held, SingleHubs, HubIds, HubNames
<1>12. Held(r, c)
  BY <1>5, <1>7, <1>8, <1>9, <1>10, <1>11, HeldSame
<1>13. HubNames(r) = Topics(r)
  BY <1>5, <1>9, <1>11 DEF SameFacts, Topics
<1> QED BY <1>12, <1>13 DEF r

(* The inductive invariant, and what it says of the graph.                 *)
GraphInv == content \in Inhabited /\ Held(graph, content) /\ HubNames(graph) = Topics(graph)

LEMMA InhabitedGiven ==
  ASSUME NEW c \in Inhabited
  PROVE  Given(c)
<1>1. c \in [ToSet(Files) -> (UNION {Contents[f] : f \in ToSet(Files)}) \cup {NoFile}]
  BY DEF Inhabited
<1>2. \A f \in ToSet(Files) : c[f] \in DOMAIN Extracted \cup {NoFile}
  BY GraphAssumption DEF Inhabited
<1> QED BY <1>1, <1>2 DEF Given

LEMMA GraphInvMeans == GraphInv => GraphFollowsFiles
<1> SUFFICES ASSUME GraphInv PROVE GraphFollowsFiles
  OBVIOUS
<1>1. Sound(graph) /\ Held(graph, content) /\ HubNames(graph) = Topics(graph)
  BY DEF GraphInv, Held
<1>2. IndicesDescribeNodes
  <2>1. \A f, keys, n : Exact(f, keys, n) => Lists(f, keys, n)
    BY DEF Exact, Lists
  <2> QED BY <1>1, <2>1 DEF Sound, Indexed, IndicesDescribeNodes
<1>3. ContentsHeld
  <2>1. \A i \in DOMAIN graph.nodes : graph.nodes[i].file \in ToSet(Files) \cup {HubFile}
    <3> TAKE i \in DOMAIN graph.nodes
    <3> DEFINE n == graph.nodes[i]
               k == n.name
    <3>1. n.file \in ToSet(Files) \/ n = HubNode(k)
      BY <1>1 DEF Held, Placed
    <3> HIDE DEF k
    <3> QED BY <3>1, HubFields
  <2> QED BY <1>1, <2>1 DEF Held, ContentsHeld
<1>4. OneHubPerTopic
  BY <1>1 DEF Held, SingleHubs, HubNames, OneHubPerTopic
<1> QED BY <1>2, <1>3, <1>4 DEF GraphFollowsFiles

(* A full build, and a step, give a graph of the contents.                 *)
LEMMA FullBuildHeld ==
  ASSUME HubsReserved, NEW c \in Inhabited
  PROVE  Held(FullBuild(c), c) /\ HubNames(FullBuild(c)) = Topics(FullBuild(c))
<1> DEFINE fs == ToSet(Files)
           b == Folded(EmptyGraph, fs, c)
<1>1. Given(c)
  BY InhabitedGiven
<1>2. Held(EmptyGraph, Emptied(c, fs))
  <2>1. \A f \in ToSet(Files) : Emptied(c, fs)[f] = NoFile
    BY DEF Emptied
  <2> QED BY <2>1, EmptyHeld
<1> HIDE DEF fs
<1>3. Held(b, c)
  BY <1>1, <1>2, FoldedHeld
<1>4. FullBuild(c) = ReconcileEdges(b)
  BY DEF FullBuild, fs
<1> HIDE DEF b
<1> QED BY <1>1, <1>3, <1>4, ReconcileHeld

LEMMA GraphInvStep ==
  ASSUME HubsReserved
  PROVE  GraphInv /\ [Next]_vars => GraphInv'
<1> SUFFICES ASSUME GraphInv, [Next]_vars PROVE GraphInv'
  OBVIOUS
<1>1. ASSUME NEW fs, fs \subseteq ToSet(Files), Reload(fs) PROVE GraphInv'
  <2> DEFINE c == content'
             e == Emptied(content, fs)
             b == Folded(PatchFiles(graph, fs), fs, c)
  <2>1. c \in Inhabited /\ graph' = ApplyIncremental(graph, fs, c) /\ \A f \in ToSet(Files) : (c[f] # content[f]) <=> (f \in fs)
    BY <1>1 DEF Reload
  <2>2. Given(content) /\ Given(c) /\ Held(graph, content)
    BY <2>1, InhabitedGiven DEF GraphInv
  <2>3. Emptied(content, fs) = Emptied(c, fs)
    BY <2>1 DEF Emptied
  <2>4. Held(PatchFiles(graph, fs), Emptied(c, fs))
    BY <2>2, <2>3, PatchHeld
  <2> HIDE DEF c
  <2>5. Held(b, c)
    BY <2>2, <2>4, FoldedHeld
  <2>6. graph' = ReconcileEdges(b)
    BY <2>1 DEF ApplyIncremental
  <2> HIDE DEF b
  <2>7. Held(graph', c) /\ HubNames(graph') = Topics(graph')
    BY <2>2, <2>5, <2>6, ReconcileHeld
  <2> QED BY <2>1, <2>7 DEF GraphInv, c
<1>2. CASE UNCHANGED vars
  <2>1. content' = content /\ graph' = graph
    BY <1>2 DEF vars
  <2> QED BY <2>1 DEF GraphInv
<1> QED BY <1>1, <1>2 DEF Next

LEMMA GraphInvAlways ==
  ASSUME HubsReserved
  PROVE  Spec => []GraphInv
<1>1. Init => GraphInv
  <2> SUFFICES ASSUME Init PROVE GraphInv
    OBVIOUS
  <2>1. content \in Inhabited /\ graph = FullBuild(content)
    BY DEF Init, Rebuilt
  <2> QED BY <2>1, FullBuildHeld DEF GraphInv
<1>2. GraphInv /\ [Next]_vars => GraphInv'
  BY GraphInvStep
<1> QED BY <1>1, <1>2, PTL DEF Spec

(* Whatever was reloaded before, a graph built in full or patched by       *)
(* `apply_incremental` holds exactly the nodes and facts of the files as   *)
(* they are, found under their keys, and one hub for each topic.           *)
THEOREM GraphAlwaysFollowsFiles == ASSUME HubsReserved PROVE Spec => []GraphFollowsFiles
BY GraphInvAlways, GraphInvMeans, PTL

(* What the contents mean, whatever ids their nodes were given.            *)
Keyed(g, P) == {<<p[1], g.nodes[p[2]]>> : p \in {q \in P : q[2] \in DOMAIN g.nodes}}
Meant(c, f, rel, topical) == {<<KeyOf(r, topical), NodesOf(f, Extracted[c[f]])[r[1]]>> : r \in ToSet(rel)}

LEMMA NodeAt ==
  ASSUME NEW g, NEW c, Held(g, c), Given(c), NEW f \in There(c), NEW j \in DOMAIN Extracted[c[f]].nodes
  PROVE  /\ Bucket(g.byFile, f)[j] \in DOMAIN g.nodes
         /\ g.nodes[Bucket(g.byFile, f)[j]] = NodesOf(f, Extracted[c[f]])[j]
<1> DEFINE ids == Bucket(g.byFile, f)
           x == c[f]
<1>0. f \in ToSet(Files) /\ x # NoFile /\ x \in DOMAIN Extracted
  BY DEF There, Given
<1>1. Sound(g) /\ FileHeld(g, f, x)
  BY <1>0 DEF Held
<1>2. ids \in Seq(Nat)
  BY <1>1, FileNodes
<1> HIDE DEF x
<1>3. Len(ids) = Len(Extracted[x].nodes) /\ \A i \in DOMAIN ids : ids[i] \in DOMAIN g.nodes /\ g.nodes[ids[i]] = NodesOf(f, Extracted[x])[i]
  BY <1>0, <1>1 DEF FileHeld
<1>4. IsList(Extracted[x].nodes)
  BY <1>0, ExtractedAssumption
<1>5. DOMAIN ids = 1..Len(ids)
  BY <1>2
<1>6. DOMAIN ids = DOMAIN Extracted[x].nodes
  BY <1>3, <1>4, <1>5, ListDomain
<1>7. j \in DOMAIN ids
  BY <1>6 DEF x
<1> HIDE DEF ids
<1> QED BY <1>3, <1>7 DEF ids, x

LEMMA ToldMeant ==
  ASSUME NEW g, NEW c, Held(g, c), Given(c), NEW f \in There(c), NEW topical,
         NEW rel, Named(rel) \subseteq DOMAIN Extracted[c[f]].nodes
  PROVE  Keyed(g, Told(g, f, rel, topical)) = Meant(c, f, rel, topical)
<1> DEFINE ids == Bucket(g.byFile, f)
           ns == NodesOf(f, Extracted[c[f]])
<1>1. \A r \in ToSet(rel) : r[1] \in DOMAIN Extracted[c[f]].nodes
  BY DEF Named
<1>2. \A r \in ToSet(rel) : ids[r[1]] \in DOMAIN g.nodes /\ g.nodes[ids[r[1]]] = ns[r[1]]
  BY <1>1, NodeAt
<1>3. \A p : p \in Told(g, f, rel, topical) <=> \E r \in ToSet(rel) : p = <<KeyOf(r, topical), ids[r[1]]>>
  BY DEF Told
<1>4. \A q : q \in Meant(c, f, rel, topical) <=> \E r \in ToSet(rel) : q = <<KeyOf(r, topical), ns[r[1]]>>
  BY DEF Meant
<1>5. \A P, q : q \in Keyed(g, P) <=> \E p \in P : p[2] \in DOMAIN g.nodes /\ q = <<p[1], g.nodes[p[2]]>>
  BY DEF Keyed
<1> HIDE DEF ids, ns
<1>6. ASSUME NEW q \in Keyed(g, Told(g, f, rel, topical)) PROVE q \in Meant(c, f, rel, topical)
  <2>1. PICK p \in Told(g, f, rel, topical) : q = <<p[1], g.nodes[p[2]]>>
    BY <1>5, <1>6
  <2>2. PICK r \in ToSet(rel) : p = <<KeyOf(r, topical), ids[r[1]]>>
    BY <1>3
  <2> QED BY <1>2, <1>4, <2>1, <2>2
<1>7. ASSUME NEW q \in Meant(c, f, rel, topical) PROVE q \in Keyed(g, Told(g, f, rel, topical))
  <2>1. PICK r \in ToSet(rel) : q = <<KeyOf(r, topical), ns[r[1]]>>
    BY <1>4, <1>7
  <2> DEFINE p == <<KeyOf(r, topical), ids[r[1]]>>
  <2>2. p \in Told(g, f, rel, topical) /\ p[1] = KeyOf(r, topical) /\ p[2] = ids[r[1]]
    BY <1>3
  <2> HIDE DEF p
  <2> QED BY <1>2, <1>5, <2>1, <2>2
<1> QED BY <1>6, <1>7

LEMMA KeyedParts ==
  ASSUME NEW g, NEW A, NEW W, NEW V, \A f \in A : Keyed(g, W[f]) = V[f]
  PROVE  Keyed(g, UNION {W[f] : f \in A}) = UNION {V[f] : f \in A}
BY DEF Keyed

AllTold(g, c, R, topical) == UNION {Told(g, f, R[f], topical) : f \in There(c)}
AllMeant(c, R, topical) == UNION {Meant(c, f, R[f], topical) : f \in There(c)}
NamesNodes(c, R) == \A f \in There(c) : Named(R[f]) \subseteq DOMAIN Extracted[c[f]].nodes
LEMMA KeysMeant ==
  ASSUME NEW g, NEW c, Held(g, c), Given(c), NEW topical, NEW R, NamesNodes(c, R)
  PROVE  Keyed(g, AllTold(g, c, R, topical)) = AllMeant(c, R, topical)
<1> DEFINE A == There(c)
           W == [f \in A |-> Told(g, f, R[f], topical)]
           V == [f \in A |-> Meant(c, f, R[f], topical)]
<1>1. \A f \in A : Keyed(g, W[f]) = V[f]
  BY ToldMeant DEF NamesNodes
<1>2. {Told(g, f, R[f], topical) : f \in A} = {W[f] : f \in A} /\ {Meant(c, f, R[f], topical) : f \in A} = {V[f] : f \in A}
  OBVIOUS
<1> HIDE DEF A, W, V
<1>3. Keyed(g, UNION {W[f] : f \in A}) = UNION {V[f] : f \in A}
  BY <1>1, KeyedParts
<1> QED BY <1>2, <1>3 DEF A, AllTold, AllMeant

LEMMA FactKeysKeyed == ASSUME NEW g, NEW m PROVE FactKeys(g, m) = Keyed(g, PairsOf(m))
<1>1. \A q : q \in FactKeys(g, m) <=> \E k \in DOMAIN m : \E i \in ToSet(m[k]) : i \in DOMAIN g.nodes /\ q = <<k, g.nodes[i]>>
  BY DEF FactKeys
<1>2. \A p : p \in PairsOf(m) <=> \E k \in DOMAIN m : \E i \in ToSet(m[k]) : p = <<k, i>>
  BY DEF PairsOf
<1>3. \A q : q \in Keyed(g, PairsOf(m)) <=> \E p \in PairsOf(m) : p[2] \in DOMAIN g.nodes /\ q = <<p[1], g.nodes[p[2]]>>
  BY DEF Keyed
<1>4. \A q : q \in Keyed(g, PairsOf(m)) => q \in FactKeys(g, m)
  BY <1>1, <1>2, <1>3
<1>5. \A q : q \in FactKeys(g, m) => q \in Keyed(g, PairsOf(m))
  <2> SUFFICES ASSUME NEW q \in FactKeys(g, m) PROVE q \in Keyed(g, PairsOf(m))
    OBVIOUS
  <2>1. PICK k \in DOMAIN m : \E i \in ToSet(m[k]) : i \in DOMAIN g.nodes /\ q = <<k, g.nodes[i]>>
    BY <1>1
  <2>2. PICK i \in ToSet(m[k]) : i \in DOMAIN g.nodes /\ q = <<k, g.nodes[i]>>
    BY <2>1
  <2>3. <<k, i>> \in PairsOf(m)
    BY <1>2
  <2>4. <<k, i>>[1] = k /\ <<k, i>>[2] = i
    OBVIOUS
  <2> QED BY <1>3, <2>2, <2>3, <2>4
<1> QED BY <1>4, <1>5

(* The relations of a content name its nodes.                              *)
LEMMA GivenNamed ==
  ASSUME NEW c, Given(c), NEW f \in There(c)
  PROVE  LET x == Extracted[c[f]] IN
         /\ Named(x.deps) \subseteq DOMAIN x.nodes /\ Named(x.producers) \subseteq DOMAIN x.nodes
         /\ Named(x.consumers) \subseteq DOMAIN x.nodes /\ Named(x.calls) \subseteq DOMAIN x.nodes
         /\ x.heuristic \subseteq DOMAIN x.nodes
<1>1. c[f] \in DOMAIN Extracted
  BY DEF There, Given
<1> DEFINE y == c[f]
<1> HIDE DEF y
<1>2. y \in DOMAIN Extracted
  BY <1>1 DEF y
<1>3. LET x == Extracted[y] IN
      x.heuristic \cup Named(x.deps) \cup Named(x.producers) \cup Named(x.consumers) \cup Named(x.calls) \subseteq DOMAIN x.nodes
  BY <1>2, ExtractedAssumption
<1>4. LET x == Extracted[y] IN
         /\ Named(x.deps) \subseteq DOMAIN x.nodes /\ Named(x.producers) \subseteq DOMAIN x.nodes
         /\ Named(x.consumers) \subseteq DOMAIN x.nodes /\ Named(x.calls) \subseteq DOMAIN x.nodes
         /\ x.heuristic \subseteq DOMAIN x.nodes
  BY <1>3
<1> QED BY <1>4 DEF y

(* The calls, the heuristic nodes, the topics and the nodes a graph holds. *)
CallKeys(g) == {[by |-> g.nodes[c.by], to |-> c.to] : c \in {d \in ToSet(g.calls) : d.by \in DOMAIN g.nodes}}
LEMMA CallKeysKeyed ==
  ASSUME NEW g
  PROVE  CallKeys(g) = {[by |-> q[2], to |-> q[1]] : q \in Keyed(g, {<<d.to, d.by>> : d \in ToSet(g.calls)})}
<1> DEFINE P == {<<d.to, d.by>> : d \in ToSet(g.calls)}
           Q == {[by |-> q[2], to |-> q[1]] : q \in Keyed(g, P)}
<1>1. \A e : e \in CallKeys(g) <=> \E d \in ToSet(g.calls) : d.by \in DOMAIN g.nodes /\ e = [by |-> g.nodes[d.by], to |-> d.to]
  BY DEF CallKeys
<1>2. \A p : p \in P <=> \E d \in ToSet(g.calls) : p = <<d.to, d.by>>
  OBVIOUS
<1>3. \A q : q \in Keyed(g, P) <=> \E p \in P : p[2] \in DOMAIN g.nodes /\ q = <<p[1], g.nodes[p[2]]>>
  BY DEF Keyed
<1>4. \A e : e \in Q <=> \E q \in Keyed(g, P) : e = [by |-> q[2], to |-> q[1]]
  OBVIOUS
<1> HIDE DEF P, Q
<1>5. ASSUME NEW e \in CallKeys(g) PROVE e \in Q
  <2>1. PICK d \in ToSet(g.calls) : d.by \in DOMAIN g.nodes /\ e = [by |-> g.nodes[d.by], to |-> d.to]
    BY <1>1, <1>5
  <2> DEFINE p == <<d.to, d.by>>
             q == <<d.to, g.nodes[d.by]>>
  <2>2. p \in P /\ p[1] = d.to /\ p[2] = d.by
    BY <1>2
  <2>3. q[1] = d.to /\ q[2] = g.nodes[d.by]
    OBVIOUS
  <2>4. q = <<p[1], g.nodes[p[2]]>>
    OBVIOUS
  <2> HIDE DEF p, q
  <2>5. q \in Keyed(g, P)
    BY <1>3, <2>1, <2>2, <2>4
  <2>6. e = [by |-> q[2], to |-> q[1]]
    BY <2>1, <2>3
  <2> QED BY <1>4, <2>5, <2>6
<1>6. ASSUME NEW e \in Q PROVE e \in CallKeys(g)
  <2>1. PICK q \in Keyed(g, P) : e = [by |-> q[2], to |-> q[1]]
    BY <1>4, <1>6
  <2>2. PICK p \in P : p[2] \in DOMAIN g.nodes /\ q = <<p[1], g.nodes[p[2]]>>
    BY <1>3
  <2>3. PICK d \in ToSet(g.calls) : p = <<d.to, d.by>>
    BY <1>2
  <2>4. d.by \in DOMAIN g.nodes /\ q[1] = d.to /\ q[2] = g.nodes[d.by]
    BY <2>2, <2>3
  <2> QED BY <1>1, <2>1, <2>4
<1> QED BY <1>5, <1>6 DEF Q, P

HeuristicMeant(c) == UNION {{NodesOf(f, Extracted[c[f]])[i] : i \in Extracted[c[f]].heuristic} : f \in There(c)}
LEMMA HeuristicsMeant ==
  ASSUME NEW g, NEW c, Held(g, c), Given(c)
  PROVE  {g.nodes[i] : i \in g.heuristic \cap DOMAIN g.nodes} = HeuristicMeant(c)
<1>1. \A i : i \in g.heuristic <=> \E f \in There(c) : \E j \in Extracted[c[f]].heuristic : i = Bucket(g.byFile, f)[j]
  BY DEF Held, FactsHeld
<1>2. \A f \in There(c) : \A j \in Extracted[c[f]].heuristic :
        /\ Bucket(g.byFile, f)[j] \in DOMAIN g.nodes
        /\ g.nodes[Bucket(g.byFile, f)[j]] = NodesOf(f, Extracted[c[f]])[j]
  <2> TAKE f \in There(c)
  <2>1. Extracted[c[f]].heuristic \subseteq DOMAIN Extracted[c[f]].nodes
    BY GivenNamed
  <2> QED BY <2>1, NodeAt
<1>3. \A n : n \in HeuristicMeant(c) <=> \E f \in There(c) : \E j \in Extracted[c[f]].heuristic : n = NodesOf(f, Extracted[c[f]])[j]
  BY DEF HeuristicMeant
<1>4. \A n : n \in {g.nodes[i] : i \in g.heuristic \cap DOMAIN g.nodes} <=> \E i \in g.heuristic : i \in DOMAIN g.nodes /\ n = g.nodes[i]
  OBVIOUS
<1> QED BY <1>1, <1>2, <1>3, <1>4

TopicsMeant(c) ==
  UNION {{KeyOf(r, TRUE) : r \in ToSet(Extracted[c[f]].producers) \cup ToSet(Extracted[c[f]].consumers)} : f \in There(c)}
LEMMA TopicsTold ==
  ASSUME NEW g, NEW c, Held(g, c)
  PROVE  Topics(g) = TopicsMeant(c)
<1>1. ASSUME NEW m, Filled(m), NEW R, NEW yes, PairsOf(m) = AllTold(g, c, R, yes)
      PROVE  \A k : k \in DOMAIN m <=> \E f \in There(c) : \E r \in ToSet(R[f]) : k = KeyOf(r, yes)
  <2>1. \A k \in DOMAIN m : \E i : i \in ToSet(m[k])
    <3> TAKE k \in DOMAIN m
    <3> DEFINE s == m[k]
    <3>1. s \in Seq(Nat) /\ s # <<>>
      BY <1>1 DEF Filled
    <3> HIDE DEF s
    <3>2. s[1] \in ToSet(s)
      BY <3>1 DEF ToSet
    <3> QED BY <3>2 DEF s
  <2>2. \A k, i : <<k, i>> \in PairsOf(m) <=> k \in DOMAIN m /\ i \in ToSet(m[k])
    BY DEF PairsOf
  <2>3. \A k : k \in DOMAIN m <=> \E i : <<k, i>> \in PairsOf(m)
    BY <2>1, <2>2
  <2>4. \A k, i : <<k, i>> \in PairsOf(m) <=> \E f \in There(c) : \E r \in ToSet(R[f]) : k = KeyOf(r, yes) /\ i = Bucket(g.byFile, f)[r[1]]
    BY <1>1 DEF AllTold, Told
  <2>5. ASSUME NEW k \in DOMAIN m PROVE \E f \in There(c) : \E r \in ToSet(R[f]) : k = KeyOf(r, yes)
    <3>1. PICK i : <<k, i>> \in PairsOf(m)
      BY <2>3, <2>5
    <3>2. \E f \in There(c) : \E r \in ToSet(R[f]) : k = KeyOf(r, yes) /\ i = Bucket(g.byFile, f)[r[1]]
      BY <2>4, <3>1
    <3> QED BY <3>2
  <2>6. ASSUME NEW f \in There(c), NEW r \in ToSet(R[f]) PROVE KeyOf(r, yes) \in DOMAIN m
    <3> DEFINE k == KeyOf(r, yes)
               i == Bucket(g.byFile, f)[r[1]]
    <3>1. k = KeyOf(r, yes) /\ i = Bucket(g.byFile, f)[r[1]]
      OBVIOUS
    <3> HIDE DEF k, i
    <3>2. <<k, i>> \in PairsOf(m)
      BY <2>4, <2>6, <3>1
    <3>3. k \in DOMAIN m
      BY <2>3, <3>2
    <3> QED BY <3>1, <3>3
  <2> QED BY <2>5, <2>6
<1> DEFINE yes == TRUE
           R == [f \in There(c) |-> Extracted[c[f]].producers]
           S == [f \in There(c) |-> Extracted[c[f]].consumers]
<1>2. PairsOf(g.producers) = AllTold(g, c, R, yes)
  BY DEF Held, FactsHeld, AllTold
<1>3. PairsOf(g.consumers) = AllTold(g, c, S, yes)
  BY DEF Held, FactsHeld, AllTold
<1>4. Filled(g.producers) /\ Filled(g.consumers)
  BY DEF Held, FactsFilled
<1>5. \A k : k \in TopicsMeant(c) <=> \E f \in There(c) : \E r \in ToSet(R[f]) \cup ToSet(S[f]) : k = KeyOf(r, yes)
  <2>1. TopicsMeant(c) = UNION {{KeyOf(r, yes) : r \in ToSet(Extracted[c[f]].producers) \cup ToSet(Extracted[c[f]].consumers)} : f \in There(c)}
    BY DEF TopicsMeant
  <2>2. \A f \in There(c) : R[f] = Extracted[c[f]].producers /\ S[f] = Extracted[c[f]].consumers
    OBVIOUS
  <2> HIDE DEF yes, R, S
  <2> QED BY <2>1, <2>2
<1> HIDE DEF yes, R, S
<1>6. \A k : k \in DOMAIN g.producers <=> \E f \in There(c) : \E r \in ToSet(R[f]) : k = KeyOf(r, yes)
  BY <1>1, <1>2, <1>4
<1>7. \A k : k \in DOMAIN g.consumers <=> \E f \in There(c) : \E r \in ToSet(S[f]) : k = KeyOf(r, yes)
  BY <1>1, <1>3, <1>4
<1>8. \A k : k \in Topics(g) <=> k \in TopicsMeant(c)
  BY <1>5, <1>6, <1>7 DEF Topics
<1> QED BY <1>8

NodesMeant(c) ==
  {HubNode(k) : k \in TopicsMeant(c)}
    \cup UNION {{Located(Extracted[c[f]].nodes[j], f) : j \in DOMAIN Extracted[c[f]].nodes} : f \in There(c)}
LEMMA NodesAreMeant ==
  ASSUME NEW g, NEW c, Held(g, c), Given(c), HubNames(g) = Topics(g)
  PROVE  Range(g.nodes) = NodesMeant(c)
<1>1. \A n : n \in Range(g.nodes) <=> \E i \in DOMAIN g.nodes : n = g.nodes[i]
  BY DEF Range
<1>2. \A n : n \in NodesMeant(c) <=>
        \/ \E k \in TopicsMeant(c) : n = HubNode(k)
        \/ \E f \in There(c) : \E j \in DOMAIN Extracted[c[f]].nodes : n = Located(Extracted[c[f]].nodes[j], f)
  BY DEF NodesMeant
<1>3. ASSUME NEW i \in DOMAIN g.nodes PROVE g.nodes[i] \in NodesMeant(c)
  <2>1. CASE g.nodes[i].file \in ToSet(Files)
    <3> DEFINE f == g.nodes[i].file
    <3>1. c[f] \in DOMAIN Extracted /\ \E j \in DOMAIN Extracted[c[f]].nodes : g.nodes[i] = Located(Extracted[c[f]].nodes[j], f)
      BY <1>3, <2>1, NodeOwned
    <3>2. c[f] # NoFile
      <4>1. Sound(g) /\ FileHeld(g, f, c[f])
        BY <2>1 DEF Held
      <4>2. i \in ToSet(Bucket(g.byFile, f))
        BY <1>3, <4>1, FileNodes
      <4>3. Bucket(g.byFile, f) # <<>>
        BY <4>2 DEF ToSet
      <4> HIDE DEF f
      <4> QED BY <4>1, <4>3 DEF FileHeld
    <3>3. f \in There(c)
      BY <2>1, <3>2 DEF There
    <3> QED BY <1>2, <3>1, <3>3
  <2>2. CASE g.nodes[i].file \notin ToSet(Files)
    <3> DEFINE n == g.nodes[i]
               k == n.name
    <3>1. n = HubNode(k)
      BY <1>3, <2>2 DEF Held, Placed
    <3>2. n.file = HubFile
      <4> HIDE DEF k
      <4> QED BY <3>1, HubFields
    <3>3. i \in HubIds(g)
      BY <1>3, <3>2 DEF HubIds
    <3>4. k \in TopicsMeant(c)
      <4>1. k \in HubNames(g)
        BY <3>3 DEF HubNames
      <4> QED BY <4>1, TopicsTold
    <3> QED BY <1>2, <3>1, <3>4
  <2> QED BY <2>1, <2>2
<1>4. ASSUME NEW k \in TopicsMeant(c) PROVE HubNode(k) \in Range(g.nodes)
  <2>1. k \in HubNames(g)
    BY <1>4, TopicsTold
  <2>2. PICK i \in HubIds(g) : k = g.nodes[i].name
    BY <2>1 DEF HubNames
  <2>3. i \in DOMAIN g.nodes /\ g.nodes[i] = HubNode(k)
    BY <2>2, HubsAre
  <2> QED BY <1>1, <2>3
<1>5. ASSUME NEW f \in There(c), NEW j \in DOMAIN Extracted[c[f]].nodes PROVE Located(Extracted[c[f]].nodes[j], f) \in Range(g.nodes)
  <2>1. Bucket(g.byFile, f)[j] \in DOMAIN g.nodes /\ g.nodes[Bucket(g.byFile, f)[j]] = NodesOf(f, Extracted[c[f]])[j]
    BY <1>5, NodeAt
  <2>2. NodesOf(f, Extracted[c[f]])[j] = Located(Extracted[c[f]].nodes[j], f)
    BY <1>5 DEF NodesOf
  <2> QED BY <1>1, <2>1, <2>2
<1>6. \A n : n \in Range(g.nodes) <=> n \in NodesMeant(c)
  BY <1>1, <1>2, <1>3, <1>4, <1>5
<1> QED BY <1>6

(* Two graphs of the same contents have the same nodes and facts.          *)
LEMMA HeldAlike ==
  ASSUME NEW g, NEW h, NEW c, Given(c), Held(g, c), Held(h, c), HubNames(g) = Topics(g), HubNames(h) = Topics(h)
  PROVE  FactsOf(g) = FactsOf(h)
<1> DEFINE no == FALSE
           yes == TRUE
           D == [f \in There(c) |-> Extracted[c[f]].deps]
           P == [f \in There(c) |-> Extracted[c[f]].producers]
           S == [f \in There(c) |-> Extracted[c[f]].consumers]
           L == [f \in There(c) |-> Extracted[c[f]].calls]
           all(a) == {<<d.to, d.by>> : d \in ToSet(a.calls)}
<1>1. NamesNodes(c, D) /\ NamesNodes(c, P) /\ NamesNodes(c, S) /\ NamesNodes(c, L)
  BY GivenNamed DEF NamesNodes
<1>2. ASSUME NEW a, Held(a, c)
      PROVE  /\ FactKeys(a, a.deps) = AllMeant(c, D, no) /\ FactKeys(a, a.producers) = AllMeant(c, P, yes)
             /\ FactKeys(a, a.consumers) = AllMeant(c, S, yes) /\ Keyed(a, all(a)) = AllMeant(c, L, no)
  <2>1. PairsOf(a.deps) = AllTold(a, c, D, no)
    BY <1>2 DEF Held, FactsHeld, AllTold
  <2>2. PairsOf(a.producers) = AllTold(a, c, P, yes)
    BY <1>2 DEF Held, FactsHeld, AllTold
  <2>3. PairsOf(a.consumers) = AllTold(a, c, S, yes)
    BY <1>2 DEF Held, FactsHeld, AllTold
  <2>4. all(a) = AllTold(a, c, L, no)
    <3>1. {<<d.to, d.by>> : d \in ToSet(a.calls)} = UNION {Told(a, f, Extracted[c[f]].calls, FALSE) : f \in There(c)}
      BY <1>2 DEF Held, FactsHeld
    <3>2. {Told(a, f, L[f], no) : f \in There(c)} = {Told(a, f, Extracted[c[f]].calls, FALSE) : f \in There(c)}
      OBVIOUS
    <3>3. all(a) = {<<d.to, d.by>> : d \in ToSet(a.calls)}
      OBVIOUS
    <3> HIDE DEF all, L, no
    <3> QED BY <3>1, <3>2, <3>3 DEF AllTold
  <2> HIDE DEF no, yes, D, P, S, L, all
  <2>5. FactKeys(a, a.deps) = AllMeant(c, D, no)
    <3>1. Keyed(a, AllTold(a, c, D, no)) = AllMeant(c, D, no)
      BY <1>1, <1>2, KeysMeant
    <3> QED BY <2>1, <3>1, FactKeysKeyed
  <2>6. FactKeys(a, a.producers) = AllMeant(c, P, yes)
    <3>1. Keyed(a, AllTold(a, c, P, yes)) = AllMeant(c, P, yes)
      BY <1>1, <1>2, KeysMeant
    <3> QED BY <2>2, <3>1, FactKeysKeyed
  <2>7. FactKeys(a, a.consumers) = AllMeant(c, S, yes)
    <3>1. Keyed(a, AllTold(a, c, S, yes)) = AllMeant(c, S, yes)
      BY <1>1, <1>2, KeysMeant
    <3> QED BY <2>3, <3>1, FactKeysKeyed
  <2>8. Keyed(a, all(a)) = AllMeant(c, L, no)
    BY <1>1, <1>2, <2>4, KeysMeant
  <2> QED BY <2>5, <2>6, <2>7, <2>8
<1>3. FactKeys(g, g.deps) = FactKeys(h, h.deps) /\ FactKeys(g, g.producers) = FactKeys(h, h.producers)
  <2> HIDE DEF no, yes, D, P, S, L, all
  <2> QED BY <1>2
<1>4. FactKeys(g, g.consumers) = FactKeys(h, h.consumers)
  <2> HIDE DEF no, yes, D, P, S, L, all
  <2> QED BY <1>2
<1>5. CallKeys(g) = CallKeys(h)
  <2>1. Keyed(g, all(g)) = Keyed(h, all(h))
    <3> HIDE DEF no, yes, D, P, S, L, all
    <3> QED BY <1>2
  <2> QED BY <2>1, CallKeysKeyed
<1>6. Range(g.nodes) = Range(h.nodes)
  BY NodesAreMeant
<1>7. {g.nodes[i] : i \in g.heuristic \cap DOMAIN g.nodes} = {h.nodes[i] : i \in h.heuristic \cap DOMAIN h.nodes}
  BY HeuristicsMeant
<1> QED BY <1>3, <1>4, <1>5, <1>6, <1>7 DEF FactsOf, CallKeys

(* Invariant I2 of docs/development.md for nodes and facts: after any      *)
(* reloads they are those a full rebuild of the files as they are would    *)
(* have, whatever ids they were given (`apply_incremental`, `reload`).     *)
THEOREM FactsAlwaysConverge == ASSUME HubsReserved PROVE Spec => []FactsConverge
<1>1. GraphInv => FactsConverge
  <2> SUFFICES ASSUME GraphInv PROVE FactsConverge
    OBVIOUS
  <2> DEFINE full == FullBuild(content)
  <2>1. content \in Inhabited /\ Given(content) /\ Rebuilt[content] = full
    BY InhabitedGiven DEF GraphInv, Rebuilt
  <2>2. Held(full, content) /\ HubNames(full) = Topics(full)
    BY <2>1, FullBuildHeld
  <2> HIDE DEF full
  <2>3. FactsOf(graph) = FactsOf(full)
    BY <2>1, <2>2, HeldAlike DEF GraphInv
  <2> QED BY <2>1, <2>3 DEF FactsConverge
<1> QED BY <1>1, GraphInvAlways, PTL

-----------------------------------------------------------------------------
(* Derived edges: what they may say.                                       *)
Confidences == {"exact", "heuristic", "ambiguous"}
EdgeKinds == {"Imports", "Produces", "Consumes", "Implements", "CallsRpc"}

LEMMA PickSure ==
  ASSUME NEW ids, NEW own, NEW conf \in Confidences
  PROVE  \A r \in Pick(ids, own, conf) : r[2] \in Confidences
BY DEF Pick, Confidences

LEMMA ImportSure ==
  ASSUME NEW g, NEW t, NEW imp
  PROVE  \A r \in ResolveImportTargets(g, t, imp) : r[2] \in Confidences
<1>1. \A ids, own, conf : conf \in Confidences => \A r \in Pick(ids, own, conf) : r[2] \in Confidences
  BY PickSure
<1>2. "heuristic" \in Confidences /\ "exact" \in Confidences
  BY DEF Confidences
<1>3. \A ids, repo : \A r \in PickByRepo(g, ids, repo, "heuristic") \cup PickByRepo(g, ids, repo, "exact") : r[2] \in Confidences
  BY <1>1, <1>2 DEF PickByRepo
<1>4. \A r \in ResolveRelative(g, t, imp) : r[2] \in Confidences
  BY <1>3 DEF ResolveRelative
<1>5. ASSUME NEW n, NEW repo PROVE \A r \in ResolveName(g, n, repo) : r[2] \in Confidences
  <2>1. \A i : <<i, "exact">>[2] \in Confidences
    BY <1>2
  <2> QED BY <1>3, <2>1 DEF ResolveName
<1> QED BY <1>4, <1>5 DEF ResolveImportTargets

LEMMA RpcSure ==
  ASSUME NEW g, NEW caller, NEW ids, NEW conf \in Confidences, NEW orphan \in Confidences
  PROVE  \A r \in PickFor(g, caller, ids, conf, orphan) : r[2] \in Confidences
<1>1. \A pkg : \A r \in PickByPackage(g, ids, pkg, conf) : r[2] \in Confidences
  BY PickSure DEF PickByPackage
<1> QED BY <1>1 DEF PickFor

LEMMA TargetSure ==
  ASSUME NEW g, NEW caller, NEW n
  PROVE  \A r \in ResolveRpcTarget(g, caller, n) : r[2] \in Confidences
<1>1. "heuristic" \in Confidences /\ "exact" \in Confidences /\ "ambiguous" \in Confidences
  BY DEF Confidences
<1>2. \A ids : \A r \in PickFor(g, caller, ids, "exact", "exact") \cup PickFor(g, caller, ids, "heuristic", "ambiguous") : r[2] \in Confidences
  BY <1>1, RpcSure
<1> QED BY <1>2 DEF ResolveRpcTarget

LEMMA CallSure ==
  ASSUME NEW g, NEW names, NEW c
  PROVE  \A r \in CallTargets(g, names, c).to : r[2] \in Confidences
<1>1. "heuristic" \in Confidences /\ "exact" \in Confidences
  BY DEF Confidences
<1>2. ASSUME NEW n, NEW inferred PROVE \A r \in MethodCall(g, names, c, n, inferred) : r[2] \in Confidences
  <2> DEFINE conf == IF inferred THEN "heuristic" ELSE "exact"
  <2>1. conf \in Confidences
    BY <1>1
  <2>2. MethodCall(g, names, c, n, inferred) \in {{}, PickFor(g, c.by, ByFqcn(g, n), conf, conf)}
    BY DEF MethodCall
  <2> HIDE DEF conf
  <2> QED BY <2>1, <2>2, RpcSure
<1>3. \A n : \A r \in ResolveClient(g, c.by, n) : r[2] \in Confidences
  BY TargetSure DEF ResolveClient
<1>4. \/ CallTargets(g, names, c).to = {}
      \/ \E n, inferred : CallTargets(g, names, c).to = MethodCall(g, names, c, n, inferred)
      \/ \E n : CallTargets(g, names, c).to = ResolveClient(g, c.by, n)
  BY DEF CallTargets
<1> QED BY <1>2, <1>3, <1>4

(* An edge is of a kind and a confidence the wire format has.              *)
Sure(e) == e.kind \in EdgeKinds /\ e.conf \in Confidences
LEMMA EdgeParts ==
  ASSUME NEW from, NEW to, NEW kind, NEW meta, NEW conf, NEW rank, NEW e, e = Edge(from, to, kind, meta, conf, rank)
  PROVE e.from = from /\ e.to = to /\ e.kind = kind /\ e.meta = meta /\ e.conf = conf /\ e.rank = rank
BY DEF Edge

LEMMA KindsNamed ==
  /\ "Imports" \in EdgeKinds /\ "Produces" \in EdgeKinds /\ "Consumes" \in EdgeKinds /\ "Implements" \in EdgeKinds
  /\ "CallsRpc" \in EdgeKinds /\ "exact" \in Confidences /\ "heuristic" \in Confidences
BY DEF EdgeKinds, Confidences

LEMMA ImportsSure ==
  ASSUME NEW g, NEW e \in ImportEdges(g)
  PROVE  e.kind = "Imports" /\ Sure(e) /\ \E t \in DOMAIN g.deps : \E i \in ToSet(g.deps[t]) \cap DOMAIN g.nodes :
            \E r \in ResolveImportTargets(g, t, g.nodes[i]) : e.from = i /\ e.to = r[1] /\ e.meta = t.n
<1>0. PICK t \in DOMAIN g.deps : \E i \in ToSet(g.deps[t]) \cap DOMAIN g.nodes : e \in ImportsFrom(g, t, i)
  BY DEF ImportEdges, FirstWins
<1>1. PICK i \in ToSet(g.deps[t]) \cap DOMAIN g.nodes : e \in ImportsFrom(g, t, i)
  BY <1>0
<1>2. PICK r \in ResolveImportTargets(g, t, g.nodes[i]) : e = Edge(i, r[1], "Imports", t.n, r[2], Rank(t.n))
  BY <1>1 DEF ImportsFrom
<1>3. r[2] \in Confidences
  BY <1>2, ImportSure
<1>4. e.from = i /\ e.to = r[1] /\ e.kind = "Imports" /\ e.meta = t.n /\ e.conf = r[2]
  BY <1>2, EdgeParts
<1>5. Sure(e)
  BY <1>3, <1>4, KindsNamed DEF Sure
<1> QED BY <1>1, <1>2, <1>4, <1>5

LEMMA DirectSure ==
  ASSUME NEW g, NEW k, NEW e \in DirectEdges(g, k)
  PROVE Sure(e) /\ e.meta = k /\ (e.kind = "Produces" => e.to = HubsOf(g, k)[1])
<1>1. \A i : TopicConf(g, i) \in Confidences
  BY KindsNamed DEF TopicConf
<1> DEFINE hub == HubsOf(g, k)[1]
<1>2. CASE \E i : e = Edge(i, hub, "Produces", k, TopicConf(g, i), 0)
  <2>1. PICK i : e = Edge(i, hub, "Produces", k, TopicConf(g, i), 0)
    BY <1>2
  <2>2. e.to = hub /\ e.kind = "Produces" /\ e.meta = k /\ e.conf = TopicConf(g, i)
    BY <2>1, EdgeParts
  <2> QED BY <2>2, <1>1, KindsNamed DEF Sure
<1>3. CASE \E i : e = Edge(hub, i, "Consumes", k, TopicConf(g, i), 0)
  <2>1. PICK i : e = Edge(hub, i, "Consumes", k, TopicConf(g, i), 0)
    BY <1>3
  <2>2. e.kind = "Consumes" /\ e.meta = k /\ e.conf = TopicConf(g, i)
    BY <2>1, EdgeParts
  <2> QED BY <2>2, <1>1, KindsNamed DEF Sure
<1> QED BY <1>2, <1>3 DEF DirectEdges

(* A wildcard link: of a subject the pattern hears, from one who produces  *)
(* it and does not subscribe to the pattern.                               *)
Link(g, k, e) ==
  /\ e = Edge(e.from, HubsOf(g, k)[1], "Produces", e.meta, "heuristic", 1 + Rank(e.meta))
  /\ e.meta \in DOMAIN g.producers /\ SubjectMatches(".", k, e.meta)
  /\ e.from \in ToSet(g.producers[e.meta]) /\ e.from \notin ToSet(Bucket(g.consumers, k))
LEMMA LinksAre ==
  ASSUME NEW g, NEW k, NEW e \in WildcardEdgesUncapped(g, k)
  PROVE Link(g, k, e)
<1> DEFINE hub == HubsOf(g, k)[1]
           H == Heard(g, k)
           P == UNION {ToSet(g.producers[s]) : s \in H}
           barred == ToSet(Bucket(g.consumers, k)) \cup ToSet(Bucket(g.producers, k))
<1>1. PICK x \in H \X P : x[2] \in ToSet(g.producers[x[1]]) \ barred /\ e = Edge(x[2], hub, "Produces", x[1], "heuristic", 1 + Rank(x[1]))
  BY DEF WildcardEdgesUncapped, FirstWins
<1> HIDE DEF hub
<1>2. e.from = x[2] /\ e.meta = x[1]
  BY <1>1, EdgeParts
<1>3. x[1] \in Heard(g, k)
  BY <1>1
<1>4. x[1] \in DOMAIN g.producers /\ SubjectMatches(".", k, x[1])
  BY <1>3 DEF Heard
<1>5. e.from \notin ToSet(Bucket(g.consumers, k))
  BY <1>1, <1>2
<1> QED BY <1>1, <1>2, <1>4, <1>5 DEF Link, hub

LEMMA WildcardSure ==
  ASSUME NEW g, NEW k, NEW e \in WildcardEdges(g, k)
  PROVE Sure(e) /\ Link(g, k, e) /\ e.kind = "Produces" /\ e.to = HubsOf(g, k)[1]
<1>1. e \in WildcardEdgesUncapped(g, k)
  BY DEF WildcardEdges
<1>2. Link(g, k, e)
  BY <1>1, LinksAre
<1> DEFINE f == e.from
           m == e.meta
           hub == HubsOf(g, k)[1]
<1>3. e = Edge(f, hub, "Produces", m, "heuristic", 1 + Rank(m))
  BY <1>2 DEF Link
<1> HIDE DEF f, m, hub
<1>4. e.kind = "Produces" /\ e.conf = "heuristic" /\ e.to = hub
  BY <1>3, EdgeParts
<1> QED BY <1>2, <1>4, KindsNamed DEF Sure, hub

LEMMA GrpcSure ==
  ASSUME NEW g, NEW names, NEW e \in ImplementsEdges(g, names) \cup CallEdges(g, names)
  PROVE Sure(e) /\ e.kind \notin {"Produces", "Imports"}
<1>1. CASE e \in ImplementsEdges(g, names)
  <2>1. PICK x \in Handlers(g) \X ProtoMethods(g) :
          /\ ImplementsConf(g, names, x[1], x[2]) # "none"
          /\ e = Edge(x[1], x[2], "Implements", g.nodes[x[2]].name, ImplementsConf(g, names, x[1], x[2]), 0)
    BY <1>1 DEF ImplementsEdges
  <2>2. e.kind = "Implements" /\ e.conf = ImplementsConf(g, names, x[1], x[2])
    BY <2>1, EdgeParts
  <2>3. ImplementsConf(g, names, x[1], x[2]) \in {"exact", "heuristic", "none"}
    BY DEF ImplementsConf
  <2> QED BY <2>1, <2>2, <2>3, KindsNamed DEF Sure
<1>2. CASE e \in CallEdges(g, names)
  <2>0. PICK j \in DOMAIN g.calls : \E t \in CallTargets(g, names, g.calls[j]).to :
          e = Edge(g.calls[j].by, t[1], "CallsRpc", CallTargets(g, names, g.calls[j]).n, t[2], j)
    BY <1>2 DEF CallEdges, FirstWins
  <2>1. PICK t \in CallTargets(g, names, g.calls[j]).to :
          e = Edge(g.calls[j].by, t[1], "CallsRpc", CallTargets(g, names, g.calls[j]).n, t[2], j)
    BY <2>0
  <2>2. e.kind = "CallsRpc" /\ e.conf = t[2]
    BY <2>1, EdgeParts
  <2>3. t[2] \in Confidences
    BY <2>1, CallSure
  <2> QED BY <2>2, <2>3, KindsNamed DEF Sure
<1> QED BY <1>1, <1>2

LEMMA LeastOf ==
  ASSUME NEW S \in SUBSET Nat, S # {}
  PROVE  Min(S) \in S /\ \A n \in S : Min(S) <= n
<1>1. \E n \in S : \A m \in S : n =< m
  BY LeastNat
<1> QED BY <1>1 DEF Min

(* Ranked by what is before it, each element of a finite set has a place.  *)
LEMMA CapExact ==
  ASSUME NEW A, IsFiniteSet(A), NEW B \in [A -> SUBSET A], NEW cap \in Nat,
         \A e \in A : e \notin B[e],
         \A d, e \in A : d # e => d \in B[e] \/ e \in B[d],
         \A d, e \in A : d \in B[e] => B[d] \subseteq B[e]
  PROVE LET W == {e \in A : Cardinality(B[e]) < cap}
        IN IsFiniteSet(W) /\ Cardinality(W) = Min({Cardinality(A), cap})
<1> DEFINE W == {e \in A : Cardinality(B[e]) < cap}
           N == Cardinality(A)
           R == 0..(N - 1)
           F == [e \in A |-> Cardinality(B[e])]
<1>1. \A e \in A : IsFiniteSet(B[e]) /\ Cardinality(B[e]) \in Nat
  BY FS_Subset, FS_CardinalityType
<1>2. ASSUME NEW d \in A, NEW e \in A, d \in B[e] PROVE Cardinality(B[d]) < Cardinality(B[e])
  <2>1. B[d] \in SUBSET B[e] /\ B[d] # B[e]
    BY <1>2
  <2>2. Cardinality(B[d]) <= Cardinality(B[e]) /\ Cardinality(B[e]) # Cardinality(B[d])
    BY <1>1, <2>1, FS_Subset
  <2> QED BY <1>1, <2>2
<1>3. N \in Nat
  BY FS_CardinalityType
<1>4. \A e \in A : Cardinality(B[e]) \in R
  <2> TAKE e \in A
  <2>1. B[e] \in SUBSET A /\ B[e] # A
    OBVIOUS
  <2>2. Cardinality(B[e]) <= N /\ N # Cardinality(B[e])
    BY <2>1, FS_Subset
  <2> QED BY <1>1, <1>3, <2>2
<1>5. \A d, e \in A : F[d] = F[e] => d = e
  <2> SUFFICES ASSUME NEW d \in A, NEW e \in A, F[d] = F[e], d # e PROVE FALSE
    OBVIOUS
  <2>1. Cardinality(B[d]) = Cardinality(B[e]) /\ Cardinality(B[d]) \in Nat
    BY <1>1
  <2> QED BY <2>1, <1>2
<1>6. F \in [A -> R] /\ \A e \in A : F[e] = Cardinality(B[e])
  BY <1>4
<1>7. IsFiniteSet(R) /\ Cardinality(R) = N
  <2>1. 0 \in Int /\ N - 1 \in Int
    BY <1>3
  <2>2. IsFiniteSet(R) /\ Cardinality(R) = IF 0 > N - 1 THEN 0 ELSE N - 1 - 0 + 1
    BY <2>1, FS_Interval
  <2> QED BY <1>3, <2>2
<1>8. \A e : e \in W <=> e \in A /\ Cardinality(B[e]) < cap
  OBVIOUS
<1> HIDE DEF R, F, W
<1>9. F \in Injection(A, R)
  BY <1>5, <1>6 DEF Injection, IsInjective
<1>10. F \in Surjection(A, R)
  BY <1>7, <1>9, FS_Injection
<1>11. \A t \in R : \E e \in A : F[e] = t
  BY <1>10 DEF Surjection
<1>12. CASE cap >= N
  <2>1. \A e \in A : Cardinality(B[e]) < cap
    BY <1>1, <1>3, <1>4, <1>12 DEF R
  <2>2. W = A
    BY <1>8, <2>1
  <2>3. Min({N, cap}) = N
    BY <1>3, <1>12 DEF Min
  <2> QED BY <2>2, <2>3 DEF W
<1>13. CASE cap < N
  <2> DEFINE Q == 0..(cap - 1)
             G == [e \in W |-> Cardinality(B[e])]
  <2>1. \A e \in W : Cardinality(B[e]) \in Q /\ e \in A
    BY <1>1, <1>8
  <2>2. G \in [W -> Q] /\ \A e \in W : G[e] = F[e]
    BY <1>6, <2>1
  <2>3. \A t \in Q : t \in R /\ t < cap
    BY <1>3, <1>13 DEF R
  <2>4. \A t \in Q : \E e \in W : G[e] = t
    <3> TAKE t \in Q
    <3>1. PICK e \in A : F[e] = t
      BY <2>3, <1>11
    <3>2. e \in W
      BY <3>1, <2>3, <1>6, <1>8
    <3> QED BY <3>1, <3>2, <2>2
  <2>5. IsFiniteSet(Q) /\ Cardinality(Q) = cap
    <3>1. 0 \in Int /\ cap - 1 \in Int
      OBVIOUS
    <3>2. IsFiniteSet(Q) /\ Cardinality(Q) = IF 0 > cap - 1 THEN 0 ELSE cap - 1 - 0 + 1
      BY <3>1, FS_Interval
    <3> QED BY <3>2
  <2> HIDE DEF Q, G
  <2>6. G \in Injection(W, Q)
    BY <1>5, <2>1, <2>2 DEF Injection, IsInjective
  <2>7. G \in Surjection(W, Q)
    BY <2>2, <2>4 DEF Surjection
  <2>8. IsFiniteSet(W) /\ Cardinality(W) = Cardinality(Q)
    BY <2>5, <2>6, <2>7, FS_Injection
  <2>9. Min({N, cap}) = cap
    BY <1>3, <1>13 DEF Min
  <2> QED BY <2>5, <2>8, <2>9 DEF W
<1> QED BY <1>3, <1>12, <1>13

LEMMA CapHolds ==
  ASSUME NEW A, IsFiniteSet(A), NEW B \in [A -> SUBSET A], NEW cap \in Nat,
         \A e \in A : e \notin B[e],
         \A d, e \in A : d # e => d \in B[e] \/ e \in B[d],
         \A d, e \in A : d \in B[e] => B[d] \subseteq B[e]
  PROVE LET W == {e \in A : Cardinality(B[e]) < cap} IN IsFiniteSet(W) /\ Cardinality(W) <= cap
<1> DEFINE W == {e \in A : Cardinality(B[e]) < cap}
<1>1. IsFiniteSet(W) /\ Cardinality(W) = Min({Cardinality(A), cap})
  BY CapExact
<1>2. Cardinality(A) \in Nat
  BY FS_CardinalityType
<1>3. Min({Cardinality(A), cap}) <= cap
  BY <1>2, LeastOf
<1> QED BY <1>1, <1>3

LEMMA RankIn ==
  ASSUME NEW n, n \in ToSet(Sorted)
  PROVE  Rank(n) \in 1..Len(Sorted) /\ Sorted[Rank(n)] = n
<1>1. Len(Sorted) \in Nat /\ DOMAIN Sorted = 1..Len(Sorted)
  BY GraphAssumption, ListDomain
<1>2. \E i \in DOMAIN Sorted : Sorted[i] = n
  BY DEF ToSet
<1> QED BY <1>1, <1>2 DEF Rank

(* Who a fact is about is a node of some file.                             *)
LEMMA FactNodes ==
  ASSUME NEW g, NEW c, Held(g, c), Given(c)
  PROVE /\ \A k \in DOMAIN g.deps : \A i \in ToSet(g.deps[k]) : i \in DOMAIN g.nodes /\ g.nodes[i].file \in ToSet(Files)
        /\ \A k \in DOMAIN g.producers : \A i \in ToSet(g.producers[k]) : i \in DOMAIN g.nodes /\ g.nodes[i].file \in ToSet(Files)
<1>0. FactsHeld(g, c) /\ Sound(g)
  BY DEF Held
<1>1. ASSUME NEW f \in There(c), NEW rel, Named(rel) \subseteq DOMAIN Extracted[c[f]].nodes, NEW topical,
             NEW k, NEW i, <<k, i>> \in Told(g, f, rel, topical)
      PROVE i \in DOMAIN g.nodes /\ g.nodes[i].file \in ToSet(Files)
  <2>1. \A q \in Told(g, f, rel, topical) : q[2] \in ToSet(Bucket(g.byFile, f))
    BY <1>1, ToldIds
  <2>2. i \in ToSet(Bucket(g.byFile, f))
    BY <2>1, <1>1
  <2>3. i \in DOMAIN g.nodes /\ g.nodes[i].file = f
    BY <1>0, <2>2, FileNodes
  <2> QED BY <2>3 DEF There
<1>2. ASSUME NEW f \in There(c)
      PROVE /\ Named(Extracted[c[f]].deps) \subseteq DOMAIN Extracted[c[f]].nodes
            /\ Named(Extracted[c[f]].producers) \subseteq DOMAIN Extracted[c[f]].nodes
  <2>1. c[f] \in DOMAIN Extracted
    BY DEF There, Given
  <2> QED BY <2>1, ExtractedAssumption
<1>3. ASSUME NEW k \in DOMAIN g.deps, NEW i \in ToSet(g.deps[k])
      PROVE i \in DOMAIN g.nodes /\ g.nodes[i].file \in ToSet(Files)
  <2>1. <<k, i>> \in PairsOf(g.deps)
    BY PairsAre
  <2>2. PICK f \in There(c) : <<k, i>> \in Told(g, f, Extracted[c[f]].deps, FALSE)
    BY <2>1, <1>0 DEF FactsHeld
  <2> QED BY <2>2, <1>1, <1>2
<1>4. ASSUME NEW k \in DOMAIN g.producers, NEW i \in ToSet(g.producers[k])
      PROVE i \in DOMAIN g.nodes /\ g.nodes[i].file \in ToSet(Files)
  <2>1. <<k, i>> \in PairsOf(g.producers)
    BY PairsAre
  <2>2. PICK f \in There(c) : <<k, i>> \in Told(g, f, Extracted[c[f]].producers, TRUE)
    BY <2>1, <1>0 DEF FactsHeld
  <2> QED BY <2>2, <1>1, <1>2
<1> QED BY <1>3, <1>4

LEMMA LinkFields ==
  ASSUME NEW g, NEW k, NEW e, Link(g, k, e)
  PROVE e.rank = 1 + Rank(e.meta) /\ e.kind = "Produces" /\ e.to = HubsOf(g, k)[1] /\ e.conf = "heuristic"
<1> DEFINE f == e.from
           m == e.meta
           hub == HubsOf(g, k)[1]
<1>1. e = Edge(f, hub, "Produces", m, "heuristic", 1 + Rank(m))
  BY DEF Link
<1> HIDE DEF f, m, hub
<1>2. e.rank = 1 + Rank(m) /\ e.kind = "Produces" /\ e.to = hub /\ e.conf = "heuristic"
  BY <1>1, EdgeParts
<1> QED BY <1>2 DEF m, hub

(* Two links of one subject are from two producers.                        *)
LEMMA LinksDiffer ==
  ASSUME NEW g, NEW c, Held(g, c), Given(c), NEW k, NEW d, NEW e, Link(g, k, d), Link(g, k, e), d.rank = e.rank
  PROVE d.meta = e.meta /\ (d.from = e.from => d = e)
<1>1. d.meta \in Topics(g) /\ e.meta \in Topics(g)
  BY DEF Link, Topics
<1>2. d.meta \in ToSet(Sorted) /\ e.meta \in ToSet(Sorted)
  BY <1>1, TopicsSorted
<1>3. /\ Rank(d.meta) \in 1..Len(Sorted) /\ Sorted[Rank(d.meta)] = d.meta
      /\ Rank(e.meta) \in 1..Len(Sorted) /\ Sorted[Rank(e.meta)] = e.meta
  BY <1>2, RankIn
<1>4. Rank(d.meta) = Rank(e.meta)
  BY <1>3, LinkFields
<1>5. d.meta = e.meta
  BY <1>3, <1>4
<1>6. /\ d = Edge(d.from, HubsOf(g, k)[1], "Produces", d.meta, "heuristic", 1 + Rank(d.meta))
      /\ e = Edge(e.from, HubsOf(g, k)[1], "Produces", e.meta, "heuristic", 1 + Rank(e.meta))
  BY DEF Link
<1>7. d.from = e.from => d = e
  BY <1>5, <1>6, Zenon
<1> QED BY <1>5, <1>7

LEMMA LinksFinite ==
  ASSUME NEW g, NEW c, Held(g, c), Given(c), NEW k, NEW A, \A e \in A : Link(g, k, e)
  PROVE IsFiniteSet(A)
<1> DEFINE X == 2..(Len(Sorted) + 1)
           Y == 0..(g.next - 1)
           P == X \X Y
           F == [e \in A |-> <<e.rank, e.from>>]
<1>1. Len(Sorted) \in Nat /\ g.next \in Nat /\ DOMAIN g.nodes \subseteq Y
  BY GraphAssumption, ListDomain DEF Held, Sound, Ided
<1>2. \A e \in A : e.rank \in X /\ e.from \in Y
  <2> TAKE e \in A
  <2>1. Link(g, k, e)
    OBVIOUS
  <2>2. e.meta \in ToSet(Sorted) /\ e.rank = 1 + Rank(e.meta)
    BY <2>1, LinkFields, TopicsSorted DEF Link, Topics
  <2>3. Rank(e.meta) \in 1..Len(Sorted)
    BY <2>2, RankIn
  <2>4. e.from \in DOMAIN g.nodes
    BY <2>1, FactNodes DEF Link
  <2> QED BY <1>1, <2>2, <2>3, <2>4
<1>3. \A d, e \in A : d.rank = e.rank /\ d.from = e.from => d = e
  BY LinksDiffer
<1>4. IsFiniteSet(X) /\ IsFiniteSet(Y)
  <2>1. 2 \in Int /\ Len(Sorted) + 1 \in Int /\ 0 \in Int /\ g.next - 1 \in Int
    BY <1>1
  <2> QED BY <2>1, FS_Interval
<1> HIDE DEF X, Y
<1>5. IsFiniteSet(P)
  BY <1>4, FS_Product
<1>6. F \in [A -> P]
  BY <1>2
<1>7. \A d, e \in A : F[d] = F[e] => d = e
  BY <1>3
<1> HIDE DEF F, P
<1>8. F \in Injection(A, P)
  BY <1>6, <1>7 DEF Injection, IsInjective
<1> QED BY <1>5, <1>8, FS_Injection

(* Where a link's producer first stands among those of its subject.        *)
First(g, e) ==
  CHOOSE p \in DOMAIN g.producers[e.meta] :
    g.producers[e.meta][p] = e.from /\ \A q \in 1..(p - 1) : g.producers[e.meta][q] # e.from
LEMMA FirstIs ==
  ASSUME NEW g, NEW c, Held(g, c), NEW k, NEW e, Link(g, k, e)
  PROVE First(g, e) \in Nat /\ g.producers[e.meta][First(g, e)] = e.from
<1> DEFINE s == g.producers[e.meta]
           T == {p \in DOMAIN s : s[p] = e.from}
<1>1. s \in Seq(Nat) /\ e.from \in ToSet(s)
  BY DEF Held, FactsFilled, Filled, Link
<1>2. First(g, e) = CHOOSE p \in DOMAIN s : s[p] = e.from /\ \A q \in 1..(p - 1) : s[q] # e.from
  BY DEF First
<1> HIDE DEF s
<1>3. T \in SUBSET Nat /\ T # {} /\ DOMAIN s = 1..Len(s) /\ Len(s) \in Nat
  BY <1>1 DEF ToSet
<1>4. PICK p \in T : \A q \in T : p <= q
  <2> HIDE DEF T
  <2> QED BY <1>3, LeastNat
<1>5. p \in DOMAIN s /\ s[p] = e.from /\ \A q \in 1..(p - 1) : s[q] # e.from
  BY <1>3, <1>4
<1>6. First(g, e) \in DOMAIN s /\ s[First(g, e)] = e.from
  BY <1>2, <1>5
<1> QED BY <1>3, <1>6 DEF s

Before(g, d, e) == d.rank < e.rank \/ (d.rank = e.rank /\ First(g, d) < First(g, e))
LEMMA WildcardsCapped ==
  ASSUME NEW g, NEW c, Held(g, c), Given(c), NEW k
  PROVE IsFiniteSet(WildcardEdges(g, k)) /\ Cardinality(WildcardEdges(g, k)) <= WildcardCap
<1> DEFINE A == WildcardEdgesUncapped(g, k)
           B == [e \in A |-> {d \in A : Before(g, d, e)}]
           cap == WildcardCap
<1>1. \A e \in A : Link(g, k, e)
  BY LinksAre
<1>2. WildcardEdges(g, k) = {e \in A : Cardinality({d \in A : Before(g, d, e)}) < cap}
  BY DEF WildcardEdges, Before, First
<1> HIDE DEF A, cap
<1>3. IsFiniteSet(A) /\ cap \in Nat
  BY <1>1, LinksFinite, GraphAssumption DEF cap
<1>4. B \in [A -> SUBSET A] /\ \A e \in A : B[e] = {d \in A : Before(g, d, e)}
  OBVIOUS
<1>5. \A e \in A : e.rank \in Int /\ First(g, e) \in Nat
  <2> TAKE e \in A
  <2>1. e.meta \in ToSet(Sorted) /\ e.rank = 1 + Rank(e.meta)
    BY <1>1, LinkFields, TopicsSorted DEF Link, Topics
  <2>2. Rank(e.meta) \in 1..Len(Sorted) /\ Len(Sorted) \in Nat
    BY <2>1, RankIn, GraphAssumption, ListDomain
  <2> QED BY <1>1, <2>1, <2>2, FirstIs
<1>6. \A d, e \in A : d.rank = e.rank /\ First(g, d) = First(g, e) => d = e
  <2> SUFFICES ASSUME NEW d \in A, NEW e \in A, d.rank = e.rank, First(g, d) = First(g, e) PROVE d = e
    OBVIOUS
  <2>1. Link(g, k, d) /\ Link(g, k, e)
    BY <1>1
  <2>2. d.meta = e.meta /\ (d.from = e.from => d = e)
    BY <2>1, LinksDiffer
  <2>3. d.from = e.from
    BY <2>1, <2>2, FirstIs
  <2> QED BY <2>2, <2>3
<1>7. \A e \in A : ~Before(g, e, e)
  BY <1>5 DEF Before
<1>8. \A d, e \in A : d # e => Before(g, d, e) \/ Before(g, e, d)
  BY <1>5, <1>6 DEF Before
<1>9. \A d, e, f \in A : Before(g, f, d) /\ Before(g, d, e) => Before(g, f, e)
  BY <1>5 DEF Before
<1>10. /\ \A e \in A : e \notin B[e]
       /\ \A d, e \in A : d # e => d \in B[e] \/ e \in B[d]
       /\ \A d, e \in A : d \in B[e] => B[d] \subseteq B[e]
  BY <1>4, <1>7, <1>8, <1>9
<1>11. WildcardEdges(g, k) = {e \in A : Cardinality(B[e]) < cap}
  BY <1>2, <1>4
<1> HIDE DEF B
<1>12. IsFiniteSet({e \in A : Cardinality(B[e]) < cap}) /\ Cardinality({e \in A : Cardinality(B[e]) < cap}) <= cap
  BY <1>3, <1>4, <1>10, CapHolds
<1> QED BY <1>11, <1>12 DEF cap

LEMMA HubAt ==
  ASSUME HubsReserved, NEW g, NEW c, Held(g, c), Given(c), NEW k \in HubNames(g)
  PROVE HubsOf(g, k)[1] \in HubIds(g) /\ g.nodes[HubsOf(g, k)[1]].name = k
<1> DEFINE s == HubsOf(g, k)
<1>1. s \in Seq(Nat) /\ s # <<>> /\ \A i \in ToSet(s) : i \in HubIds(g) /\ g.nodes[i].name = k
  BY HubsListed, HubsFound
<1> HIDE DEF s
<1>2. s[1] \in ToSet(s)
  BY <1>1 DEF ToSet
<1> QED BY <1>1, <1>2 DEF s

(* A link in a reconciled graph is one of the wildcard's own.              *)
Bare(e) == [from |-> e.from, to |-> e.to, kind |-> e.kind, meta |-> e.meta, conf |-> e.conf]
LEMMA ProducesFrom ==
  ASSUME HubsReserved, NEW h, NEW c, Held(h, c), Given(c), HubNames(h) = Topics(h), NEW k \in Topics(h),
         NEW d \in TopicEdges(h), d.kind = "Produces", d.to = HubsOf(h, k)[1], d.meta # k
  PROVE d \in WildcardEdges(h, k)
<1>1. PICK j \in Topics(h) : d \in DirectEdges(h, j) \cup WildcardEdges(h, j)
  BY DEF TopicEdges
<1>2. d.to = HubsOf(h, j)[1]
  BY <1>1, DirectSure, WildcardSure
<1>3. k = j
  <2>1. h.nodes[HubsOf(h, k)[1]].name = k /\ h.nodes[HubsOf(h, j)[1]].name = j
    BY HubAt
  <2> QED BY <1>2, <2>1
<1> QED BY <1>1, <1>3, DirectSure

(* What the edges of a reconciled graph are, and that nothing else of it   *)
(* depends on them.                                                        *)
LEMMA Reconciliation ==
  ASSUME HubsReserved, NEW b, NEW c, Held(b, c), Given(c), NEW r, r = ReconcileEdges(b), NEW h, h = WithHubs(b)
  PROVE /\ Held(h, c) /\ HubNames(h) = Topics(h)
        /\ SameNodes(h, r) /\ SameFacts(h, r)
        /\ r.edges = Unranked(ImportEdges(b) \cup TopicEdges(h) \cup ImplementsEdges(h, RpcNames(h)) \cup CallEdges(h, RpcNames(h)))
<1> DEFINE p == RemoveNodes(b, StaleHubs(b))
<1>1. Held(p, c) /\ SameFacts(b, p) /\ HubNames(p) \subseteq Topics(b)
  BY StaleHubsGo
<1>2. h = WithHubsKept(p)
  BY DEF WithHubs
<1>3. r = WithEdges(h, RpcNames(h), ImportEdges(b))
  BY DEF ReconcileEdges, Reconciled
<1> HIDE DEF p
<1>4. HubNames(p) \subseteq Topics(p)
  BY <1>1 DEF SameFacts, Topics
<1>5. Held(h, c) /\ HubNames(h) = Topics(h)
  <2>1. Held(h, c) /\ SameFacts(p, h) /\ HubNames(h) = Topics(p)
    BY <1>1, <1>2, <1>4, HubsKeptHeld
  <2> QED BY <2>1 DEF SameFacts, Topics
<1>6. DOMAIN h = GraphFields
  BY <1>5 DEF Held, Sound, Ided
<1>7. DOMAIN r = DOMAIN h
  BY <1>3, <1>6 DEF WithEdges
<1>8. r.next = h.next /\ r.nodes = h.nodes
  BY <1>3, <1>6 DEF WithEdges, GraphFields
<1>9. r.byName = h.byName /\ r.byPackage = h.byPackage
  BY <1>3, <1>6 DEF WithEdges, GraphFields
<1>10. r.byFile = h.byFile /\ r.byFqcn = h.byFqcn
  BY <1>3, <1>6 DEF WithEdges, GraphFields
<1>11. r.deps = h.deps /\ r.producers = h.producers
  BY <1>3, <1>6 DEF WithEdges, GraphFields
<1>12. r.consumers = h.consumers /\ r.calls = h.calls /\ r.heuristic = h.heuristic
  BY <1>3, <1>6 DEF WithEdges, GraphFields
<1> DEFINE E == Unranked(ImportEdges(b) \cup TopicEdges(h) \cup ImplementsEdges(h, RpcNames(h)) \cup CallEdges(h, RpcNames(h)))
           names == RpcNames(h)
<1>13. r = [h EXCEPT !.edges = E, !.rpcNames = names]
  BY <1>3 DEF WithEdges
<1>14. r.edges = E
  <2> HIDE DEF E, names
  <2> QED BY <1>6, <1>13 DEF GraphFields
<1> QED BY <1>5, <1>7, <1>8, <1>9, <1>10, <1>11, <1>12, <1>14 DEF SameNodes, SameFacts

LEMMA EdgesSure ==
  ASSUME HubsReserved, NEW b, NEW c, Held(b, c), Given(c), NEW r, r = ReconcileEdges(b), NEW e \in r.edges
  PROVE Sure(e) /\ LET h == WithHubs(b) IN
                   \/ e.kind = "Imports" /\ \E d \in ImportEdges(b) : e = Bare(d)
                   \/ \E d \in TopicEdges(h) : e = Bare(d)
                   \/ e.kind \notin {"Imports", "Produces"}
<1> DEFINE h == WithHubs(b)
           names == RpcNames(h)
<1>1. r.edges = Unranked(ImportEdges(b) \cup TopicEdges(h) \cup ImplementsEdges(h, names) \cup CallEdges(h, names))
  BY Reconciliation
<1> HIDE DEF h, names
<1>2. PICK d \in ImportEdges(b) \cup TopicEdges(h) \cup ImplementsEdges(h, names) \cup CallEdges(h, names) : e = Bare(d)
  BY <1>1 DEF Unranked, Bare
<1>3. e.kind = d.kind /\ e.conf = d.conf
  BY <1>2 DEF Bare
<1>4. CASE d \in ImportEdges(b)
  <2>1. d.kind = "Imports" /\ Sure(d)
    BY <1>4, ImportsSure
  <2> QED BY <1>2, <1>3, <1>4, <2>1 DEF Sure
<1>5. CASE d \in TopicEdges(h)
  <2>1. PICK k \in Topics(h) : d \in DirectEdges(h, k) \cup WildcardEdges(h, k)
    BY <1>5 DEF TopicEdges
  <2>2. Sure(d)
    BY <2>1, DirectSure, WildcardSure
  <2> QED BY <1>2, <1>3, <1>5, <2>2 DEF Sure, h
<1>6. CASE d \in ImplementsEdges(h, names) \cup CallEdges(h, names)
  <2>1. Sure(d) /\ d.kind \notin {"Produces", "Imports"}
    BY <1>6, GrpcSure
  <2> QED BY <1>3, <2>1 DEF Sure
<1> QED BY <1>2, <1>4, <1>5, <1>6

LEMMA LinksBounded ==
  ASSUME HubsReserved, NEW b, NEW c, Held(b, c), Given(c), NEW r, r = ReconcileEdges(b), NEW k \in Topics(r)
  PROVE /\ Cardinality(Links(r, k)) <= WildcardCap
        /\ \A e \in Links(r, k) : SubjectMatches(".", k, e.meta) /\ e.from \notin ToSet(Bucket(r.consumers, k))
<1> DEFINE h == WithHubs(b)
           W == WildcardEdges(h, k)
           L == Links(r, k)
           V == {d \in W : Bare(d) \in L}
           F == [d \in V |-> Bare(d)]
<1>1. Held(h, c) /\ HubNames(h) = Topics(h) /\ SameNodes(h, r) /\ SameFacts(h, r)
  BY Reconciliation
<1>2. k \in Topics(h) /\ HubsOf(r, k) = HubsOf(h, k) /\ r.consumers = h.consumers
  BY <1>1 DEF SameFacts, SameNodes, Topics, HubsOf
<1>3. ASSUME NEW e \in L PROVE \E d \in W : e = Bare(d)
  <2>1. e \in r.edges /\ e.kind = "Produces" /\ e.to = HubsOf(h, k)[1] /\ e.meta # k
    BY <1>2 DEF Links
  <2>2. PICK d \in TopicEdges(h) : e = Bare(d)
    BY <2>1, EdgesSure
  <2>3. d.kind = "Produces" /\ d.to = HubsOf(h, k)[1] /\ d.meta # k
    BY <2>1, <2>2 DEF Bare
  <2> HIDE DEF h
  <2>4. d \in W
    BY <1>1, <1>2, <2>3, ProducesFrom
  <2> QED BY <2>2, <2>4
<1> HIDE DEF h, L
<1>4. IsFiniteSet(W) /\ Cardinality(W) <= WildcardCap
  BY <1>1, WildcardsCapped
<1>5. \A d \in W : Link(h, k, d)
  BY WildcardSure
<1>6. \A e \in L : SubjectMatches(".", k, e.meta) /\ e.from \notin ToSet(Bucket(r.consumers, k))
  <2> TAKE e \in L
  <2>1. PICK d \in W : e = Bare(d)
    BY <1>3
  <2>2. e.meta = d.meta /\ e.from = d.from
    BY <2>1 DEF Bare
  <2> HIDE DEF W
  <2> QED BY <1>2, <1>5, <2>1, <2>2 DEF Link
<1> HIDE DEF W
<1>7. V \in SUBSET W
  OBVIOUS
<1>8. F \in [V -> L] /\ \A e \in L : \E d \in V : F[d] = e
  BY <1>3
<1> HIDE DEF V, F
<1>9. IsFiniteSet(V) /\ Cardinality(V) <= Cardinality(W)
  BY <1>4, <1>7, FS_Subset
<1>10. F \in Surjection(V, L)
  BY <1>8 DEF Surjection
<1>11. IsFiniteSet(L) /\ Cardinality(L) <= Cardinality(V)
  BY <1>9, <1>10, FS_Surjection
<1>12. Cardinality(L) \in Nat /\ Cardinality(V) \in Nat /\ Cardinality(W) \in Nat /\ WildcardCap \in Nat
  BY <1>4, <1>9, <1>11, FS_CardinalityType, GraphAssumption
<1>13. Cardinality(L) <= WildcardCap
  BY <1>4, <1>9, <1>11, <1>12
<1> QED BY <1>6, <1>13 DEF L

(* Hubs come and go; the nodes of the files stand.                         *)
Stands(g, h) ==
  \A i : \/ i \in DOMAIN g.nodes /\ g.nodes[i].file \in ToSet(Files)
         \/ i \in DOMAIN h.nodes /\ h.nodes[i].file \in ToSet(Files)
         => i \in DOMAIN g.nodes /\ i \in DOMAIN h.nodes /\ h.nodes[i] = g.nodes[i]
LEMMA HubStands ==
  ASSUME NEW g, Sound(g), NEW k, NEW h, h = WithHub(g, k)
  PROVE  Stands(g, h)
<1>0. DOMAIN g = GraphFields /\ g.next \in Nat /\ DOMAIN g.nodes \subseteq 0..(g.next - 1)
  BY DEF Sound, Ided
<1>1. CASE h = g
  BY <1>1 DEF Stands
<1>2. CASE h = AddNode(g, HubNode(k))
  <2> DEFINE n == HubNode(k)
             id == g.next
  <2>1. n.file \notin ToSet(Files)
    BY HubFields, GraphAssumption
  <2> HIDE DEF n
  <2>2. h.nodes = [i \in DOMAIN g.nodes \cup {id} |-> IF i = id THEN n ELSE g.nodes[i]]
    BY <1>0, <1>2, AddNodeFields DEF n
  <2>3. id \notin DOMAIN g.nodes
    BY <1>0
  <2> HIDE DEF id
  <2> QED BY <2>1, <2>2, <2>3 DEF Stands
<1> QED BY <1>1, <1>2 DEF WithHub

LEMMA StandsOn ==
  ASSUME NEW g, NEW h, NEW l, Stands(g, h), Stands(h, l)
  PROVE  Stands(g, l)
BY DEF Stands

LEMMA HubsStand ==
  ASSUME NEW g, Sound(g)
  PROVE  Stands(g, WithHubsKept(g))
<1>1. Len(Sorted) \in Nat
  BY GraphAssumption DEF IsList
<1>2. PICK F : /\ WithHubsKept(g) = F[Len(Sorted)]
               /\ \A i \in 0..Len(Sorted) :
                    F[i] = IF i = 0 THEN g ELSE IF Sorted[i] \in Topics(g) THEN WithHub(F[i - 1], Sorted[i]) ELSE F[i - 1]
  BY <1>1, GrownUnfolds
<1> DEFINE Fine(n) == Sound(F[n]) /\ Stands(g, F[n])
<1>3. \A i \in 0..Len(Sorted) : Fine(i)
  <2> DEFINE T == {i \in 0..Len(Sorted) : ~Fine(i)}
  <2> SUFFICES ASSUME T # {} PROVE FALSE
    OBVIOUS
  <2>1. PICK j \in T : \A l \in T : j <= l
    <3>1. T \in SUBSET Nat
      BY <1>1
    <3> HIDE DEF T
    <3> QED BY <3>1, LeastNat
  <2>2. Fine(0)
    <3>1. F[0] = g
      BY <1>1, <1>2
    <3>2. Stands(g, g)
      BY DEF Stands
    <3> QED BY <3>1, <3>2
  <2>3. j \in 0..Len(Sorted) /\ ~Fine(j) /\ j # 0
    BY <2>2
  <2>4. j - 1 \in 0..Len(Sorted) /\ j - 1 \notin T
    <3> HIDE DEF T
    <3> QED BY <1>1, <2>1, <2>3
  <2>5. Fine(j - 1)
    <3> HIDE DEF Fine
    <3> QED BY <2>4
  <2>6. F[j] = WithHub(F[j - 1], Sorted[j]) \/ F[j] = F[j - 1]
    BY <1>2, <2>3
  <2>7. CASE F[j] = WithHub(F[j - 1], Sorted[j])
    <3>1. Sound(F[j]) /\ Stands(F[j - 1], F[j])
      BY <2>5, <2>7, WithHubSound, HubStands
    <3> QED BY <2>3, <2>5, <3>1, StandsOn
  <2> QED BY <2>3, <2>5, <2>6, <2>7
<1> QED BY <1>1, <1>2, <1>3

LEMMA FilesStand ==
  ASSUME HubsReserved, NEW b, NEW c, Held(b, c), Given(c), NEW r, r = ReconcileEdges(b)
  PROVE  Stands(b, r)
<1> DEFINE p == RemoveNodes(b, StaleHubs(b))
           h == WithHubs(b)
           stale == StaleHubs(b)
<1>0. Sound(b) /\ DOMAIN b = GraphFields
  BY DEF Held, Sound, Ided
<1>1. Held(p, c)
  BY StaleHubsGo
<1>2. p.nodes = [i \in DOMAIN b.nodes \ stale |-> b.nodes[i]]
  BY <1>0, RemoveFields
<1>3. \A i \in stale : i \in DOMAIN b.nodes /\ b.nodes[i].file = HubFile
  <2> TAKE i \in stale
  <2>1. i \in DOMAIN b.nodes /\ b.nodes[i].pkg = Hub /\ b.nodes[i].kind \in StreamKinds
    BY DEF StaleHubs
  <2> DEFINE k == b.nodes[i].name
  <2>2. b.nodes[i] = HubNode(k)
    BY <2>1, HubsOnly
  <2> HIDE DEF k
  <2> QED BY <2>1, <2>2, HubFields
<1>4. h = WithHubsKept(p)
  BY DEF WithHubs
<1>5. r.nodes = h.nodes
  <2>1. SameNodes(h, r)
    BY Reconciliation
  <2> QED BY <2>1 DEF SameNodes
<1> HIDE DEF p, h, stale
<1>6. Stands(b, p)
  BY <1>2, <1>3, GraphAssumption DEF Stands
<1>7. Stands(p, h)
  BY <1>1, <1>4, HubsStand DEF Held
<1>8. Stands(b, h)
  BY <1>6, <1>7, StandsOn
<1> QED BY <1>5, <1>8 DEF Stands

LEMMA NamedNodes ==
  ASSUME NEW g, Sound(g), NEW n
  PROVE /\ Bucket(g.byName, n) \in Seq(Nat)
        /\ \A i : i \in ToSet(Bucket(g.byName, n)) <=> i \in DOMAIN g.nodes /\ n \in ToSet(NameKeys(g.nodes[i]))
<1> DEFINE keys == NamesIn(g)
           m == g.next
<1>1. m \in Nat /\ DOMAIN g.nodes \subseteq 0..(m - 1) /\ Bucket(g.byName, n) = Listed(keys, m, n)
  BY DEF Sound, Ided, Indexed, Exact
<1>2. DOMAIN keys = DOMAIN g.nodes /\ \A i \in DOMAIN keys : keys[i] = NameKeys(g.nodes[i]) /\ ShortKeys(keys[i])
  BY KeysAreShort DEF NamesIn
<1> HIDE DEF keys, m
<1>3. ToSet(Listed(keys, m, n)) = {i \in DOMAIN keys \cap 0..(m - 1) : n \in ToSet(keys[i])}
  BY <1>1, <1>2, ListedMembers
<1>4. Listed(keys, m, n) \in Seq(Nat)
  BY SMTT(30), <1>1, ListedIsSeq
<1> QED BY <1>1, <1>2, <1>3, <1>4

(* `pick_or_ambiguous` goes elsewhere only when there is none at home.     *)
LEMMA PickHome ==
  ASSUME NEW ids \in Seq(Nat), ids # <<>>, NEW own, NEW conf, NEW r \in Pick(ids, own, conf)
  PROVE r[1] \in own \/ ToSet(ids) \cap own = {}
<1> DEFINE same == Only(ids, own)
           rest == ToSet(ids) \ own
<1>1. same \in Seq(Nat) /\ ToSet(same) = ToSet(ids) \cap own
  <2>1. same = Without(ids, rest)
    BY DEF Only
  <2> HIDE DEF rest, same
  <2>2. same \in Seq(Nat) /\ ToSet(same) = ToSet(ids) \ rest
    BY <2>1, WithoutMembers
  <2> QED BY <2>2 DEF rest
<1>2. CASE Len(ids) = 1
  <2>1. r[1] = ids[1]
    BY <1>2 DEF Pick
  <2>2. ToSet(ids) = {ids[1]}
    BY <1>2 DEF ToSet
  <2> QED BY <2>1, <2>2
<1>3. CASE Len(ids) # 1 /\ Len(same) = 1
  <2>1. r[1] = same[1]
    BY <1>3 DEF Pick
  <2> HIDE DEF same
  <2>2. same[1] \in ToSet(same)
    BY <1>1, <1>3 DEF ToSet
  <2> QED BY <1>1, <2>1, <2>2
<1>4. CASE Len(ids) # 1 /\ Len(same) # 1
  <2>1. r[1] \in ToSet(IF same = <<>> THEN ids ELSE same)
    BY <1>4 DEF Pick
  <2> HIDE DEF same
  <2>2. same = <<>> => ToSet(same) = {}
    BY <1>1 DEF ToSet
  <2> QED BY <1>1, <2>1, <2>2
<1> QED BY <1>2, <1>3, <1>4

(* An unqualified import is answered from home if the name is known there. *)
LEMMA ImportHome ==
  ASSUME NEW g, Sound(g), NEW t, NEW imp, ~Qualified(t.n), NEW r \in ResolveImportTargets(g, t, imp)
  PROVE r[1] \in InRepo(g, imp.repo) \/ ToSet(Bucket(g.byName, t.n)) \cap InRepo(g, imp.repo) = {}
<1> DEFINE own == InRepo(g, imp.repo)
           named == Bucket(g.byName, t.n)
<1>0. named \in Seq(Nat)
  BY NamedNodes
<1>a. ASSUME NEW part PROVE Only(named, part) \in Seq(Nat) /\ ToSet(Only(named, part)) = ToSet(named) \cap part
  <2> DEFINE rest == ToSet(named) \ part
  <2>1. Only(named, part) = Without(named, rest)
    BY DEF Only
  <2> HIDE DEF rest, named
  <2>2. Without(named, rest) \in Seq(Nat) /\ ToSet(Without(named, rest)) = ToSet(named) \ rest
    BY <1>0, WithoutMembers
  <2> QED BY <2>1, <2>2 DEF rest
<1>b. ASSUME NEW part, part \subseteq own, Only(named, part) # <<>>, NEW conf, r \in PickByRepo(g, Only(named, part), imp.repo, conf)
      PROVE r[1] \in own
  <2> DEFINE near == Only(named, part)
  <2>1. near \in Seq(Nat) /\ ToSet(near) \subseteq own /\ near # <<>> /\ r \in Pick(near, own, conf)
    BY <1>a, <1>b DEF PickByRepo
  <2> HIDE DEF near, own
  <2>2. r[1] \in own \/ ToSet(near) \cap own = {}
    BY <2>1, PickHome
  <2>3. near[1] \in ToSet(near)
    BY <2>1 DEF ToSet
  <2> QED BY <2>1, <2>2, <2>3
<1>1. CASE t.rel
  <2> DEFINE part == {i \in InRepo(g, imp.repo) : Attr[imp.file].script => g.nodes[i].file = t.file}
  <2>1. r \in ResolveRelative(g, t, imp)
    BY <1>1 DEF ResolveImportTargets
  <2>2. Only(named, part) # <<>> /\ r \in PickByRepo(g, Only(named, part), imp.repo, "heuristic")
    BY <2>1 DEF ResolveRelative
  <2>3. part \subseteq own
    OBVIOUS
  <2> HIDE DEF part, own, named
  <2>4. r[1] \in own
    BY <2>2, <2>3, <1>b
  <2> QED BY <2>4 DEF own
<1>2. CASE ~t.rel
  <2>1. r \in ResolveName(g, t.n, imp.repo)
    BY <1>2 DEF ResolveImportTargets
  <2>2. \/ Only(named, own) # <<>> /\ r \in PickByRepo(g, Only(named, own), imp.repo, "heuristic")
        \/ named # <<>> /\ r \in PickByRepo(g, named, imp.repo, "heuristic")
    BY <2>1 DEF ResolveName
  <2>3. CASE Only(named, own) # <<>> /\ r \in PickByRepo(g, Only(named, own), imp.repo, "heuristic")
    <3> HIDE DEF own, named
    <3>1. r[1] \in own
      BY <2>3, <1>b
    <3> QED BY <3>1 DEF own
  <2>4. CASE named # <<>> /\ r \in PickByRepo(g, named, imp.repo, "heuristic")
    <3>1. r \in Pick(named, own, "heuristic")
      BY <2>4 DEF PickByRepo
    <3> HIDE DEF own, named
    <3>2. r[1] \in own \/ ToSet(named) \cap own = {}
      BY <1>0, <2>4, <3>1, PickHome
    <3> QED BY <3>2 DEF own, named
  <2> QED BY <2>2, <2>3, <2>4
<1> QED BY <1>1, <1>2

(* A node of a file is in that file's repository, a hub in none.           *)
LEMMA RepoOf ==
  ASSUME NEW g, NEW c, Held(g, c), Given(c), NEW i \in DOMAIN g.nodes
  PROVE IF g.nodes[i].file \in ToSet(Files) THEN g.nodes[i].repo # NoRepo ELSE g.nodes[i].repo = NoRepo
<1>1. CASE g.nodes[i].file \in ToSet(Files)
  <2> DEFINE f == g.nodes[i].file
             x == c[f]
  <2>1. PICK j \in DOMAIN Extracted[x].nodes : g.nodes[i] = Located(Extracted[x].nodes[j], f)
    BY <1>1, NodeOwned
  <2>2. f \in ToSet(Files)
    BY <1>1
  <2> HIDE DEF f, x
  <2>3. g.nodes[i].repo = Attr[f].repo
    BY <2>1 DEF Located
  <2>4. Attr[f].repo # NoRepo
    BY <2>2, GraphAssumption
  <2> QED BY <1>1, <2>3, <2>4
<1>2. CASE g.nodes[i].file \notin ToSet(Files)
  <2> DEFINE k == g.nodes[i].name
  <2>1. g.nodes[i] = HubNode(k)
    BY <1>2 DEF Held, Placed
  <2> HIDE DEF k
  <2>2. HubNode(k).repo = NoRepo
    BY DEF HubNode
  <2> QED BY <1>2, <2>1, <2>2
<1> QED BY <1>1, <1>2

LEMMA ImportsHome ==
  ASSUME HubsReserved, NEW b, NEW c, Held(b, c), Given(c), NEW r, r = ReconcileEdges(b),
         NEW e \in r.edges, e.kind = "Imports", ~Qualified(e.meta)
  PROVE \/ r.nodes[e.to].repo = r.nodes[e.from].repo
        \/ \A i \in ToSet(Bucket(r.byName, e.meta)) : r.nodes[i].repo # r.nodes[e.from].repo
<1>1. PICK d \in ImportEdges(b) : e = Bare(d)
  <2> DEFINE h == WithHubs(b)
  <2>1. ASSUME NEW d \in TopicEdges(h), e = Bare(d) PROVE FALSE
    <3>1. d.kind = "Imports"
      BY <2>1 DEF Bare
    <3>2. PICK k \in Topics(h) : d \in DirectEdges(h, k) \cup WildcardEdges(h, k)
      BY DEF TopicEdges
    <3>3. d.kind \in {"Produces", "Consumes"}
      BY <3>2, WildcardSure DEF DirectEdges, Edge
    <3> QED BY <3>1, <3>3
  <2> QED BY <2>1, EdgesSure
<1>2. e.from = d.from /\ e.to = d.to /\ e.meta = d.meta
  BY <1>1 DEF Bare
<1>3. PICK t \in DOMAIN b.deps : \E i \in ToSet(b.deps[t]) \cap DOMAIN b.nodes :
        \E q \in ResolveImportTargets(b, t, b.nodes[i]) : e.from = i /\ e.to = q[1] /\ e.meta = t.n
  BY <1>1, <1>2, ImportsSure
<1>4. PICK q : q \in ResolveImportTargets(b, t, b.nodes[e.from]) /\ e.to = q[1] /\ e.meta = t.n /\ e.from \in ToSet(b.deps[t])
  BY <1>3
<1> DEFINE R == b.nodes[e.from].repo
<1>5. e.from \in DOMAIN b.nodes /\ b.nodes[e.from].file \in ToSet(Files)
  BY <1>4, FactNodes
<1>6. R # NoRepo
  BY <1>5, RepoOf
<1>7. Stands(b, r) /\ Held(r, c) /\ Sound(b) /\ Sound(r)
  BY FilesStand, ReconcileHeld DEF Held
<1>8. r.nodes[e.from] = b.nodes[e.from]
  BY <1>5, <1>7 DEF Stands
<1>9. \/ q[1] \in InRepo(b, R)
      \/ ToSet(Bucket(b.byName, t.n)) \cap InRepo(b, R) = {}
  BY <1>4, <1>7, ImportHome
<1> HIDE DEF R
<1>10. CASE q[1] \in InRepo(b, R)
  <2>1. e.to \in DOMAIN b.nodes /\ b.nodes[e.to].repo = R
    BY <1>4, <1>10 DEF InRepo
  <2>2. b.nodes[e.to].file \in ToSet(Files)
    BY <1>6, <2>1, RepoOf
  <2>3. r.nodes[e.to] = b.nodes[e.to]
    BY <1>7, <2>1, <2>2 DEF Stands
  <2> QED BY <1>8, <2>1, <2>3 DEF R
<1>11. CASE ToSet(Bucket(b.byName, t.n)) \cap InRepo(b, R) = {}
  <2> SUFFICES ASSUME NEW i \in ToSet(Bucket(r.byName, e.meta)), r.nodes[i].repo = R PROVE FALSE
    BY <1>8 DEF R
  <2>1. i \in DOMAIN r.nodes /\ t.n \in ToSet(NameKeys(r.nodes[i]))
    BY <1>4, <1>7, NamedNodes
  <2>2. r.nodes[i].file \in ToSet(Files)
    BY <1>6, <1>7, <2>1, RepoOf
  <2>3. i \in DOMAIN b.nodes /\ r.nodes[i] = b.nodes[i]
    BY <1>7, <2>1, <2>2 DEF Stands
  <2>4. i \in ToSet(Bucket(b.byName, t.n)) /\ i \in InRepo(b, R)
    BY <1>7, <2>1, <2>3, NamedNodes DEF InRepo
  <2> QED BY <1>11, <2>4
<1> QED BY <1>9, <1>10, <1>11

(* The inductive invariant: the graph is what deriving the edges of some   *)
(* graph of the contents gives.                                            *)
ExactInv ==
  /\ content \in Inhabited /\ reloads \in 0..MaxReloads
  /\ \E b : Held(b, content) /\ graph = ReconcileEdges(b)

LEMMA ExactInvMeans == ASSUME HubsReserved PROVE ExactInv => GraphExact
<1> SUFFICES ASSUME ExactInv PROVE GraphExact
  OBVIOUS
<1>1. PICK b : Held(b, content) /\ graph = ReconcileEdges(b)
  BY DEF ExactInv
<1>2. Given(content)
  BY InhabitedGiven DEF ExactInv
<1> DEFINE c == content
           r == graph
<1> HIDE DEF c, r
<1>3. Held(b, c) /\ r = ReconcileEdges(b) /\ Given(c)
  BY <1>1, <1>2 DEF c, r
<1>4. TypeOK
  <2>1. content \in Inhabited /\ reloads \in 0..MaxReloads
    BY DEF ExactInv
  <2>2. DOMAIN r.nodes \subseteq 0..(r.next - 1)
    BY <1>3, ReconcileHeld DEF Held, Sound, Ided
  <2>3. \A e \in r.edges : Sure(e)
    BY <1>3, EdgesSure
  <2> QED BY <2>1, <2>2, <2>3 DEF TypeOK, Sure, EdgeKinds, Confidences, r
<1>5. WildcardsBounded
  <2>1. \A k \in Topics(r) :
          /\ Cardinality(Links(r, k)) <= WildcardCap
          /\ \A e \in Links(r, k) : SubjectMatches(".", k, e.meta) /\ e.from \notin ToSet(Bucket(r.consumers, k))
    BY <1>3, LinksBounded
  <2> QED BY <2>1 DEF WildcardsBounded, r
<1>6. ImportsStayHome
  <2>1. \A e \in r.edges : e.kind = "Imports" /\ ~Qualified(e.meta) =>
          \/ r.nodes[e.to].repo = r.nodes[e.from].repo
          \/ \A i \in ToSet(Bucket(r.byName, e.meta)) : r.nodes[i].repo # r.nodes[e.from].repo
    BY <1>3, ImportsHome
  <2> QED BY <2>1 DEF ImportsStayHome, r
<1> QED BY <1>4, <1>5, <1>6 DEF GraphExact

LEMMA ExactInvStep ==
  ASSUME HubsReserved
  PROVE  ExactInv /\ [Next]_vars => ExactInv'
<1> SUFFICES ASSUME ExactInv, [Next]_vars PROVE ExactInv'
  OBVIOUS
<1>0. PICK a : Held(a, content) /\ graph = ReconcileEdges(a)
  BY DEF ExactInv
<1>1. ASSUME NEW fs, fs \subseteq ToSet(Files), Reload(fs) PROVE ExactInv'
  <2> DEFINE c == content'
             b == Folded(PatchFiles(graph, fs), fs, c)
  <2>1. c \in Inhabited /\ graph' = ApplyIncremental(graph, fs, c) /\ \A f \in ToSet(Files) : (c[f] # content[f]) <=> (f \in fs)
    BY <1>1 DEF Reload
  <2>2. Given(content) /\ Given(c)
    BY <2>1, InhabitedGiven DEF ExactInv
  <2>3. Held(graph, content)
    BY <1>0, <2>2, ReconcileHeld
  <2>4. Emptied(content, fs) = Emptied(c, fs)
    BY <2>1 DEF Emptied
  <2>5. Held(PatchFiles(graph, fs), Emptied(c, fs))
    BY <2>2, <2>3, <2>4, PatchHeld
  <2> HIDE DEF c
  <2>6. Held(b, c)
    BY <2>2, <2>5, FoldedHeld
  <2>7. graph' = ReconcileEdges(b)
    BY <2>1 DEF ApplyIncremental
  <2>8. reloads' \in 0..MaxReloads
    BY <1>1, GraphAssumption DEF Reload, ExactInv
  <2> HIDE DEF b
  <2> QED BY <2>1, <2>6, <2>7, <2>8 DEF ExactInv, c
<1>2. CASE UNCHANGED vars
  BY <1>2 DEF vars, ExactInv
<1> QED BY <1>1, <1>2 DEF Next

LEMMA ExactInvAlways ==
  ASSUME HubsReserved
  PROVE  Spec => []ExactInv
<1>1. Init => ExactInv
  <2> SUFFICES ASSUME Init PROVE ExactInv
    OBVIOUS
  <2> DEFINE c == content
             fs == ToSet(Files)
             b == Folded(EmptyGraph, fs, c)
  <2>1. c \in Inhabited /\ graph = FullBuild(c) /\ reloads = 0
    BY DEF Init, Rebuilt
  <2>2. Given(c)
    BY <2>1, InhabitedGiven
  <2>3. Held(EmptyGraph, Emptied(c, fs))
    <3>1. \A f \in ToSet(Files) : Emptied(c, fs)[f] = NoFile
      BY DEF Emptied
    <3> QED BY <3>1, EmptyHeld
  <2>4. FullBuild(c) = ReconcileEdges(b)
    BY DEF FullBuild
  <2> HIDE DEF c, fs
  <2>5. Held(b, c)
    BY <2>2, <2>3, FoldedHeld DEF fs
  <2> HIDE DEF b
  <2> QED BY <2>1, <2>4, <2>5, GraphAssumption DEF ExactInv, c
<1>2. ExactInv /\ [Next]_vars => ExactInv'
  BY ExactInvStep
<1> QED BY <1>1, <1>2, PTL DEF Spec

(* Whatever was built and patched before, ids are never reused, an import  *)
(* by a plain name stays in its importer's repository when something of    *)
(* that name is there, and a wildcard subscription is linked to at most    *)
(* MAX_WILDCARD_PRODUCERS producers, each of a subject it hears and none   *)
(* of them a subscriber of the same pattern.                               *)
THEOREM GraphAlwaysExact == ASSUME HubsReserved PROVE Spec => []GraphExact
<1>1. ExactInv => GraphExact
  BY ExactInvMeans
<1> QED BY <1>1, ExactInvAlways, PTL

-----------------------------------------------------------------------------
(* Deriving the edges again: the hubs are there already, so nothing of the *)
(* graph moves before the edges are derived.                               *)
IsFun(f) == f = [x \in DOMAIN f |-> f[x]]
Maps(g) == IsFun(g.nodes) /\ IsFun(g.byName) /\ IsFun(g.byPackage) /\ IsFun(g.byFile) /\ IsFun(g.byFqcn)

LEMMA PurgeIsFun ==
  ASSUME NEW f, NEW keys, NEW ids
  PROVE  IsFun(Purge(f, keys, ids))
BY DEF IsFun, Purge

LEMMA EnterIsFun ==
  ASSUME NEW f, IsFun(f), NEW keys, NEW id
  PROVE  IsFun(Enter(f, keys, id))
<1>1. \A m, k : IsFun(Push(m, k, id))
  BY DEF IsFun, Push
<1> QED BY <1>1 DEF Enter

LEMMA RemoveMaps ==
  ASSUME NEW g, DOMAIN g = GraphFields, NEW ids
  PROVE  Maps(RemoveNodes(g, ids))
<1>1. IsFun([i \in DOMAIN g.nodes \ ids |-> g.nodes[i]])
  BY DEF IsFun
<1> QED BY <1>1, RemoveFields, PurgeIsFun DEF Maps

LEMMA AddNodeMaps ==
  ASSUME NEW g, DOMAIN g = GraphFields, Maps(g), NEW n
  PROVE  Maps(AddNode(g, n))
<1>1. IsFun([i \in DOMAIN g.nodes \cup {g.next} |-> IF i = g.next THEN n ELSE g.nodes[i]])
  BY DEF IsFun
<1> QED BY <1>1, AddNodeFields, EnterIsFun DEF Maps

(* Hubs take new ids: none of an earlier node comes back.                  *)
Later(g, h) == g.next <= h.next /\ \A i \in DOMAIN h.nodes : i < g.next => i \in DOMAIN g.nodes
LEMMA WithHubLater ==
  ASSUME NEW g, Sound(g), Maps(g), NEW k, NEW h, h = WithHub(g, k)
  PROVE  Maps(h) /\ Later(g, h)
<1>0. DOMAIN g = GraphFields /\ g.next \in Nat /\ DOMAIN g.nodes \subseteq 0..(g.next - 1)
  BY DEF Sound, Ided
<1>1. CASE h = g
  BY <1>0, <1>1 DEF Later
<1>2. CASE h = AddNode(g, HubNode(k))
  <2>1. Maps(h)
    BY <1>0, <1>2, AddNodeMaps
  <2>2. h.next = g.next + 1 /\ DOMAIN h.nodes = DOMAIN g.nodes \cup {g.next}
    <3> DEFINE n == HubNode(k)
    <3> HIDE DEF n
    <3>1. h = AddNode(g, n)
      BY <1>2 DEF n
    <3>2. h.next = g.next + 1
      BY ONLY <1>0, <3>1, AddNodeFields
    <3>3. h.nodes = [i \in DOMAIN g.nodes \cup {g.next} |-> IF i = g.next THEN n ELSE g.nodes[i]]
      BY ONLY <1>0, <3>1, AddNodeFields
    <3> QED BY <3>2, <3>3
  <2> QED BY <1>0, <2>1, <2>2 DEF Later
<1> QED BY <1>1, <1>2 DEF WithHub

LEMMA HubsKeptLater ==
  ASSUME NEW g, Sound(g), Maps(g)
  PROVE  Maps(WithHubsKept(g)) /\ Later(g, WithHubsKept(g))
<1>1. Len(Sorted) \in Nat
  BY GraphAssumption DEF IsList
<1>2. PICK F : /\ WithHubsKept(g) = F[Len(Sorted)]
               /\ \A i \in 0..Len(Sorted) :
                    F[i] = IF i = 0 THEN g ELSE IF Sorted[i] \in Topics(g) THEN WithHub(F[i - 1], Sorted[i]) ELSE F[i - 1]
  BY <1>1, GrownUnfolds
<1>0. g.next \in Nat
  BY DEF Sound, Ided
<1> DEFINE Fine(n) == Sound(F[n]) /\ Maps(F[n]) /\ Later(g, F[n])
<1>3. \A i \in 0..Len(Sorted) : Fine(i)
  <2> DEFINE T == {i \in 0..Len(Sorted) : ~Fine(i)}
  <2> SUFFICES ASSUME T # {} PROVE FALSE
    OBVIOUS
  <2>1. PICK j \in T : \A l \in T : j <= l
    <3>1. T \in SUBSET Nat
      BY <1>1
    <3> HIDE DEF T
    <3> QED BY <3>1, LeastNat
  <2>2. Fine(0)
    <3>1. F[0] = g
      BY <1>1, <1>2
    <3>2. Later(g, g)
      BY <1>0 DEF Later
    <3> QED BY <3>1, <3>2
  <2>3. j \in 0..Len(Sorted) /\ ~Fine(j) /\ j # 0
    BY <2>2
  <2>4. j - 1 \in 0..Len(Sorted) /\ j - 1 \notin T
    <3> HIDE DEF T
    <3> QED BY <1>1, <2>1, <2>3
  <2>5. Fine(j - 1)
    <3> HIDE DEF Fine
    <3> QED BY <2>4
  <2> DEFINE m == F[j - 1]
             h == F[j]
             k == Sorted[j]
  <2>6. h = WithHub(m, k) \/ h = m
    BY <1>2, <2>3
  <2>7. CASE h = WithHub(m, k)
    <3> HIDE DEF h, m, k
    <3>1. Sound(m) /\ Maps(m) /\ Later(g, m)
      BY <2>5 DEF m
    <3>2. Sound(h) /\ Maps(h) /\ Later(m, h)
      BY <2>7, <3>1, WithHubSound, WithHubLater
    <3>3. m.next \in Nat /\ h.next \in Nat /\ DOMAIN h.nodes \subseteq 0..(h.next - 1)
      BY <3>1, <3>2 DEF Sound, Ided
    <3>4. Later(g, h)
      BY <1>0, <3>1, <3>2, <3>3 DEF Later
    <3> QED BY <2>3, <3>2, <3>4 DEF h
  <2> QED BY <2>3, <2>5, <2>6, <2>7
<1> QED BY <1>1, <1>2, <1>3

LEMMA NothingGoes ==
  ASSUME NEW g, IsFun(g), DOMAIN g = GraphFields, Maps(g), NEW ids, ids = {}
  PROVE  RemoveNodes(g, ids) = g
<1> DEFINE r == RemoveNodes(g, ids)
<1>0. /\ DOMAIN r = GraphFields /\ r.next = g.next
      /\ r.nodes = [i \in DOMAIN g.nodes \ ids |-> g.nodes[i]]
      /\ r.byName = Purge(g.byName, GoneKeys(NamesIn(g), ids), ids)
      /\ r.byPackage = Purge(g.byPackage, GoneKeys(PackagesIn(g), ids), ids)
      /\ r.byFile = Purge(g.byFile, GoneKeys(FilesIn(g), ids), ids)
      /\ r.byFqcn = Purge(g.byFqcn, GoneKeys(FqcnsIn(g), ids), ids)
  BY RemoveFields
<1>1. r = [x \in DOMAIN r |-> r[x]]
  BY DEF RemoveNodes
<1>2. SameFacts(g, r)
  BY RemoveNodesFacts
<1>3. r.edges = g.edges /\ r.rpcNames = g.rpcNames
  BY DEF RemoveNodes, GraphFields
<1> HIDE DEF r
<1>4. ASSUME NEW f, IsFun(f), NEW keys PROVE Purge(f, GoneKeys(keys, ids), ids) = f
  <2>1. GoneKeys(keys, ids) = {}
    BY DEF GoneKeys
  <2> QED BY <1>4, <2>1 DEF IsFun, Purge
<1>5. r.byName = g.byName /\ r.byPackage = g.byPackage /\ r.byFile = g.byFile /\ r.byFqcn = g.byFqcn
  BY <1>0, <1>4 DEF Maps
<1>6. r.nodes = g.nodes
  <2>1. DOMAIN g.nodes \ ids = DOMAIN g.nodes
    OBVIOUS
  <2> QED BY <1>0, <2>1 DEF Maps, IsFun
<1>7. \A x \in GraphFields : r[x] = g[x]
  BY <1>0, <1>2, <1>3, <1>5, <1>6 DEF SameFacts, GraphFields
<1>8. r = [x \in GraphFields |-> g[x]]
  BY <1>0, <1>1, <1>7
<1> QED BY <1>8 DEF IsFun, r

LEMMA ReconciledMaps ==
  ASSUME HubsReserved, NEW b, NEW c, Held(b, c), Given(c), NEW r, r = ReconcileEdges(b)
  PROVE /\ IsFun(r) /\ DOMAIN r = GraphFields /\ Maps(r)
        /\ \A i \in StaleHubs(b) : i \notin DOMAIN r.nodes
<1> DEFINE stale == StaleHubs(b)
           p == RemoveNodes(b, stale)
           h == WithHubs(b)
<1>0. Sound(b) /\ DOMAIN b = GraphFields /\ b.next \in Nat /\ DOMAIN b.nodes \subseteq 0..(b.next - 1)
  BY DEF Held, Sound, Ided
<1>1. Held(p, c)
  BY StaleHubsGo
<1>2. p.nodes = [i \in DOMAIN b.nodes \ stale |-> b.nodes[i]] /\ p.next = b.next /\ Maps(p)
  BY <1>0, RemoveFields, RemoveMaps
<1>3. h = WithHubsKept(p)
  BY DEF WithHubs
<1>4. r = WithEdges(h, RpcNames(h), ImportEdges(b))
  BY DEF ReconcileEdges, Reconciled
<1>5. SameNodes(h, r) /\ Held(h, c)
  BY Reconciliation
<1>6. \A i \in stale : i \in DOMAIN b.nodes
  BY DEF StaleHubs
<1> HIDE DEF p, h, stale
<1>7. Maps(h) /\ Later(p, h)
  BY <1>1, <1>2, <1>3, HubsKeptLater DEF Held
<1>8. Maps(r) /\ DOMAIN r = GraphFields
  BY <1>5, <1>7 DEF Maps, SameNodes, Held, Sound, Ided
<1>9. \A i \in stale : i \notin DOMAIN r.nodes
  <2> TAKE i \in stale
  <2>1. i \in DOMAIN b.nodes /\ i < p.next /\ i \notin DOMAIN p.nodes
    BY <1>0, <1>2, <1>6
  <2> QED BY <2>1, <1>5, <1>7 DEF Later, SameNodes
<1>10. IsFun(r)
  BY <1>4 DEF WithEdges, IsFun
<1> QED BY <1>8, <1>9, <1>10 DEF stale

LEMMA HubsThere ==
  ASSUME HubsReserved, NEW g, NEW c, Held(g, c), Given(c), HubNames(g) = Topics(g), IsFun(g), Maps(g)
  PROVE  WithHubs(g) = g
<1> DEFINE stale == StaleHubs(g)
<1>1. stale = {}
  <2> SUFFICES ASSUME NEW i \in stale PROVE FALSE
    OBVIOUS
  <2>1. i \in DOMAIN g.nodes /\ g.nodes[i].pkg = Hub /\ g.nodes[i].kind \in StreamKinds /\ g.nodes[i].name \notin Topics(g)
    BY DEF StaleHubs
  <2> DEFINE k == g.nodes[i].name
  <2>2. g.nodes[i] = HubNode(k)
    BY <2>1, HubsOnly
  <2>3. k \notin Topics(g)
    BY <2>1
  <2> HIDE DEF k
  <2>4. i \in HubIds(g)
    BY <2>1, <2>2, HubFields DEF HubIds
  <2> QED BY <2>3, <2>4 DEF HubNames, k
<1>2. DOMAIN g = GraphFields
  BY DEF Held, Sound, Ided
<1>3. WithHubs(g) = WithHubsKept(g)
  <2> HIDE DEF stale
  <2>1. RemoveNodes(g, stale) = g
    BY <1>1, <1>2, NothingGoes
  <2> QED BY <2>1 DEF WithHubs, stale
<1> HIDE DEF stale
<1>4. Len(Sorted) \in Nat
  BY GraphAssumption DEF IsList
<1>5. PICK F : /\ WithHubsKept(g) = F[Len(Sorted)]
               /\ \A i \in 0..Len(Sorted) :
                    F[i] = IF i = 0 THEN g ELSE IF Sorted[i] \in Topics(g) THEN WithHub(F[i - 1], Sorted[i]) ELSE F[i - 1]
  BY <1>4, GrownUnfolds
<1>6. \A k \in Topics(g) : WithHub(g, k) = g
  BY HubsFound DEF WithHub
<1>7. \A i \in 0..Len(Sorted) : F[i] = g
  <2> DEFINE T == {i \in 0..Len(Sorted) : F[i] # g}
  <2> SUFFICES ASSUME T # {} PROVE FALSE
    OBVIOUS
  <2>1. PICK j \in T : \A l \in T : j <= l
    <3>1. T \in SUBSET Nat
      BY <1>4
    <3> HIDE DEF T
    <3> QED BY <3>1, LeastNat
  <2>2. j \in 0..Len(Sorted) /\ F[j] # g /\ j # 0
    BY <1>4, <1>5
  <2>3. j - 1 \in 0..Len(Sorted) /\ j - 1 \notin T
    <3> HIDE DEF T
    <3> QED BY <1>4, <2>1, <2>2
  <2>4. F[j - 1] = g
    BY <2>3
  <2> QED BY <1>5, <1>6, <2>2, <2>4
<1> QED BY <1>3, <1>4, <1>5, <1>7

(* No edge but an import depends on more than nodes, indices and facts.    *)
LEMMA SameRpcs ==
  ASSUME NEW g, NEW h, SameNodes(g, h), SameFacts(g, h)
  PROVE  RpcNames(h) = RpcNames(g) /\ \A names : ImplementsEdges(h, names) = ImplementsEdges(g, names)
<1>0. h.nodes = g.nodes /\ h.calls = g.calls
  BY DEF SameNodes, SameFacts
<1>1. ProtoMethods(h) = ProtoMethods(g) /\ Handlers(h) = Handlers(g) /\ \A k : Recorded(h, k) = Recorded(g, k)
  BY <1>0 DEF ProtoMethods, Handlers, Recorded
<1>2. ASSUME NEW e, NEW repo PROVE ResolveLiteralExpr(h, e, repo) = ResolveLiteralExpr(g, e, repo)
  <2> DEFINE Homonyms(x) == {c \in Recorded(x, "const") : c.by \in DOMAIN x.nodes /\ c.to.key = e.v}
             Close(x) == {c \in Homonyms(x) : x.nodes[c.by].repo = repo}
             Found(all, near) == IF e.lit THEN e.v ELSE OnlyValue({c.to.value : c \in IF near = {} THEN all ELSE near})
  <2>1. \A x : ResolveLiteralExpr(x, e, repo) = Found(Homonyms(x), Close(x))
    BY DEF ResolveLiteralExpr
  <2>2. Homonyms(h) = Homonyms(g)
    BY <1>0, <1>1
  <2> HIDE DEF Homonyms, Found
  <2>3. Close(h) = Close(g)
    BY <1>0, <2>2
  <2> HIDE DEF Close
  <2> QED BY <2>1, <2>2, <2>3
<1>3. \A c : HandlerRpcName(h, c) = HandlerRpcName(g, c)
  BY <1>0, <1>1, <1>2 DEF HandlerRpcName
<1>4. RpcNames(h) = RpcNames(g)
  <2> DEFINE Refs(x) == {c \in Recorded(x, "handler") : c.by \in DOMAIN x.nodes /\ HandlerRpcName(x, c) # <<>>}
             Of(refs) == [i \in {c.by : c \in refs} |-> HandlerRpcName(g, CHOOSE c \in refs : c.by = i)]
  <2>1. Refs(h) = Refs(g)
    BY <1>0, <1>1, <1>3
  <2>2. RpcNames(g) = Of(Refs(g))
    BY DEF RpcNames
  <2>3. RpcNames(h) = Of(Refs(h))
    BY <1>3 DEF RpcNames
  <2> HIDE DEF Refs, Of
  <2> QED BY <2>1, <2>2, <2>3
<1>5. \A names, i, p : ImplementsConf(h, names, i, p) = ImplementsConf(g, names, i, p)
  BY <1>0 DEF ImplementsConf
<1>6. \A names : ImplementsEdges(h, names) = ImplementsEdges(g, names)
  BY <1>0, <1>1, <1>5 DEF ImplementsEdges
<1> QED BY <1>4, <1>6

LEMMA SameCalls ==
  ASSUME NEW g, NEW h, SameNodes(g, h), SameFacts(g, h)
  PROVE  \A names : CallEdges(h, names) = CallEdges(g, names)
<1>0. h.nodes = g.nodes /\ h.calls = g.calls
  BY DEF SameNodes, SameFacts
<1>1. ProtoMethods(h) = ProtoMethods(g) /\ (\A k : Recorded(h, k) = Recorded(g, k)) /\ \A k : InPackage(h, k) = InPackage(g, k)
  BY <1>0 DEF ProtoMethods, Recorded, InPackage
<1>2. \A n : ByFqcn(h, n) = ByFqcn(g, n) /\ ByBare(h, n) = ByBare(g, n)
  BY <1>0, <1>1 DEF ByFqcn, ByBare
<1>3. \A caller, ids, conf, orphan : PickFor(h, caller, ids, conf, orphan) = PickFor(g, caller, ids, conf, orphan)
  BY <1>0, <1>1 DEF PickFor, PickByPackage
<1>4. \A caller, n : ResolveRpcTarget(h, caller, n) = ResolveRpcTarget(g, caller, n)
  BY <1>2, <1>3 DEF ResolveRpcTarget
<1>5. \A caller, n : ResolveClient(h, caller, n) = ResolveClient(g, caller, n)
  BY <1>0, <1>4 DEF ResolveClient
<1>6. ASSUME NEW c PROVE Inherited(h, c) = Inherited(g, c)
  <2> DEFINE Repo(x) == IF c.by \in DOMAIN x.nodes THEN x.nodes[c.by].repo ELSE NoRepo
             Bound(x) == {b \in Recorded(x, "field") : /\ b.by \in DOMAIN x.nodes
                                                       /\ x.nodes[b.by].name = c.to.base /\ b.to.field = c.to.field}
             Close(x) == {b \in Bound(x) : x.nodes[b.by].repo = Repo(x)}
             Answered(all, near) ==
               LET services == {b.to.service : b \in IF near = {} THEN all ELSE near}
                   real == services \ {<<>>}
                   guess == ServiceFromField(c.to.field)
               IN CASE services # {} /\ real = {} -> [n |-> <<>>, inferred |-> FALSE]
                    [] Cardinality(real) = 1 -> [n |-> OnlyValue(real) \o c.to.method, inferred |-> FALSE]
                    [] OTHER -> [n |-> IF guess = <<>> THEN <<>> ELSE guess \o c.to.method, inferred |-> TRUE]
  <2>1. \A x : Inherited(x, c) = Answered(Bound(x), Close(x))
    BY DEF Inherited
  <2>2. Bound(h) = Bound(g) /\ Repo(h) = Repo(g)
    BY <1>0, <1>1
  <2> HIDE DEF Bound, Repo, Answered
  <2>3. Close(h) = Close(g)
    BY <1>0, <2>2
  <2> HIDE DEF Close
  <2> QED BY <2>1, <2>2, <2>3
<1>7. \A names, i, n : Delegates(h, names, i, n) = Delegates(g, names, i, n)
  <2>1. \A names, i : Served(h, names, i) = Served(g, names, i)
    BY <1>1 DEF Served
  <2> QED BY <2>1 DEF Delegates
<1>8. \A names, c, n, inferred : MethodCall(h, names, c, n, inferred) = MethodCall(g, names, c, n, inferred)
  BY <1>2, <1>3, <1>7 DEF MethodCall
<1>9. \A names, c : CallTargets(h, names, c) = CallTargets(g, names, c)
  BY <1>5, <1>6, <1>8 DEF CallTargets
<1> SUFFICES ASSUME NEW names PROVE CallEdges(h, names) = CallEdges(g, names)
  OBVIOUS
<1> DEFINE From(x, j) ==
             LET c == x.calls[j] r == CallTargets(x, names, c) IN {Edge(c.by, t[1], "CallsRpc", r.n, t[2], j) : t \in r.to}
           All(x) == UNION {From(x, j) : j \in DOMAIN x.calls}
<1>10. \A x : CallEdges(x, names) = FirstWins(All(x))
  BY DEF CallEdges
<1>11. \A j : From(h, j) = From(g, j)
  BY <1>0, <1>9
<1> HIDE DEF From
<1>12. All(h) = All(g)
  BY <1>0, <1>11
<1> HIDE DEF All
<1> QED BY <1>10, <1>12

LEMMA SameTopics ==
  ASSUME NEW g, NEW h, SameNodes(g, h), SameFacts(g, h)
  PROVE  TopicEdges(h) = TopicEdges(g)
<1>0. /\ h.nodes = g.nodes /\ h.byName = g.byName /\ h.producers = g.producers /\ h.consumers = g.consumers
      /\ h.heuristic = g.heuristic
  BY DEF SameNodes, SameFacts
<1>1. Topics(h) = Topics(g) /\ (\A k : HubsOf(h, k) = HubsOf(g, k)) /\ \A i : TopicConf(h, i) = TopicConf(g, i)
  BY <1>0 DEF Topics, HubsOf, TopicConf
<1>2. \A k : DirectEdges(h, k) = DirectEdges(g, k)
  BY <1>0, <1>1 DEF DirectEdges
<1>3. \A k : Listens(h, k) = Listens(g, k) /\ Heard(h, k) = Heard(g, k)
  BY <1>0 DEF Listens, Heard
<1>4. \A k : WildcardEdgesUncapped(h, k) = WildcardEdgesUncapped(g, k)
  BY <1>0, <1>1, <1>3 DEF WildcardEdgesUncapped
<1>5. ASSUME NEW k PROVE WildcardEdges(h, k) = WildcardEdges(g, k)
  <2> DEFINE Capped(all, producers) ==
               LET at(e) == CHOOSE p \in DOMAIN producers[e.meta] :
                              producers[e.meta][p] = e.from /\ \A q \in 1..(p - 1) : producers[e.meta][q] # e.from
                   before(d, e) == d.rank < e.rank \/ (d.rank = e.rank /\ at(d) < at(e))
               IN {e \in all : Cardinality({d \in all : before(d, e)}) < WildcardCap}
  <2>1. \A x : WildcardEdges(x, k) = Capped(WildcardEdgesUncapped(x, k), x.producers)
    BY DEF WildcardEdges
  <2> HIDE DEF Capped
  <2> QED BY <1>0, <1>4, <2>1
<1> QED BY <1>1, <1>2, <1>5 DEF TopicEdges


(* An import's candidates: of the nodes two graphs agree on, both list the *)
(* same, in the same order.                                                *)
LEMMA ListedMore ==
  ASSUME NEW keys, NEW k, NEW n \in Nat, DOMAIN keys \subseteq 0..(n - 1), NEW m \in Nat, n <= m
  PROVE  Listed(keys, m, k) = Listed(keys, n, k)
<1> SUFFICES ASSUME Listed(keys, m, k) # Listed(keys, n, k) PROVE FALSE
  OBVIOUS
<1> DEFINE T == {j \in Nat : n <= j /\ Listed(keys, j, k) # Listed(keys, n, k)}
<1>1. PICK j \in T : \A l \in T : j <= l
  <2>1. T \in SUBSET Nat /\ T # {}
    OBVIOUS
  <2> HIDE DEF T
  <2> QED BY <2>1, LeastNat
<1>2. j \in Nat /\ n <= j /\ j # n /\ Listed(keys, j, k) # Listed(keys, n, k)
  OBVIOUS
<1>3. j - 1 \in Nat /\ n <= j - 1 /\ j - 1 \notin T /\ (j - 1) + 1 = j
  BY <1>1, <1>2
<1>4. Listed(keys, j - 1, k) = Listed(keys, n, k)
  BY <1>3
<1>5. Listed(keys, (j - 1) + 1, k) = Listed(keys, j - 1, k) \o Entry(keys, j - 1, k)
  BY <1>3, ListedNext
<1>6. Entry(keys, j - 1, k) = <<>>
  BY <1>3 DEF Entry
<1>7. Listed(keys, n, k) \o <<>> = Listed(keys, n, k)
  <2> DEFINE l == Listed(keys, n, k)
  <2>1. l \in Seq(Nat)
    BY ListedIsSeq
  <2> HIDE DEF l
  <2> QED BY <2>1 DEF l
<1> QED BY <1>2, <1>3, <1>4, <1>5, <1>6, <1>7

Just(keys, own) == [i \in DOMAIN keys \cap own |-> keys[i]]
LEMMA OnlyListed ==
  ASSUME NEW keys, NEW k, NEW n \in Nat, \A i \in DOMAIN keys : ShortKeys(keys[i]), NEW own
  PROVE  Only(Listed(keys, n, k), own) = Listed(Just(keys, own), n, k)
<1> DEFINE ids == Listed(keys, n, k)
           rest == ToSet(ids) \ own
<1>1. Only(ids, own) = Without(ids, rest)
  BY DEF Only
<1>2. ToSet(ids) = {i \in DOMAIN keys \cap 0..(n - 1) : k \in ToSet(keys[i])}
  BY ListedMembers
<1>3. \A i \in 0..(n - 1) : i \in rest <=> (i \in DOMAIN keys /\ k \in ToSet(keys[i]) /\ i \notin own)
  BY <1>2
<1> HIDE DEF rest
<1>4. Without(ids, rest) = Listed(Fewer(keys, rest), n, k)
  BY ListedLess
<1>5. ASSUME NEW i \in 0..(n - 1) PROVE Entry(Fewer(keys, rest), i, k) = Entry(Just(keys, own), i, k)
  <2>1. CASE i \notin DOMAIN keys
    BY <2>1 DEF Entry, Fewer, Just
  <2>2. CASE i \in DOMAIN keys /\ k \notin ToSet(keys[i])
    <3>1. \A p \in DOMAIN keys[i] : keys[i][p] # k
      BY <2>2 DEF ToSet
    <3>2. Entry(keys, i, k) = <<>>
      BY <3>1, <2>2 DEF Entry
    <3>3. Entry(Fewer(keys, rest), i, k) \in {<<>>, Entry(keys, i, k)}
      BY DEF Entry, Fewer
    <3>4. Entry(Just(keys, own), i, k) \in {<<>>, Entry(keys, i, k)}
      BY DEF Entry, Just
    <3> QED BY <3>2, <3>3, <3>4
  <2>3. CASE i \in DOMAIN keys /\ k \in ToSet(keys[i]) /\ i \in own
    <3>1. i \notin rest
      BY <1>3, <2>3
    <3> QED BY <2>3, <3>1 DEF Entry, Fewer, Just
  <2>4. CASE i \in DOMAIN keys /\ k \in ToSet(keys[i]) /\ i \notin own
    <3>1. i \in rest
      BY <1>3, <2>4
    <3> QED BY <2>4, <3>1 DEF Entry, Fewer, Just
  <2> QED BY <2>1, <2>2, <2>3, <2>4
<1>6. Listed(Fewer(keys, rest), n, k) = Listed(Just(keys, own), n, k)
  BY <1>5, ListedAlike
<1> QED BY <1>1, <1>4, <1>6

LEMMA OnlyAlike ==
  ASSUME NEW keys, NEW n \in Nat, DOMAIN keys \subseteq 0..(n - 1), \A i \in DOMAIN keys : ShortKeys(keys[i]),
         NEW other, NEW m \in Nat, DOMAIN other \subseteq 0..(m - 1), \A i \in DOMAIN other : ShortKeys(other[i]),
         NEW own, \A i \in own : i \in DOMAIN keys \/ i \in DOMAIN other => i \in DOMAIN keys /\ i \in DOMAIN other /\ keys[i] = other[i],
         NEW k
  PROVE  Only(Listed(keys, n, k), own) = Only(Listed(other, m, k), own)
<1> DEFINE just == Just(keys, own)
<1>1. Just(keys, own) = Just(other, own) /\ DOMAIN just \subseteq 0..(n - 1) /\ DOMAIN just \subseteq 0..(m - 1)
  BY DEF Just
<1>2. Only(Listed(keys, n, k), own) = Listed(just, n, k)
  BY OnlyListed
<1>3. Only(Listed(other, m, k), own) = Listed(just, m, k)
  BY <1>1, OnlyListed
<1> HIDE DEF just
<1>4. Listed(just, n, k) = Listed(just, m, k)
  <2>1. CASE n <= m
    BY <1>1, <2>1, ListedMore
  <2>2. CASE m <= n
    BY <1>1, <2>2, ListedMore
  <2> QED BY <2>1, <2>2
<1> QED BY <1>2, <1>3, <1>4

LEMMA OnlyWhole ==
  ASSUME NEW keys, NEW k, NEW n \in Nat, NEW own, ToSet(Listed(keys, n, k)) \subseteq own
  PROVE  Only(Listed(keys, n, k), own) = Listed(keys, n, k)
<1> DEFINE ids == Listed(keys, n, k)
           rest == ToSet(ids) \ own
<1>1. Only(ids, own) = Without(ids, rest) /\ rest = {}
  BY DEF Only
<1> HIDE DEF rest
<1>2. Without(ids, rest) = Listed(Fewer(keys, rest), n, k)
  BY ListedLess
<1>3. \A i \in 0..(n - 1) : Entry(Fewer(keys, rest), i, k) = Entry(keys, i, k)
  BY <1>1 DEF Entry, Fewer
<1>4. Listed(Fewer(keys, rest), n, k) = Listed(keys, n, k)
  BY <1>3, ListedAlike
<1> QED BY <1>1, <1>2, <1>4

LEMMA OnlyMembers ==
  ASSUME NEW ids \in Seq(Nat), NEW own
  PROVE  Only(ids, own) \in Seq(Nat) /\ ToSet(Only(ids, own)) = ToSet(ids) \cap own
<1> DEFINE rest == ToSet(ids) \ own
<1>1. Only(ids, own) = Without(ids, rest)
  BY DEF Only
<1> HIDE DEF rest
<1>2. Without(ids, rest) \in Seq(Nat) /\ ToSet(Without(ids, rest)) = ToSet(ids) \ rest
  BY WithoutMembers
<1> QED BY <1>1, <1>2 DEF rest

(* The candidates `pick_or_ambiguous` answers with are candidates.         *)
LEMMA PickFrom ==
  ASSUME NEW ids \in Seq(Nat), NEW own, NEW conf, NEW q \in Pick(ids, own, conf)
  PROVE  q[1] \in ToSet(ids)
<1> DEFINE same == Only(ids, own)
<1>1. same \in Seq(Nat) /\ ToSet(same) \subseteq ToSet(ids)
  BY OnlyMembers
<1>2. CASE Len(ids) = 1
  BY <1>2 DEF Pick, ToSet
<1>3. CASE Len(ids) # 1 /\ Len(same) = 1
  <2>1. q[1] = same[1]
    BY <1>3 DEF Pick
  <2> HIDE DEF same
  <2>2. same[1] \in ToSet(same)
    BY <1>1, <1>3 DEF ToSet
  <2> QED BY <1>1, <2>1, <2>2
<1>4. CASE Len(ids) # 1 /\ Len(same) # 1
  <2>1. q[1] \in ToSet(IF same = <<>> THEN ids ELSE same)
    BY <1>4 DEF Pick
  <2> QED BY <1>1, <2>1
<1> QED BY <1>2, <1>3, <1>4

(* Two answers alike: the same targets among the shared nodes, and the     *)
(* same altogether unless one has a target that is not shared.             *)
Agree(A, B, D) ==
  /\ \A i \in D : (\E q \in A : q[1] = i) <=> (\E q \in B : q[1] = i)
  /\ A = B \/ (\E q \in A \cup B : q[1] \notin D)

PickNear(near, conf) == IF Len(near) = 1 THEN {<<near[1], conf>>} ELSE {<<i, "ambiguous">> : i \in ToSet(near)}
LEMMA PickedNear ==
  ASSUME NEW ids \in Seq(Nat), NEW own, NEW conf
  PROVE  Pick(ids, own, conf) = PickNear(IF Only(ids, own) = <<>> THEN ids ELSE Only(ids, own), conf)
<1> DEFINE same == Only(ids, own)
<1>1. same \in Seq(Nat) /\ ToSet(same) \subseteq ToSet(ids)
  BY OnlyMembers
<1>2. Pick(ids, own, conf) =
        IF Len(ids) = 1 THEN {<<ids[1], conf>>}
        ELSE IF Len(same) = 1 THEN {<<same[1], conf>>} ELSE {<<i, "ambiguous">> : i \in ToSet(IF same = <<>> THEN ids ELSE same)}
  BY DEF Pick
<1>3. CASE Len(ids) = 1 /\ same # <<>>
  <2>1. ToSet(ids) = {ids[1]}
    BY <1>3 DEF ToSet
  <2> DEFINE x == ids[1]
             rest == ToSet(ids) \ own
             none == <<>>
  <2>2. x \in Nat /\ ids = Append(none, x) /\ none \in Seq(Nat)
    BY <1>3
  <2>3. x \notin rest
    <3>1. same[1] \in ToSet(same)
      BY <1>1, <1>3 DEF ToSet
    <3>2. ToSet(same) = ToSet(ids) \cap own
      BY OnlyMembers
    <3> HIDE DEF same
    <3> QED BY <2>1, <3>1, <3>2
  <2>4. same = ids
    <3>1. same = Without(ids, rest)
      BY DEF Only
    <3> HIDE DEF rest, same, x, none
    <3>2. Without(Append(none, x), rest) = Append(Without(none, rest), x)
      BY <2>2, <2>3, WithoutAppend
    <3>3. Without(none, rest) = none
      BY WithoutEmpty DEF none
    <3> QED BY <2>2, <3>1, <3>2, <3>3
  <2>5. Pick(ids, own, conf) = {<<x, conf>>}
    BY <1>2, <1>3
  <2>6. PickNear(ids, conf) = {<<x, conf>>}
    BY <1>3 DEF PickNear
  <2> QED BY <1>3, <2>4, <2>5, <2>6
<1>4. CASE Len(ids) = 1 /\ same = <<>>
  BY <1>2, <1>4 DEF PickNear
<1>5. CASE Len(ids) # 1 /\ same = <<>>
  <2>1. Len(same) # 1
    BY <1>5
  <2> HIDE DEF same
  <2> QED BY <1>2, <1>5, <2>1 DEF PickNear, same
<1>6. CASE Len(ids) # 1 /\ same # <<>>
  <2> HIDE DEF same
  <2> QED BY <1>2, <1>6 DEF PickNear, same
<1> QED BY <1>3, <1>4, <1>5, <1>6

Whole(ids, D) == ToSet(ids) \subseteq D => Only(ids, D) = ids
LEMMA PickAlike ==
  ASSUME NEW ids \in Seq(Nat), NEW jds \in Seq(Nat), NEW D, NEW own, own \subseteq D, Whole(ids, D), Whole(jds, D),
         Only(ids, own) = Only(jds, own), Only(ids, D) = Only(jds, D), NEW conf
  PROVE  Agree(Pick(ids, own, conf), Pick(jds, own, conf), D)
<1> DEFINE A == Pick(ids, own, conf)
           B == Pick(jds, own, conf)
<1> SUFFICES Agree(A, B, D)
  OBVIOUS
<1>1. CASE Only(ids, own) # <<>>
  <2>1. A = B
    BY <1>1, PickedNear
  <2> HIDE DEF A, B
  <2> QED BY <2>1 DEF Agree
<1>2. CASE Only(ids, own) = <<>>
  <2>1. A = PickNear(ids, conf) /\ B = PickNear(jds, conf)
    BY <1>2, PickedNear
  <2>2. ASSUME NEW s \in Seq(Nat) PROVE \A i : (\E q \in PickNear(s, conf) : q[1] = i) <=> i \in ToSet(s)
    <3>1. CASE Len(s) = 1
      <4>1. ToSet(s) = {s[1]} /\ PickNear(s, conf) = {<<s[1], conf>>}
        BY <3>1 DEF ToSet, PickNear
      <4> QED BY <4>1
    <3>2. CASE Len(s) # 1
      <4>1. PickNear(s, conf) = {<<i, "ambiguous">> : i \in ToSet(s)}
        BY <3>2 DEF PickNear
      <4>2. \A i : <<i, "ambiguous">>[1] = i
        OBVIOUS
      <4>3. \A q \in PickNear(s, conf) : q[1] \in ToSet(s)
        BY <4>1
      <4>4. \A i \in ToSet(s) : <<i, "ambiguous">> \in PickNear(s, conf)
        BY <4>1
      <4> QED BY <4>2, <4>3, <4>4
    <3> QED BY <3>1, <3>2
  <2> HIDE DEF A, B
  <2>3. (\A i : (\E q \in A : q[1] = i) <=> i \in ToSet(ids)) /\ \A i : (\E q \in B : q[1] = i) <=> i \in ToSet(jds)
    BY <2>1, <2>2
  <2>4. ToSet(ids) \cap D = ToSet(jds) \cap D
    BY OnlyMembers
  <2>5. CASE ToSet(ids) \subseteq D /\ ToSet(jds) \subseteq D
    <3>1. ids = jds
      BY <2>5 DEF Whole
    <3> QED BY <2>1, <3>1 DEF Agree
  <2>6. CASE ~(ToSet(ids) \subseteq D /\ ToSet(jds) \subseteq D)
    <3>1. PICK i : i \in ToSet(ids) \cup ToSet(jds) /\ i \notin D
      BY <2>6
    <3>2. \E q \in A \cup B : q[1] \notin D
      BY <2>3, <3>1
    <3> QED BY <2>3, <2>4, <3>2 DEF Agree
  <2> QED BY <2>5, <2>6
<1> QED BY <1>1, <1>2

LEMMA IndexBucket ==
  ASSUME NEW f, NEW keys, NEW n \in Nat, Exact(f, keys, n), DOMAIN keys \subseteq 0..(n - 1),
         \A i \in DOMAIN keys : ShortKeys(keys[i]), NEW k
  PROVE /\ Bucket(f, k) \in Seq(Nat) /\ Bucket(f, k) = Listed(keys, n, k)
        /\ ToSet(Bucket(f, k)) = {i \in DOMAIN keys : k \in ToSet(keys[i])}
        /\ \A D : Whole(Bucket(f, k), D)
        /\ k \in DOMAIN f <=> Bucket(f, k) # <<>>
<1>1. Bucket(f, k) = Listed(keys, n, k)
  BY DEF Exact
<1>2. ToSet(Listed(keys, n, k)) = {i \in DOMAIN keys \cap 0..(n - 1) : k \in ToSet(keys[i])} /\ Listed(keys, n, k) \in Seq(Nat)
  BY ListedMembers, ListedIsSeq
<1>3. ASSUME NEW D PROVE Whole(Bucket(f, k), D)
  BY <1>1, OnlyWhole DEF Whole
<1>4. k \in DOMAIN f <=> Bucket(f, k) # <<>>
  BY DEF Exact, Bucket
<1> QED BY <1>1, <1>2, <1>3, <1>4

OfFiles(g) == {i \in DOMAIN g.nodes : g.nodes[i].file \in ToSet(Files)}
LEMMA SoundBuckets ==
  ASSUME NEW g, Sound(g), NEW k
  PROVE /\ \A f \in {g.byName, g.byPackage, g.byFqcn} :
             /\ Bucket(f, k) \in Seq(Nat) /\ ToSet(Bucket(f, k)) \subseteq DOMAIN g.nodes
             /\ \A D : Whole(Bucket(f, k), D)
             /\ k \in DOMAIN f <=> Bucket(f, k) # <<>>
        /\ \A i \in ToSet(Bucket(g.byPackage, k)) : g.nodes[i].pkg = k
        /\ \A i \in ToSet(Bucket(g.byFqcn, k)) : k = <<g.nodes[i].pkg, g.nodes[i].name>>
<1>0. g.next \in Nat /\ DOMAIN g.nodes \subseteq 0..(g.next - 1)
  BY DEF Sound, Ided
<1>1. /\ DOMAIN NamesIn(g) = DOMAIN g.nodes /\ DOMAIN PackagesIn(g) = DOMAIN g.nodes /\ DOMAIN FqcnsIn(g) = DOMAIN g.nodes
      /\ \A i \in DOMAIN g.nodes : /\ NamesIn(g)[i] = NameKeys(g.nodes[i]) /\ PackagesIn(g)[i] = PackageKeys(g.nodes[i])
                                    /\ FqcnsIn(g)[i] = FqcnKeys(g.nodes[i])
  BY DEF NamesIn, PackagesIn, FqcnsIn
<1>2. \A i \in DOMAIN g.nodes : ShortKeys(NamesIn(g)[i]) /\ ShortKeys(PackagesIn(g)[i]) /\ ShortKeys(FqcnsIn(g)[i])
  BY <1>1, KeysAreShort
<1>3. /\ Exact(g.byName, NamesIn(g), g.next) /\ Exact(g.byPackage, PackagesIn(g), g.next) /\ Exact(g.byFqcn, FqcnsIn(g), g.next)
  BY DEF Sound, Indexed
<1> DEFINE Tells(f, keys) ==
             /\ Bucket(f, k) \in Seq(Nat) /\ ToSet(Bucket(f, k)) = {i \in DOMAIN g.nodes : k \in ToSet(keys[i])}
             /\ \A D : Whole(Bucket(f, k), D)
             /\ k \in DOMAIN f <=> Bucket(f, k) # <<>>
<1>4. Tells(g.byName, NamesIn(g))
  BY <1>0, <1>1, <1>2, <1>3, IndexBucket
<1>5. Tells(g.byPackage, PackagesIn(g))
  BY <1>0, <1>1, <1>2, <1>3, IndexBucket
<1>6. Tells(g.byFqcn, FqcnsIn(g))
  BY <1>0, <1>1, <1>2, <1>3, IndexBucket
<1>7. \A i \in ToSet(Bucket(g.byPackage, k)) : g.nodes[i].pkg = k
  <2> TAKE i \in ToSet(Bucket(g.byPackage, k))
  <2>1. i \in DOMAIN g.nodes /\ k \in ToSet(PackageKeys(g.nodes[i]))
    BY <1>1, <1>5
  <2> QED BY <2>1 DEF PackageKeys, ToSet
<1>8. \A i \in ToSet(Bucket(g.byFqcn, k)) : k = <<g.nodes[i].pkg, g.nodes[i].name>>
  <2> TAKE i \in ToSet(Bucket(g.byFqcn, k))
  <2>1. i \in DOMAIN g.nodes /\ k \in ToSet(FqcnKeys(g.nodes[i]))
    BY <1>1, <1>6
  <2> QED BY <2>1 DEF FqcnKeys, ToSet
<1> QED BY <1>4, <1>5, <1>6, <1>7, <1>8

LEMMA SharedBuckets ==
  ASSUME NEW g, NEW h, Sound(g), Sound(h), Stands(g, h), NEW own, own \subseteq OfFiles(g), NEW k
  PROVE /\ Only(Bucket(g.byName, k), own) = Only(Bucket(h.byName, k), own)
        /\ Only(Bucket(g.byPackage, k), own) = Only(Bucket(h.byPackage, k), own)
        /\ Only(Bucket(g.byFqcn, k), own) = Only(Bucket(h.byFqcn, k), own)
<1> DEFINE Bucketed(x) ==
             /\ x.next \in Nat /\ DOMAIN x.nodes \subseteq 0..(x.next - 1)
             /\ DOMAIN NamesIn(x) = DOMAIN x.nodes /\ DOMAIN PackagesIn(x) = DOMAIN x.nodes /\ DOMAIN FqcnsIn(x) = DOMAIN x.nodes
             /\ \A i \in DOMAIN x.nodes : /\ NamesIn(x)[i] = NameKeys(x.nodes[i]) /\ PackagesIn(x)[i] = PackageKeys(x.nodes[i])
                                           /\ FqcnsIn(x)[i] = FqcnKeys(x.nodes[i])
             /\ \A i \in DOMAIN x.nodes : ShortKeys(NamesIn(x)[i]) /\ ShortKeys(PackagesIn(x)[i]) /\ ShortKeys(FqcnsIn(x)[i])
             /\ Bucket(x.byName, k) = Listed(NamesIn(x), x.next, k)
             /\ Bucket(x.byPackage, k) = Listed(PackagesIn(x), x.next, k)
             /\ Bucket(x.byFqcn, k) = Listed(FqcnsIn(x), x.next, k)
<1>1. ASSUME NEW x, Sound(x) PROVE Bucketed(x)
  <2>1. x.next \in Nat /\ DOMAIN x.nodes \subseteq 0..(x.next - 1)
    BY <1>1 DEF Sound, Ided
  <2>2. /\ DOMAIN NamesIn(x) = DOMAIN x.nodes /\ DOMAIN PackagesIn(x) = DOMAIN x.nodes /\ DOMAIN FqcnsIn(x) = DOMAIN x.nodes
        /\ \A i \in DOMAIN x.nodes : /\ NamesIn(x)[i] = NameKeys(x.nodes[i]) /\ PackagesIn(x)[i] = PackageKeys(x.nodes[i])
                                      /\ FqcnsIn(x)[i] = FqcnKeys(x.nodes[i])
    BY DEF NamesIn, PackagesIn, FqcnsIn
  <2>3. \A i \in DOMAIN x.nodes : ShortKeys(NamesIn(x)[i]) /\ ShortKeys(PackagesIn(x)[i]) /\ ShortKeys(FqcnsIn(x)[i])
    BY <2>2, KeysAreShort
  <2> QED BY <1>1, <2>1, <2>2, <2>3 DEF Sound, Indexed, Exact
<1>2. Bucketed(g) /\ Bucketed(h)
  BY <1>1
<1>3. \A i \in own : i \in DOMAIN g.nodes /\ i \in DOMAIN h.nodes /\ g.nodes[i] = h.nodes[i]
  BY DEF Stands, OfFiles
<1>4. Only(Bucket(g.byName, k), own) = Only(Bucket(h.byName, k), own)
  <2>1. \A i \in own : i \in DOMAIN NamesIn(g) /\ i \in DOMAIN NamesIn(h) /\ NamesIn(g)[i] = NamesIn(h)[i]
    BY <1>2, <1>3
  <2> QED BY <1>2, <2>1, OnlyAlike
<1>5. Only(Bucket(g.byPackage, k), own) = Only(Bucket(h.byPackage, k), own)
  <2>1. \A i \in own : i \in DOMAIN PackagesIn(g) /\ i \in DOMAIN PackagesIn(h) /\ PackagesIn(g)[i] = PackagesIn(h)[i]
    BY <1>2, <1>3
  <2> QED BY <1>2, <2>1, OnlyAlike
<1>6. Only(Bucket(g.byFqcn, k), own) = Only(Bucket(h.byFqcn, k), own)
  <2>1. \A i \in own : i \in DOMAIN FqcnsIn(g) /\ i \in DOMAIN FqcnsIn(h) /\ FqcnsIn(g)[i] = FqcnsIn(h)[i]
    BY <1>2, <1>3
  <2> QED BY <1>2, <2>1, OnlyAlike
<1> QED BY <1>4, <1>5, <1>6

(* What is not of a file is a hub, listed under its own name alone.        *)
LEMMA NotOfFiles ==
  ASSUME NEW g, NEW c, Held(g, c), NEW i \in DOMAIN g.nodes, i \notin OfFiles(g)
  PROVE /\ i \in HubIds(g) /\ g.nodes[i].pkg = Hub /\ g.nodes[i].repo = NoRepo /\ g.nodes[i].name \in TopicKeys
        /\ ToSet(NameKeys(g.nodes[i])) = {g.nodes[i].name}
<1> DEFINE k == g.nodes[i].name
<1>1. g.nodes[i] = HubNode(k) /\ Lower(k) = k /\ k \in TopicKeys
  BY DEF Held, Placed, OfFiles
<1> HIDE DEF k
<1>2. g.nodes[i].pkg = Hub /\ g.nodes[i].repo = NoRepo /\ g.nodes[i].file = HubFile /\ g.nodes[i].kind = "EventStream"
  BY <1>1 DEF HubNode
<1>3. NameKeys(g.nodes[i]) = <<k, k>>
  BY <1>1, <1>2 DEF NameKeys, StreamKinds, k
<1>4. ToSet(<<k, k>>) = {k}
  BY DEF ToSet
<1> QED BY <1>1, <1>2, <1>3, <1>4 DEF HubIds, k

LEMMA OwnParts ==
  ASSUME NEW g, NEW h, NEW c, Held(g, c), Held(h, c), Given(c), Stands(g, h)
  PROVE /\ OfFiles(h) = OfFiles(g)
        /\ \A repo : repo # NoRepo => InRepo(h, repo) = InRepo(g, repo) /\ InRepo(g, repo) \subseteq OfFiles(g)
        /\ \A pkg : pkg # Hub => InPackage(h, pkg) = InPackage(g, pkg) /\ InPackage(g, pkg) \subseteq OfFiles(g)
<1>1. ASSUME NEW x, Held(x, c), NEW i \in DOMAIN x.nodes, i \notin OfFiles(x)
      PROVE x.nodes[i].repo = NoRepo /\ x.nodes[i].pkg = Hub
  BY <1>1, NotOfFiles
<1>2. OfFiles(h) = OfFiles(g) /\ \A i \in OfFiles(g) : i \in DOMAIN g.nodes /\ i \in DOMAIN h.nodes /\ h.nodes[i] = g.nodes[i]
  BY DEF OfFiles, Stands
<1>3. ASSUME NEW repo, repo # NoRepo PROVE InRepo(h, repo) = InRepo(g, repo) /\ InRepo(g, repo) \subseteq OfFiles(g)
  <2>1. InRepo(g, repo) \subseteq OfFiles(g) /\ InRepo(h, repo) \subseteq OfFiles(h)
    BY <1>1, <1>3 DEF InRepo
  <2> QED BY <1>2, <2>1 DEF InRepo
<1>4. ASSUME NEW pkg, pkg # Hub PROVE InPackage(h, pkg) = InPackage(g, pkg) /\ InPackage(g, pkg) \subseteq OfFiles(g)
  <2>1. InPackage(g, pkg) \subseteq OfFiles(g) /\ InPackage(h, pkg) \subseteq OfFiles(h)
    BY <1>1, <1>4 DEF InPackage
  <2> QED BY <1>2, <2>1 DEF InPackage
<1> QED BY <1>2, <1>3, <1>4

(* What else a qualified name can be found by is never a hub.              *)
LEMMA FilesBuckets ==
  ASSUME NEW g, NEW c, Held(g, c), Given(c), NEW k
  PROVE /\ k # Hub => ToSet(Bucket(g.byPackage, k)) \subseteq OfFiles(g)
        /\ \A p, n : k = <<p, n>> /\ p # Hub => ToSet(Bucket(g.byFqcn, k)) \subseteq OfFiles(g)
        /\ k \in DOMAIN g.byPackage /\ k # Hub => k \in PackageNames
<1>0. Sound(g)
  BY DEF Held
<1>1. /\ ToSet(Bucket(g.byPackage, k)) \subseteq DOMAIN g.nodes /\ ToSet(Bucket(g.byFqcn, k)) \subseteq DOMAIN g.nodes
      /\ \A i \in ToSet(Bucket(g.byPackage, k)) : g.nodes[i].pkg = k
      /\ \A i \in ToSet(Bucket(g.byFqcn, k)) : k = <<g.nodes[i].pkg, g.nodes[i].name>>
      /\ k \in DOMAIN g.byPackage => Bucket(g.byPackage, k) # <<>>
      /\ Bucket(g.byPackage, k) \in Seq(Nat)
  BY <1>0, SoundBuckets
<1>2. \A i \in DOMAIN g.nodes : i \notin OfFiles(g) => g.nodes[i].pkg = Hub
  BY NotOfFiles
<1>3. k # Hub => ToSet(Bucket(g.byPackage, k)) \subseteq OfFiles(g)
  BY <1>1, <1>2
<1>4. ASSUME NEW p, NEW n, k = <<p, n>>, p # Hub PROVE ToSet(Bucket(g.byFqcn, k)) \subseteq OfFiles(g)
  BY <1>1, <1>2, <1>4
<1>5. ASSUME k \in DOMAIN g.byPackage, k # Hub PROVE k \in PackageNames
  <2> DEFINE s == Bucket(g.byPackage, k)
             i == s[1]
  <2>1. s # <<>> /\ s \in Seq(Nat)
    BY <1>1, <1>5
  <2> HIDE DEF s
  <2>2. i \in ToSet(s)
    BY <2>1 DEF ToSet
  <2> HIDE DEF i
  <2>3. i \in OfFiles(g) /\ g.nodes[i].pkg = k
    BY <1>1, <1>3, <1>5, <2>2 DEF s
  <2>4. i \in DOMAIN g.nodes /\ g.nodes[i].file \in ToSet(Files)
    BY <2>3 DEF OfFiles
  <2> DEFINE f == g.nodes[i].file
             x == c[f]
  <2>5. x \in DOMAIN Extracted /\ \E j \in DOMAIN Extracted[x].nodes : g.nodes[i] = Located(Extracted[x].nodes[j], f)
    BY <2>4, NodeOwned
  <2> HIDE DEF x, f
  <2>6. PICK j \in DOMAIN Extracted[x].nodes : g.nodes[i] = Located(Extracted[x].nodes[j], f)
    BY <2>5
  <2>7. Extracted[x].nodes[j].pkg = k
    BY <2>3, <2>5, <2>6, LocatedFields
  <2>8. Extracted[x].nodes[j] \in ToSet(Extracted[x].nodes)
    BY DEF ToSet
  <2> QED BY <2>5, <2>7, <2>8 DEF PackageNames
<1> QED BY <1>3, <1>4, <1>5

(* `resolve_import_targets` of a name, from the lists it looks at.         *)
NameAnswer(q, first, fq, known, near, named, pk, own) ==
  IF q /\ first # <<>> THEN {<<first[1], "exact">>}
  ELSE IF q /\ fq # <<>> THEN Pick(fq, own, "exact")
  ELSE IF known THEN IF near = <<>> THEN {} ELSE Pick(near, own, "heuristic")
  ELSE IF named # <<>> THEN Pick(named, own, "heuristic")
  ELSE IF q /\ pk # <<>> THEN Pick(pk, own, "heuristic")
  ELSE {}
LEMMA NameAnswered ==
  ASSUME NEW g, Sound(g), NEW n, NEW repo
  PROVE  ResolveName(g, n, repo) =
           NameAnswer(Qualified(n), FirstOfPackage(g, n), Bucket(g.byFqcn, <<PkgOf(n), BareOf(n)>>), n \in Builtins,
                      Only(Bucket(g.byName, n), InRepo(g, repo)), Bucket(g.byName, n), Bucket(g.byPackage, n), InRepo(g, repo))
<1> DEFINE key == <<PkgOf(n), BareOf(n)>>
           fq == Bucket(g.byFqcn, key)
           pk == Bucket(g.byPackage, n)
           named == Bucket(g.byName, n)
           own == InRepo(g, repo)
           near == Only(named, own)
           first == FirstOfPackage(g, n)
           q == Qualified(n)
           known == n \in Builtins
<1>1. (key \in DOMAIN g.byFqcn <=> fq # <<>>) /\ (n \in DOMAIN g.byPackage <=> pk # <<>>)
  BY SoundBuckets
<1>2. (key \in DOMAIN g.byFqcn => g.byFqcn[key] = fq) /\ (n \in DOMAIN g.byPackage => g.byPackage[n] = pk)
  BY DEF Bucket
<1>3. ResolveName(g, n, repo) =
        IF q /\ first # <<>> THEN {<<first[1], "exact">>}
        ELSE IF q /\ key \in DOMAIN g.byFqcn THEN Pick(g.byFqcn[key], own, "exact")
        ELSE IF known THEN IF near = <<>> THEN {} ELSE Pick(near, own, "heuristic")
        ELSE IF named # <<>> THEN Pick(named, own, "heuristic")
        ELSE IF q /\ n \in DOMAIN g.byPackage THEN Pick(g.byPackage[n], own, "heuristic")
        ELSE {}
  BY DEF ResolveName, PickByRepo
<1> HIDE DEF key, fq, pk, named, own, near, first, q, known
<1>4. ResolveName(g, n, repo) = NameAnswer(q, first, fq, known, near, named, pk, own)
  BY <1>1, <1>2, <1>3 DEF NameAnswer
<1> QED BY <1>4 DEF key, fq, pk, named, own, near, first, q, known

(* No import is answered by a hub but the one it is spelt like, and what   *)
(* else it is answered by does not depend on the hubs there are.           *)
Apart(t) == ~t.rel /\ Qualified(t.n) => PkgOf(t.n) # Hub /\ ~(t.n \in TopicKeys /\ t.n \in PackageNames)
LEMMA NotHub ==
  ASSUME NEW n, Qualified(n)
  PROVE  n # Hub
<1> DEFINE l == Len(n)
<1>1. Len(Hub) = 1
  BY DEF Hub
<1>2. l > 1
  BY DEF Qualified
<1> SUFFICES ASSUME n = Hub PROVE FALSE
  OBVIOUS
<1>3. l = 1
  BY <1>1
<1> HIDE DEF l
<1> QED BY ONLY <1>2, <1>3

LEMMA HubAnswers ==
  ASSUME NEW g, NEW c, Held(g, c), Given(c), NEW t, Apart(t), NEW imp, imp.repo # NoRepo,
         NEW r \in ResolveImportTargets(g, t, imp), r[1] \notin OfFiles(g)
  PROVE  r[1] \in HubIds(g) /\ g.nodes[r[1]].name = t.n
<1> DEFINE n == t.n
           own == InRepo(g, imp.repo)
           named == Bucket(g.byName, n)
           D == OfFiles(g)
<1>0. Sound(g) /\ Stands(g, g)
  BY DEF Held, Stands
<1>1. own \subseteq D /\ \A pkg : pkg # Hub => InPackage(g, pkg) \subseteq D
  BY <1>0, OwnParts
<1>2. \A k : Bucket(g.byName, k) \in Seq(Nat) /\ Bucket(g.byFqcn, k) \in Seq(Nat) /\ Bucket(g.byPackage, k) \in Seq(Nat)
  BY <1>0, SoundBuckets
<1>3. ASSUME NEW ids \in Seq(Nat), ToSet(ids) \subseteq D, NEW part, NEW conf PROVE r \notin Pick(ids, part, conf)
  <2> SUFFICES ASSUME r \in Pick(ids, part, conf) PROVE FALSE
    OBVIOUS
  <2>1. r[1] \in ToSet(ids)
    BY PickFrom
  <2> QED BY <1>3, <2>1
<1>4. ASSUME NEW k, NEW part, part \subseteq D
      PROVE Only(Bucket(g.byName, k), part) \in Seq(Nat) /\ ToSet(Only(Bucket(g.byName, k), part)) \subseteq D
  BY <1>2, <1>4, OnlyMembers
<1>5. ~t.rel
  <2> SUFFICES ASSUME t.rel PROVE FALSE
    OBVIOUS
  <2> DEFINE part == {i \in own : Attr[imp.file].script => g.nodes[i].file = t.file}
             near == Only(named, part)
  <2>1. r \in Pick(near, own, "heuristic")
    BY DEF ResolveImportTargets, ResolveRelative, PickByRepo
  <2>2. part \subseteq D
    BY <1>1
  <2> HIDE DEF part, own, D
  <2>3. near \in Seq(Nat) /\ ToSet(near) \subseteq D
    BY <1>4, <2>2
  <2> HIDE DEF near
  <2> QED BY <1>3, <2>1, <2>3
<1> DEFINE q == Qualified(n)
           first == FirstOfPackage(g, n)
           fq == Bucket(g.byFqcn, <<PkgOf(n), BareOf(n)>>)
           near == Only(named, own)
           pk == Bucket(g.byPackage, n)
           known == n \in Builtins
<1>6. r \in NameAnswer(q, first, fq, known, near, named, pk, own)
  <2>1. r \in ResolveName(g, n, imp.repo)
    BY <1>5 DEF ResolveImportTargets
  <2> QED BY <1>0, <2>1, NameAnswered
<1>7. q => /\ first \in Seq(Nat) /\ ToSet(first) \subseteq D
           /\ fq \in Seq(Nat) /\ ToSet(fq) \subseteq D
           /\ pk \in Seq(Nat) /\ ToSet(pk) \subseteq D
  <2> SUFFICES ASSUME q PROVE /\ first \in Seq(Nat) /\ ToSet(first) \subseteq D
                              /\ fq \in Seq(Nat) /\ ToSet(fq) \subseteq D
                              /\ pk \in Seq(Nat) /\ ToSet(pk) \subseteq D
    OBVIOUS
  <2>1. PkgOf(n) # Hub /\ n # Hub
    BY <1>5, NotHub DEF Apart
  <2>2. first \in Seq(Nat) /\ ToSet(first) \subseteq D
    BY <1>1, <1>4, <2>1 DEF FirstOfPackage
  <2>3. ToSet(fq) \subseteq D /\ ToSet(pk) \subseteq D
    BY <2>1, FilesBuckets
  <2> QED BY <1>2, <2>2, <2>3
<1>8. near \in Seq(Nat) /\ ToSet(near) \subseteq D /\ named \in Seq(Nat)
  BY <1>1, <1>2, <1>4
<1>9. r \in Pick(named, own, "heuristic")
  <2> HIDE DEF named, own, D, q, first, fq, near, pk, known
  <2>1. CASE q /\ first # <<>>
    <3>1. r = <<first[1], "exact">>
      BY <1>6, <2>1 DEF NameAnswer
    <3>2. first[1] \in ToSet(first)
      BY <1>7, <2>1 DEF ToSet
    <3>3. r[1] = first[1] /\ r[1] \notin D
      BY <3>1 DEF D
    <3> QED BY <1>7, <2>1, <3>2, <3>3
  <2>2. CASE ~(q /\ first # <<>>) /\ q /\ fq # <<>>
    BY <1>3, <1>6, <1>7, <2>2 DEF NameAnswer
  <2>3. CASE ~(q /\ first # <<>>) /\ ~(q /\ fq # <<>>)
    BY <1>3, <1>6, <1>7, <1>8, <2>3 DEF NameAnswer
  <2> QED BY <2>1, <2>2, <2>3
<1>10. r[1] \in ToSet(named)
  BY <1>8, <1>9, PickFrom
<1>11. r[1] \in DOMAIN g.nodes /\ n \in ToSet(NameKeys(g.nodes[r[1]]))
  BY <1>0, <1>10, NamedNodes
<1> HIDE DEF n
<1>12. r[1] \in HubIds(g) /\ g.nodes[r[1]].name = n
  BY <1>11, NotOfFiles
<1> QED BY <1>12 DEF n

LEMMA ResolveAlike ==
  ASSUME NEW g, NEW h, NEW c, Held(g, c), Held(h, c), Given(c), Stands(g, h), NEW t, Apart(t), NEW imp, imp.repo # NoRepo
  PROVE  Agree(ResolveImportTargets(g, t, imp), ResolveImportTargets(h, t, imp), OfFiles(g))
<1> DEFINE n == t.n
           own == InRepo(g, imp.repo)
           D == OfFiles(g)
           A == ResolveImportTargets(g, t, imp)
           B == ResolveImportTargets(h, t, imp)
<1> SUFFICES Agree(A, B, D)
  OBVIOUS
<1>0. Sound(g) /\ Sound(h)
  BY DEF Held
<1>1. /\ InRepo(h, imp.repo) = own /\ own \subseteq D /\ OfFiles(h) = D
      /\ \A pkg : pkg # Hub => InPackage(h, pkg) = InPackage(g, pkg) /\ InPackage(g, pkg) \subseteq D
  BY OwnParts
<1>2. ASSUME NEW part, part \subseteq D, NEW k
      PROVE /\ Only(Bucket(g.byName, k), part) = Only(Bucket(h.byName, k), part)
            /\ Only(Bucket(g.byPackage, k), part) = Only(Bucket(h.byPackage, k), part)
            /\ Only(Bucket(g.byFqcn, k), part) = Only(Bucket(h.byFqcn, k), part)
  BY <1>0, <1>2, SharedBuckets
<1>3. ASSUME A = B PROVE Agree(A, B, D)
  <2> HIDE DEF A, B
  <2> QED BY <1>3 DEF Agree
<1>4. CASE t.rel
  <2> DEFINE part(x) == {i \in InRepo(x, imp.repo) : Attr[imp.file].script => x.nodes[i].file = t.file}
             near(x) == Only(Bucket(x.byName, n), part(x))
  <2>1. part(h) = part(g) /\ part(g) \subseteq D
    <3>1. \A i \in own : i \in DOMAIN g.nodes /\ g.nodes[i].file \in ToSet(Files)
      BY <1>1 DEF OfFiles
    <3>2. \A i \in own : h.nodes[i] = g.nodes[i]
      BY <3>1 DEF Stands
    <3> QED BY <1>1, <3>2
  <2> HIDE DEF part, D
  <2>2. near(h) = near(g)
    BY <1>2, <2>1
  <2>3. A = IF near(g) = <<>> THEN {} ELSE Pick(near(g), own, "heuristic")
    BY <1>4 DEF ResolveImportTargets, ResolveRelative, PickByRepo, part
  <2>4. B = IF near(h) = <<>> THEN {} ELSE Pick(near(h), InRepo(h, imp.repo), "heuristic")
    BY <1>4 DEF ResolveImportTargets, ResolveRelative, PickByRepo, part
  <2> HIDE DEF near, own
  <2>5. A = B
    BY <1>1, <2>2, <2>3, <2>4
  <2> QED BY <1>3, <2>5 DEF D
<1>5. CASE ~t.rel
  <2> DEFINE q == Qualified(n)
             key == <<PkgOf(n), BareOf(n)>>
             first(x) == FirstOfPackage(x, n)
             fq(x) == Bucket(x.byFqcn, key)
             named(x) == Bucket(x.byName, n)
             near(x) == Only(named(x), own)
             pk(x) == Bucket(x.byPackage, n)
             known == n \in Builtins
             P(x) == Pick(named(x), own, "heuristic")
  <2>1. A = NameAnswer(q, first(g), fq(g), known, near(g), named(g), pk(g), own)
    BY <1>0, <1>5, NameAnswered DEF ResolveImportTargets
  <2>2. B = NameAnswer(q, first(h), fq(h), known, near(h), named(h), pk(h), own)
    BY <1>0, <1>1, <1>5, NameAnswered DEF ResolveImportTargets
  <2>3. near(h) = near(g)
    BY <1>1, <1>2
  <2>4. q => first(h) = first(g) /\ fq(h) = fq(g) /\ pk(h) = pk(g)
    <3> SUFFICES ASSUME q PROVE first(h) = first(g) /\ fq(h) = fq(g) /\ pk(h) = pk(g)
      OBVIOUS
    <3>1. PkgOf(n) # Hub /\ n # Hub
      BY <1>5, NotHub DEF Apart
    <3>2. first(h) = first(g)
      BY <1>1, <1>2, <3>1 DEF FirstOfPackage
    <3>3. ToSet(fq(g)) \subseteq D /\ ToSet(fq(h)) \subseteq D /\ ToSet(pk(g)) \subseteq D /\ ToSet(pk(h)) \subseteq D
      BY <1>1, <3>1, FilesBuckets
    <3>4. Whole(fq(g), D) /\ Whole(fq(h), D) /\ Whole(pk(g), D) /\ Whole(pk(h), D)
      BY <1>0, SoundBuckets
    <3>5. Only(fq(g), D) = Only(fq(h), D) /\ Only(pk(g), D) = Only(pk(h), D)
      BY <1>2
    <3> HIDE DEF fq, pk, D
    <3>6. fq(h) = fq(g) /\ pk(h) = pk(g)
      BY <3>3, <3>4, <3>5 DEF Whole
    <3> QED BY <3>2, <3>6
  <2>5. Agree(P(g), P(h), D)
    <3>1. named(g) \in Seq(Nat) /\ named(h) \in Seq(Nat) /\ Whole(named(g), D) /\ Whole(named(h), D)
      BY <1>0, SoundBuckets
    <3>2. Only(named(g), own) = Only(named(h), own) /\ Only(named(g), D) = Only(named(h), D)
      BY <1>1, <1>2
    <3> HIDE DEF named, own, D
    <3> QED BY <1>1, <3>1, <3>2, PickAlike
  <2>6. ASSUME NEW x, x \in {g, h}, named(x) = <<>> PROVE P(x) = {}
    <3> DEFINE s == named(x)
    <3>1. s \in Seq(Nat)
      BY <1>0, <2>6, SoundBuckets
    <3> SUFFICES ASSUME NEW r \in P(x) PROVE FALSE
      OBVIOUS
    <3> HIDE DEF s, own
    <3>2. r[1] \in ToSet(s)
      BY <3>1, PickFrom DEF s
    <3>3. s = <<>>
      BY <2>6 DEF s
    <3> QED BY <3>2, <3>3 DEF ToSet
  <2>7. q /\ (named(g) = <<>>) # (named(h) = <<>>) => pk(g) = <<>> /\ pk(h) = <<>>
    <3> SUFFICES ASSUME q, (named(g) = <<>>) # (named(h) = <<>>) PROVE pk(g) = <<>> /\ pk(h) = <<>>
      OBVIOUS
    <3>1. PICK x \in {g, h} : named(x) # <<>>
      OBVIOUS
    <3>2. Held(x, c) /\ Sound(x) /\ OfFiles(x) = D
      BY <1>0, <1>1, <3>1
    <3> DEFINE s == named(x)
               i == s[1]
    <3>3. s # <<>> /\ s \in Seq(Nat)
      BY <3>1, <3>2, SoundBuckets
    <3>4. ToSet(s) \cap D = {}
      <4>1. Only(named(g), D) = Only(named(h), D) /\ named(g) \in Seq(Nat) /\ named(h) \in Seq(Nat)
        BY <1>0, <1>2, SoundBuckets
      <4> HIDE DEF named, D
      <4>2. ToSet(named(g)) \cap D = ToSet(named(h)) \cap D
        BY <4>1, OnlyMembers
      <4>3. ToSet(<<>>) = {}
        BY DEF ToSet
      <4> QED BY <4>2, <4>3
    <3> HIDE DEF s
    <3>5. i \in ToSet(s)
      BY <3>3 DEF ToSet
    <3> HIDE DEF i
    <3>6. i \in DOMAIN x.nodes /\ n \in ToSet(NameKeys(x.nodes[i]))
      BY <3>2, <3>5, NamedNodes DEF s
    <3>7. i \notin OfFiles(x)
      BY <3>2, <3>4, <3>5
    <3>8. n \in TopicKeys
      BY <3>2, <3>6, <3>7, NotOfFiles
    <3>9. n \notin PackageNames /\ n # Hub
      BY <1>5, <3>8, NotHub DEF Apart
    <3>10. n \notin DOMAIN g.byPackage /\ n \notin DOMAIN h.byPackage
      BY <3>9, FilesBuckets
    <3> QED BY <3>10 DEF Bucket
  <2> HIDE DEF A, B, D, n, own, q, key, first, fq, named, near, pk, known, P
  <2>8. CASE q /\ (first(g) # <<>> \/ fq(g) # <<>>)
    <3>1. A = B
      BY <2>1, <2>2, <2>4, <2>8 DEF NameAnswer
    <3> QED BY <1>3, <3>1 DEF A, B, D
  <2>9. CASE ~(q /\ (first(g) # <<>> \/ fq(g) # <<>>)) /\ known
    <3>1. A = B
      BY <2>1, <2>2, <2>3, <2>4, <2>9 DEF NameAnswer
    <3> QED BY <1>3, <3>1 DEF A, B, D
  <2>10. CASE ~(q /\ (first(g) # <<>> \/ fq(g) # <<>>)) /\ ~known
    <3>1. A = IF named(g) # <<>> THEN P(g) ELSE IF q /\ pk(g) # <<>> THEN Pick(pk(g), own, "heuristic") ELSE {}
      BY <2>1, <2>10 DEF NameAnswer, P
    <3>2. B = IF named(h) # <<>> THEN P(h) ELSE IF q /\ pk(h) # <<>> THEN Pick(pk(h), own, "heuristic") ELSE {}
      BY <2>2, <2>4, <2>10 DEF NameAnswer, P
    <3>3. CASE named(g) = <<>> /\ named(h) = <<>>
      <4>1. A = B
        BY <2>4, <3>1, <3>2, <3>3
      <4> QED BY <1>3, <4>1 DEF A, B, D
    <3>4. CASE ~(named(g) = <<>> /\ named(h) = <<>>)
      <4>1. A = P(g) /\ B = P(h)
        BY <2>6, <2>7, <3>1, <3>2, <3>4
      <4> QED BY <2>5, <4>1
    <3> QED BY <3>3, <3>4
  <2> QED BY <2>8, <2>9, <2>10
<1> QED BY <1>4, <1>5

(* The imports of a graph: the first of the candidates of the same ends.   *)
Arrow(t, i, q) == Edge(i, q[1], "Imports", t.n, q[2], Rank(t.n))
Candidate(g, e) ==
  \E t \in DOMAIN g.deps : \E i \in ToSet(g.deps[t]) \cap DOMAIN g.nodes :
    \E q \in ResolveImportTargets(g, t, g.nodes[i]) : e = Arrow(t, i, q)
LEMMA ImportsAre ==
  ASSUME NEW g, NEW e
  PROVE  e \in ImportEdges(g) <=> Candidate(g, e) /\ \A d : Candidate(g, d) /\ Same(d, e) => e.rank <= d.rank
<1> DEFINE From(t, i) == ImportsFrom(g, t, i)
           Of(t) == UNION {From(t, i) : i \in ToSet(g.deps[t]) \cap DOMAIN g.nodes}
           C == UNION {Of(t) : t \in DOMAIN g.deps}
<1>1. \A d : d \in C <=> \E t \in DOMAIN g.deps : d \in Of(t)
  <2> HIDE DEF Of
  <2> QED OBVIOUS
<1>2. \A d, t : d \in Of(t) <=> \E i \in ToSet(g.deps[t]) \cap DOMAIN g.nodes : d \in From(t, i)
  <2> HIDE DEF From
  <2> QED OBVIOUS
<1>3. \A d, t, i : d \in From(t, i) <=> \E q \in ResolveImportTargets(g, t, g.nodes[i]) : d = Arrow(t, i, q)
  BY DEF ImportsFrom, Arrow
<1>4. ImportEdges(g) = FirstWins(C)
  BY DEF ImportEdges
<1> HIDE DEF From, Of, C
<1>5. \A d : d \in C <=> Candidate(g, d)
  BY <1>1, <1>2, <1>3 DEF Candidate
<1> QED BY <1>4, <1>5 DEF FirstWins

LEMMA ImportApart ==
  ASSUME ImportsApart, NEW g, NEW c, Held(g, c), Given(c), NEW t \in DOMAIN g.deps, NEW i \in ToSet(g.deps[t])
  PROVE  Apart(t) /\ i \in OfFiles(g) /\ g.nodes[i].repo # NoRepo
<1>1. i \in DOMAIN g.nodes /\ g.nodes[i].file \in ToSet(Files)
  BY FactNodes
<1>2. <<t, i>> \in PairsOf(g.deps)
  BY PairsAre
<1>0. FactsHeld(g, c)
  BY DEF Held
<1>3. PICK f \in There(c) : <<t, i>> \in Told(g, f, Extracted[c[f]].deps, FALSE)
  <2> DEFINE To(f) == Told(g, f, Extracted[c[f]].deps, FALSE)
  <2>1. PairsOf(g.deps) = UNION {To(f) : f \in There(c)}
    BY <1>0 DEF FactsHeld
  <2> HIDE DEF To
  <2>2. \E f \in There(c) : <<t, i>> \in To(f)
    BY ONLY <1>2, <2>1
  <2> QED BY <2>2 DEF To
<1>4. PICK r \in ToSet(Extracted[c[f]].deps) : t = r[2]
  BY <1>3 DEF Told, KeyOf
<1>5. c[f] \in DOMAIN Extracted
  BY DEF There, Given
<1>6. Apart(t)
  BY <1>4, <1>5 DEF ImportsApart, Apart
<1> QED BY <1>1, <1>6, RepoOf DEF OfFiles

(* Imports answered apart from hubs are the same in both graphs.           *)
LEMMA ImportsAlike ==
  ASSUME ImportsApart, NEW g, NEW h, NEW c, Held(g, c), Held(h, c), Given(c), Stands(g, h), h.deps = g.deps, NEW M,
         \A x \in {g, h} : \A d : Candidate(x, d) /\ d.to \notin OfFiles(x) => d.meta \in M,
         NEW e \in ImportEdges(g), e.meta \notin M
  PROVE  e \in ImportEdges(h)
<1> DEFINE D == OfFiles(g)
           T(x, t, i) == ResolveImportTargets(x, t, x.nodes[i])
<1>1. OfFiles(h) = D
  BY OwnParts
<1>2. ASSUME NEW t \in DOMAIN g.deps, NEW i \in ToSet(g.deps[t])
      PROVE /\ i \in DOMAIN g.nodes /\ i \in DOMAIN h.nodes
            /\ Agree(T(g, t, i), T(h, t, i), D)
  <2>1. Apart(t) /\ i \in D /\ g.nodes[i].repo # NoRepo
    BY <1>2, ImportApart
  <2>2. i \in DOMAIN g.nodes /\ i \in DOMAIN h.nodes /\ h.nodes[i] = g.nodes[i]
    BY <2>1 DEF Stands, OfFiles
  <2> DEFINE imp == g.nodes[i]
  <2>3. imp.repo # NoRepo
    BY <2>1
  <2> HIDE DEF imp
  <2>4. Agree(ResolveImportTargets(g, t, imp), ResolveImportTargets(h, t, imp), OfFiles(g))
    BY <2>1, <2>3, ResolveAlike
  <2> QED BY <2>2, <2>4 DEF imp
<1>3. \A t, i, q : LET a == Arrow(t, i, q) IN /\ a.from = i /\ a.to = q[1] /\ a.kind = "Imports" /\ a.meta = t.n /\ a.rank = Rank(t.n)
  BY DEF Arrow, Edge
<1>4. ASSUME NEW x \in {g, h}, NEW t \in DOMAIN g.deps, NEW i \in ToSet(g.deps[t]), NEW q \in T(x, t, i)
      PROVE Candidate(x, Arrow(t, i, q)) /\ (q[1] \notin D => t.n \in M)
  <2>1. t \in DOMAIN x.deps /\ i \in ToSet(x.deps[t]) \cap DOMAIN x.nodes
    BY <1>2, <1>4
  <2>2. Candidate(x, Arrow(t, i, q))
    BY <1>4, <2>1 DEF Candidate
  <2>3. Arrow(t, i, q).to = q[1] /\ Arrow(t, i, q).meta = t.n
    BY <1>3
  <2> QED BY <1>1, <2>2, <2>3
<1>5. Candidate(g, e) /\ \A d : Candidate(g, d) /\ Same(d, e) => e.rank <= d.rank
  BY ImportsAre
<1>6. PICK t \in DOMAIN g.deps : \E i \in ToSet(g.deps[t]) \cap DOMAIN g.nodes : \E q \in T(g, t, i) : e = Arrow(t, i, q)
  BY <1>5 DEF Candidate
<1>7. PICK i \in ToSet(g.deps[t]) : \E q \in T(g, t, i) : e = Arrow(t, i, q)
  BY <1>6
<1>8. PICK q \in T(g, t, i) : e = Arrow(t, i, q)
  BY <1>7
<1>9. t.n \notin M /\ e.to = q[1] /\ q[1] \in D
  <2>1. t.n \notin M /\ e.to = q[1]
    BY <1>3, <1>8
  <2> QED BY <1>4, <1>8, <2>1
<1>10. T(g, t, i) = T(h, t, i)
  <2>1. Agree(T(g, t, i), T(h, t, i), D)
    BY <1>2
  <2>2. \A r \in T(g, t, i) \cup T(h, t, i) : r[1] \in D
    BY <1>4, <1>9
  <2> HIDE DEF T, D
  <2> QED BY <2>1, <2>2 DEF Agree
<1>11. Candidate(h, e)
  BY <1>4, <1>8, <1>10
<1>12. ASSUME NEW d, Candidate(h, d), Same(d, e) PROVE e.rank <= d.rank
  <2>1. PICK s \in DOMAIN g.deps : \E j \in ToSet(g.deps[s]) \cap DOMAIN h.nodes : \E r \in T(h, s, j) : d = Arrow(s, j, r)
    BY <1>12 DEF Candidate
  <2>2. PICK j \in ToSet(g.deps[s]) : \E r \in T(h, s, j) : d = Arrow(s, j, r)
    BY <2>1
  <2>3. PICK r \in T(h, s, j) : d = Arrow(s, j, r)
    BY <2>2
  <2>4. d.from = j /\ d.to = r[1] /\ d.rank = Rank(s.n) /\ d.kind = "Imports" /\ r[1] = e.to /\ j = e.from /\ e.kind = "Imports"
    BY <1>12, <1>3, <2>3 DEF Same
  <2>5. r[1] \in D
    BY <1>9, <2>4
  <2>6. Agree(T(g, s, j), T(h, s, j), D)
    BY <1>2
  <2> HIDE DEF T, D
  <2>7. PICK p \in T(g, s, j) : p[1] = r[1]
    BY <2>5, <2>6 DEF Agree
  <2>8. Candidate(g, Arrow(s, j, p))
    BY <1>4
  <2>9. Same(Arrow(s, j, p), e) /\ Arrow(s, j, p).rank = d.rank
    BY <1>3, <2>4, <2>7 DEF Same
  <2> QED BY <1>5, <2>8, <2>9
<1> QED BY <1>11, <1>12, ImportsAre

LEMMA HubsKeepFacts ==
  ASSUME HubsReserved, NEW b, NEW c, Held(b, c), Given(c)
  PROVE  SameFacts(b, WithHubs(b))
<1> DEFINE p == RemoveNodes(b, StaleHubs(b))
           h == WithHubs(b)
<1>1. Held(p, c) /\ SameFacts(b, p) /\ HubNames(p) \subseteq Topics(b)
  BY StaleHubsGo
<1>2. h = WithHubsKept(p)
  BY DEF WithHubs
<1> HIDE DEF p, h
<1>3. HubNames(p) \subseteq Topics(p)
  BY <1>1 DEF SameFacts, Topics
<1>4. SameFacts(p, h)
  BY <1>1, <1>2, <1>3, HubsKeptHeld
<1> QED BY <1>1, <1>4 DEF SameFacts, h

(* What an import is answered by, if not by a node of a file, is among the *)
(* hubs of the graph or has just gone with one.                            *)
Gone(r) == {e.meta : e \in {d \in r.edges : d.kind = "Imports" /\ d.to \notin DOMAIN r.nodes}}
LEMMA HubsAnswer ==
  ASSUME HubsReserved, ImportsApart, NEW b, NEW c, Held(b, c), Given(c), NEW r, r = ReconcileEdges(b),
         NEW x \in {b, r}, NEW d, Candidate(x, d), d.to \notin OfFiles(x)
  PROVE  d.meta \in Topics(r) \cup Gone(r)
<1>0. Held(x, c) /\ Held(r, c) /\ HubNames(r) = Topics(r) /\ Sound(x)
  BY ReconcileHeld DEF Held
<1>1. ASSUME NEW y, Held(y, c), NEW e, Candidate(y, e), e.to \notin OfFiles(y)
      PROVE /\ e.kind = "Imports" /\ e.to \in HubIds(y) /\ y.nodes[e.to].name = e.meta /\ e.rank = Rank(e.meta)
            /\ \E conf : e = Edge(e.from, e.to, "Imports", e.meta, conf, Rank(e.meta))
  <2>1. PICK t \in DOMAIN y.deps : \E i \in ToSet(y.deps[t]) \cap DOMAIN y.nodes :
          \E q \in ResolveImportTargets(y, t, y.nodes[i]) : e = Arrow(t, i, q)
    BY <1>1 DEF Candidate
  <2>2. PICK i \in ToSet(y.deps[t]) : \E q \in ResolveImportTargets(y, t, y.nodes[i]) : e = Arrow(t, i, q)
    BY <2>1
  <2> DEFINE imp == y.nodes[i]
  <2>3. PICK q \in ResolveImportTargets(y, t, imp) : e = Arrow(t, i, q)
    BY <2>2
  <2>4. e.from = i /\ e.to = q[1] /\ e.kind = "Imports" /\ e.meta = t.n /\ e.rank = Rank(t.n)
        /\ e = Edge(i, q[1], "Imports", t.n, q[2], Rank(t.n))
    BY <2>3 DEF Arrow, Edge
  <2>5. Apart(t) /\ imp.repo # NoRepo
    BY <1>1, ImportApart
  <2> HIDE DEF imp
  <2>6. q[1] \in HubIds(y) /\ y.nodes[q[1]].name = t.n
    BY <1>1, <2>3, <2>4, <2>5, HubAnswers
  <2> QED BY <2>4, <2>6
<1>2. d.to \in HubIds(x) /\ x.nodes[d.to].name = d.meta /\ d.kind = "Imports" /\ d.rank = Rank(d.meta)
  BY <1>0, <1>1
<1>3. CASE x = r
  BY <1>0, <1>2, <1>3 DEF HubNames
<1>4. CASE x = b /\ d.meta \notin Topics(r)
  <2>1. Topics(b) = Topics(r)
    <3> DEFINE h == WithHubs(b)
    <3>1. SameFacts(h, r)
      BY Reconciliation
    <3>2. SameFacts(b, h)
      BY HubsKeepFacts
    <3> HIDE DEF h
    <3> QED BY <3>1, <3>2 DEF SameFacts, Topics
  <2>2. d.to \in StaleHubs(b)
    <3>1. d.to \in DOMAIN b.nodes /\ b.nodes[d.to].pkg = Hub /\ b.nodes[d.to].kind = "EventStream"
      BY <1>2, <1>4, HubsAre
    <3> QED BY <1>2, <1>4, <2>1, <3>1 DEF StaleHubs, StreamKinds
  <2>3. d.to \notin DOMAIN r.nodes
    BY <2>2, ReconciledMaps
  <2>4. Rank(d.meta) \in Nat
    <3>1. d.meta \in TopicKeys
      BY <1>0, <1>2, <1>4, NotOfFiles DEF HubIds
    <3>2. PICK z \in DOMAIN Extracted : \E f \in ToSet(Extracted[z].producers) \cup ToSet(Extracted[z].consumers) :
            d.meta = NormalizeTopicKey(f[2])
      BY <3>1 DEF TopicKeys
    <3>3. d.meta \in ToSet(Sorted)
      BY <3>2, ExtractedAssumption
    <3>4. Rank(d.meta) \in 1..Len(Sorted) /\ Len(Sorted) \in Nat
      BY <3>3, RankIn, GraphAssumption, ListDomain
    <3> QED BY <3>4
  <2>5. ASSUME NEW e, Candidate(b, e), Same(e, d) PROVE d.rank <= e.rank
    <3>1. e.to = d.to
      BY <2>5 DEF Same
    <3>2. e.meta = d.meta /\ e.rank = Rank(e.meta)
      BY <1>1, <1>2, <1>4, <2>5, <3>1
    <3> QED BY <1>2, <2>4, <3>2
  <2>6. d \in ImportEdges(b)
    BY <1>4, <2>5, ImportsAre
  <2>7. Bare(d) \in r.edges
    BY <2>6, Reconciliation DEF Unranked, Bare
  <2>8. Bare(d).kind = "Imports" /\ Bare(d).to = d.to /\ Bare(d).meta = d.meta
    BY <1>2 DEF Bare
  <2> QED BY <2>3, <2>7, <2>8 DEF Gone
<1> QED BY <1>3, <1>4

(* Deriving the edges of a derived graph again: the same nodes, the same   *)
(* names and the same edges, but for the imports answered among hubs.      *)
LEMMA DerivedAgain ==
  ASSUME HubsReserved, ImportsApart, NEW b, NEW c, Held(b, c), Given(c), NEW r, r = ReconcileEdges(b),
         NEW a, a = ReconcileEdges(r), NEW M, M = Topics(r) \cup Gone(r)
  PROVE /\ a.nodes = r.nodes /\ a.rpcNames = r.rpcNames
        /\ {e \in a.edges : e.kind = "Imports" => e.meta \notin M} = {e \in r.edges : e.kind = "Imports" => e.meta \notin M}
<1> DEFINE h == WithHubs(b)
           X(g) == TopicEdges(g) \cup ImplementsEdges(g, RpcNames(g)) \cup CallEdges(g, RpcNames(g))
<1>1. Held(r, c) /\ HubNames(r) = Topics(r) /\ IsFun(r) /\ Maps(r) /\ DOMAIN r = GraphFields
  BY ReconcileHeld, ReconciledMaps
<1>2. WithHubs(r) = r
  BY <1>1, HubsThere
<1>3. r = WithEdges(h, RpcNames(h), ImportEdges(b)) /\ a = WithEdges(r, RpcNames(r), ImportEdges(r))
  BY <1>2 DEF ReconcileEdges, Reconciled
<1>4. SameNodes(h, r) /\ SameFacts(h, r) /\ Held(h, c) /\ r.edges = Unranked(ImportEdges(b) \cup X(h))
  BY Reconciliation
<1>5. SameNodes(r, a) /\ a.edges = Unranked(ImportEdges(r) \cup X(r))
  BY <1>1, <1>2, Reconciliation
<1> HIDE DEF h
<1>6. RpcNames(r) = RpcNames(h) /\ X(r) = X(h)
  BY <1>4, SameRpcs, SameCalls, SameTopics
<1>7. r.rpcNames = RpcNames(h)
  <2> DEFINE names == RpcNames(h)
             imports == ImportEdges(b)
  <2>1. r = WithEdges(h, names, imports) /\ DOMAIN h = GraphFields
    BY <1>3, <1>4 DEF Held, Sound, Ided
  <2> HIDE DEF names, imports
  <2>2. r.rpcNames = names
    BY <2>1 DEF WithEdges, GraphFields
  <2> QED BY <2>2 DEF names
<1>8. a.rpcNames = RpcNames(r)
  <2> DEFINE names == RpcNames(r)
             imports == ImportEdges(r)
  <2>1. a = WithEdges(r, names, imports)
    BY <1>3
  <2> HIDE DEF names, imports
  <2>2. a.rpcNames = names
    BY <1>1, <2>1 DEF WithEdges, GraphFields
  <2> QED BY <2>2 DEF names
<1> HIDE DEF X
<1>9. \A x \in {b, r} : \A d : Candidate(x, d) /\ d.to \notin OfFiles(x) => d.meta \in M
  BY HubsAnswer
<1>10. Stands(b, r) /\ Stands(r, b)
  <2>1. Stands(b, r)
    BY FilesStand
  <2> QED BY <2>1 DEF Stands
<1>11. r.deps = b.deps
  <2>1. SameFacts(b, h)
    BY HubsKeepFacts DEF h
  <2> QED BY <1>4, <2>1 DEF SameFacts
<1>12. ASSUME NEW d, d.meta \notin M PROVE d \in ImportEdges(b) <=> d \in ImportEdges(r)
  <2>1. ASSUME d \in ImportEdges(b) PROVE d \in ImportEdges(r)
    BY <1>1, <1>9, <1>10, <1>11, <1>12, <2>1, ImportsAlike
  <2>2. ASSUME d \in ImportEdges(r) PROVE d \in ImportEdges(b)
    BY <1>1, <1>9, <1>10, <1>11, <1>12, <2>2, ImportsAlike
  <2> QED BY <2>1, <2>2
<1>13. ASSUME NEW I, NEW J, NEW e, e \in Unranked(I \cup X(h)), e.kind = "Imports" => e.meta \notin M,
              \A d \in I : d.kind = "Imports" /\ (d.meta \notin M => d \in J)
       PROVE e \in Unranked(J \cup X(h))
  <2>1. PICK d \in I \cup X(h) : e = Bare(d)
    BY <1>13 DEF Unranked, Bare
  <2>2. e.kind = d.kind /\ e.meta = d.meta
    BY <2>1 DEF Bare
  <2>3. d \in J \cup X(h)
    BY <1>13, <2>2
  <2> QED BY <2>1, <2>3 DEF Unranked, Bare
<1>14. (\A d \in ImportEdges(b) : d.kind = "Imports") /\ \A d \in ImportEdges(r) : d.kind = "Imports"
  BY ImportsSure
<1> DEFINE I == ImportEdges(b)
           J == ImportEdges(r)
           Y == X(h)
<1>15. \A e : (e.kind = "Imports" => e.meta \notin M) => (e \in a.edges <=> e \in r.edges)
  <2> TAKE e
  <2> HAVE e.kind = "Imports" => e.meta \notin M
  <2>1. a.edges = Unranked(J \cup Y) /\ r.edges = Unranked(I \cup Y)
    BY <1>4, <1>5, <1>6
  <2>2. \A d \in J : d.kind = "Imports" /\ (d.meta \notin M => d \in I)
    BY <1>12, <1>14
  <2>3. \A d \in I : d.kind = "Imports" /\ (d.meta \notin M => d \in J)
    BY <1>12, <1>14
  <2>4. ASSUME NEW K, NEW L, e \in Unranked(K \cup Y), \A d \in K : d.kind = "Imports" /\ (d.meta \notin M => d \in L)
        PROVE e \in Unranked(L \cup Y)
    BY <1>13, <2>4
  <2> HIDE DEF I, J, Y
  <2>5. e \in Unranked(J \cup Y) => e \in Unranked(I \cup Y)
    BY <2>2, <2>4
  <2>6. e \in Unranked(I \cup Y) => e \in Unranked(J \cup Y)
    BY <2>3, <2>4
  <2> QED BY <2>1, <2>5, <2>6
<1> QED BY <1>5, <1>6, <1>7, <1>8, <1>15 DEF SameNodes

(* Deriving the edges of an installed graph again changes nothing but the  *)
(* imports answered among hubs, whatever was built and patched before: the *)
(* idempotence of `reconcile_edges` (invariant I3 of docs/development.md).  *)
THEOREM DerivedTwiceAlwaysSettles == ASSUME HubsReserved, ImportsApart PROVE Spec => []DerivedTwiceSettles
<1>1. ExactInv => DerivedTwiceSettles
  <2> SUFFICES ASSUME ExactInv PROVE DerivedTwiceSettles
    OBVIOUS
  <2>1. PICK b : Held(b, content) /\ graph = ReconcileEdges(b)
    BY DEF ExactInv
  <2> DEFINE c == content
             r == graph
             a == ReconcileEdges(r)
             M == Topics(r) \cup Gone(r)
  <2>2. Given(c)
    BY InhabitedGiven DEF ExactInv
  <2>3. AmongHubs = M
    BY DEF AmongHubs, Gone
  <2> HIDE DEF c, r, a, M
  <2>4. Held(b, c) /\ r = ReconcileEdges(b) /\ a = ReconcileEdges(r) /\ M = Topics(r) \cup Gone(r)
    BY <2>1 DEF c, r, a, M
  <2>5. /\ a.nodes = r.nodes /\ a.rpcNames = r.rpcNames
        /\ {e \in a.edges : e.kind = "Imports" => e.meta \notin M} = {e \in r.edges : e.kind = "Imports" => e.meta \notin M}
    BY <2>2, <2>4, DerivedAgain
  <2>6. SameDerived(a)
    BY <2>3, <2>5 DEF SameDerived, r
  <2> QED BY <2>6 DEF DerivedTwiceSettles, a, r
<1> QED BY <1>1, ExactInvAlways, PTL

-----------------------------------------------------------------------------
(* What is read of a path, segment by segment.                             *)
ReadSeg(s) == IF s.k = "lit" THEN Literal(LowerT(s.t)) ELSE Param
Cuts(s) == {i \in DOMAIN s : s[i].k = "optional"}
ReadLen(s) == IF Cuts(s) = {} THEN Len(s) ELSE Min(Cuts(s))
IsRead(s) == \A i \in DOMAIN s : s[i].k \in {"lit", "param"}

LEMMA ReadSegs ==
  ASSUME NEW s PROVE ReadSeg(s).k \in {"lit", "param"}
BY DEF ReadSeg, Literal, Param

LEMMA ReadLenIs ==
  ASSUME NEW s, IsList(s)
  PROVE  /\ Len(s) \in Nat /\ DOMAIN s = 1..Len(s)
         /\ ReadLen(s) \in 0..Len(s)
         /\ \A i \in Cuts(s) : ReadLen(s) <= i
         /\ ReadLen(s) = Len(s) \/ ReadLen(s) \in Cuts(s)
<1>1. Len(s) \in Nat /\ DOMAIN s = 1..Len(s)
  BY ListDomain
<1>2. Cuts(s) \in SUBSET Nat /\ \A i \in Cuts(s) : i \in 1..Len(s)
  BY <1>1 DEF Cuts
<1>3. CASE Cuts(s) = {}
  BY <1>1, <1>3 DEF ReadLen
<1>4. CASE Cuts(s) # {}
  BY <1>1, <1>2, <1>4, LeastOf DEF ReadLen
<1> QED BY <1>3, <1>4

LEMMA PathRead ==
  ASSUME NEW slash, NEW s, IsList(s)
  PROVE  /\ PathSegments(Path(slash, s)) = [i \in 1..ReadLen(s) |-> ReadSeg(s[i])]
         /\ PathSegments(Path(slash, s)) \in Seq({ReadSeg(s[i]) : i \in DOMAIN s})
         /\ Len(PathSegments(Path(slash, s))) = ReadLen(s)
         /\ IsRead(PathSegments(Path(slash, s)))
<1> DEFINE p == Path(slash, s)
           r == [i \in 1..ReadLen(s) |-> ReadSeg(s[i])]
           cuts == Cuts(s)
           read == IF cuts = {} THEN s ELSE SubSeq(s, 1, Min(cuts))
           S == {ReadSeg(s[i]) : i \in DOMAIN s}
           T == ToSet(s)
<1>1. Len(s) \in Nat /\ DOMAIN s = 1..Len(s) /\ ReadLen(s) \in 0..Len(s)
  BY ReadLenIs
<1>2. p.segs = s
  BY DEF Path
<1>3. PathSegments(p) = [i \in DOMAIN read |-> ReadSeg(read[i])]
  BY <1>2 DEF PathSegments, ReadSeg, Cuts
<1>4. s \in Seq(T)
  BY DEF IsList
<1>5. DOMAIN read = 1..ReadLen(s) /\ \A i \in 1..ReadLen(s) : read[i] = s[i]
  <2>1. CASE cuts = {}
    BY <1>1, <2>1 DEF ReadLen
  <2>2. CASE cuts # {}
    <3>1. ReadLen(s) = Min(cuts) /\ read = SubSeq(s, 1, ReadLen(s))
      BY <2>2 DEF ReadLen
    <3> HIDE DEF T, read, cuts
    <3> QED BY <1>1, <1>4, <3>1
  <2> QED BY <2>1, <2>2
<1>6. PathSegments(p) = r
  BY <1>3, <1>5
<1>7. \A i \in 1..ReadLen(s) : i \in DOMAIN s
  BY <1>1
<1>8. r \in Seq(S) /\ Len(r) = ReadLen(s)
  <2>1. r \in [1..ReadLen(s) -> S]
    BY <1>7
  <2> HIDE DEF r, S
  <2> QED BY <1>1, <2>1
<1>9. IsRead(r)
  BY ReadSegs DEF IsRead
<1> QED BY <1>6, <1>8, <1>9

(* A plain prefix is read to its end, and what follows it as it is alone.  *)
LEMMA PrefixedRead ==
  ASSUME NEW x, NEW a, IsList(a), NEW b, IsList(b), \A i \in DOMAIN a : a[i].k # "optional"
  PROVE  PathSegments(Path(x, a \o b)) = PathSegments(Path(x, a)) \o PathSegments(Path(x, b))
<1> DEFINE A == PathSegments(Path(x, a))
           B == PathSegments(Path(x, b))
           s == a \o b
           T == ToSet(a) \cup ToSet(b)
           SA == {ReadSeg(a[i]) : i \in DOMAIN a}
           SB == {ReadSeg(b[i]) : i \in DOMAIN b}
<1>1. a \in Seq(T) /\ b \in Seq(T)
  <2>1. a \in Seq(ToSet(a)) /\ b \in Seq(ToSet(b))
    BY DEF IsList
  <2> QED BY <2>1
<1>2. Len(a) \in Nat /\ DOMAIN a = 1..Len(a) /\ Len(b) \in Nat /\ DOMAIN b = 1..Len(b)
  BY ReadLenIs
<1>3. ReadLen(a) = Len(a)
  BY <1>2 DEF Cuts, ReadLen
<1>4. /\ s \in Seq(T) /\ Len(s) = Len(a) + Len(b)
      /\ DOMAIN s = 1..(Len(a) + Len(b))
      /\ \A i \in 1..(Len(a) + Len(b)) : s[i] = IF i <= Len(a) THEN a[i] ELSE b[i - Len(a)]
  <2> HIDE DEF T
  <2> QED BY <1>1, <1>2
<1>5. IsList(s)
  BY <1>4, SeqIsList
<1>6. \A i : i \in Cuts(s) <=> i - Len(a) \in Cuts(b) /\ i \in DOMAIN s
  <2> SUFFICES ASSUME NEW i \in DOMAIN s PROVE i \in Cuts(s) <=> i - Len(a) \in Cuts(b)
    BY DEF Cuts
  <2>1. CASE i <= Len(a)
    BY <1>2, <1>4, <2>1 DEF Cuts
  <2>2. CASE i > Len(a)
    BY <1>2, <1>4, <2>2 DEF Cuts
  <2> QED BY <1>2, <1>4, <2>1, <2>2
<1>7. /\ ReadLen(s) \in 0..Len(s) /\ (\A i \in Cuts(s) : ReadLen(s) <= i) /\ (ReadLen(s) = Len(s) \/ ReadLen(s) \in Cuts(s))
      /\ ReadLen(b) \in 0..Len(b) /\ (\A i \in Cuts(b) : ReadLen(b) <= i) /\ (ReadLen(b) = Len(b) \/ ReadLen(b) \in Cuts(b))
  BY <1>5, ReadLenIs
<1>8. ReadLen(s) = Len(a) + ReadLen(b)
  <2>1. \A i \in Cuts(b) : i \in 1..Len(b)
    BY <1>2 DEF Cuts
  <2>2. \A i \in Cuts(b) : Len(a) + i \in Cuts(s)
    <3> TAKE i \in Cuts(b)
    <3>1. i \in 1..Len(b) /\ Len(a) + i - Len(a) = i /\ Len(a) + i \in 1..(Len(a) + Len(b))
      BY <1>2, <2>1
    <3> QED BY <1>4, <1>6, <3>1
  <2>3. ReadLen(s) <= Len(a) + ReadLen(b)
    BY <1>2, <1>4, <1>7, <2>2
  <2>4. ReadLen(s) >= Len(a) + ReadLen(b)
    BY <1>2, <1>4, <1>6, <1>7, <2>1
  <2> QED BY <1>2, <1>7, <2>3, <2>4
<1>9. /\ PathSegments(Path(x, s)) = [i \in 1..ReadLen(s) |-> ReadSeg(s[i])]
      /\ A = [i \in 1..Len(a) |-> ReadSeg(a[i])] /\ A \in Seq(SA) /\ Len(A) = Len(a)
      /\ B = [i \in 1..ReadLen(b) |-> ReadSeg(b[i])] /\ B \in Seq(SB) /\ Len(B) = ReadLen(b)
  <2>1. PathSegments(Path(x, s)) = [i \in 1..ReadLen(s) |-> ReadSeg(s[i])]
    <3> HIDE DEF s, A, B, T, SA, SB
    <3> QED BY ONLY <1>5, PathRead
  <2>2. A = [i \in 1..ReadLen(a) |-> ReadSeg(a[i])] /\ A \in Seq(SA) /\ Len(A) = ReadLen(a)
    BY PathRead
  <2>3. B = [i \in 1..ReadLen(b) |-> ReadSeg(b[i])] /\ B \in Seq(SB) /\ Len(B) = ReadLen(b)
    BY PathRead
  <2> HIDE DEF A, B, s, SA, SB
  <2> QED BY <1>3, <2>1, <2>2, <2>3
<1> HIDE DEF A, B, s, T, SA, SB
<1> DEFINE C == A \o B
<1>10. /\ DOMAIN C = 1..(Len(a) + ReadLen(b))
       /\ \A i \in 1..(Len(a) + ReadLen(b)) : C[i] = IF i <= Len(a) THEN A[i] ELSE B[i - Len(a)]
       /\ C = [i \in 1..(Len(a) + ReadLen(b)) |-> C[i]]
  <2> DEFINE U == SA \cup SB
  <2>1. A \in Seq(U) /\ B \in Seq(U)
    BY <1>9
  <2> HIDE DEF U
  <2> QED BY <1>2, <1>7, <1>9, <2>1
<1> HIDE DEF C
<1>11. \A i \in 1..(Len(a) + ReadLen(b)) : C[i] = ReadSeg(s[i])
  <2> TAKE i \in 1..(Len(a) + ReadLen(b))
  <2>1. i \in 1..(Len(a) + Len(b))
    BY <1>2, <1>7
  <2>2. CASE i <= Len(a)
    <3>1. s[i] = a[i] /\ C[i] = A[i] /\ i \in 1..Len(a)
      BY <1>2, <1>4, <1>10, <2>1, <2>2
    <3>2. A[i] = ReadSeg(a[i])
      BY <1>9, <3>1
    <3> QED BY <3>1, <3>2
  <2>3. CASE i > Len(a)
    <3>1. i - Len(a) \in 1..ReadLen(b)
      BY <1>2, <1>7, <2>3
    <3>2. s[i] = b[i - Len(a)] /\ C[i] = B[i - Len(a)]
      <4>1. ~(i <= Len(a))
        BY <1>2, <2>3
      <4> QED BY <1>4, <1>10, <2>1, <4>1
    <3>3. B[i - Len(a)] = ReadSeg(b[i - Len(a)])
      BY <1>9, <3>1
    <3> QED BY <3>2, <3>3
  <2> QED BY <1>2, <1>7, <2>2, <2>3
<1>12. PathSegments(Path(x, s)) = C
  BY <1>8, <1>9, <1>10, <1>11
<1> QED BY <1>12 DEF s, A, B, C

LEMMA ForRepoIs ==
  ASSUME PlainPrefixes, NEW repo
  PROVE  /\ IsPath(ForRepo(repo))
         /\ \A i \in DOMAIN ForRepo(repo).segs : ForRepo(repo).segs[i].k # "optional"
<1>1. CASE OwnPrefix(repo) = {}
  BY <1>1, RoutesAssumption DEF ForRepo, PlainPrefixes
<1>2. CASE OwnPrefix(repo) # {}
  <2> DEFINE k == CHOOSE o \in OwnPrefix(repo) : TRUE
  <2>1. k \in OwnPrefix(repo)
    BY <1>2
  <2>2. k \in PrefixConfig.keys
    BY <2>1 DEF OwnPrefix
  <2>3. ForRepo(repo) = k.path
    BY <1>2 DEF ForRepo
  <2> HIDE DEF k
  <2> QED BY <2>2, <2>3, RoutesAssumption DEF PlainPrefixes
<1> QED BY <1>1, <1>2

(* A route belongs to a file.                                              *)
LEMMA RouteNodesAre ==
  ASSUME NEW g, NEW c, Held(g, c), Given(c), NEW i \in RouteNodes(g)
  PROVE  /\ i \in DOMAIN g.nodes /\ g.nodes[i].file \in ToSet(Files)
         /\ IsRoute(g.nodes[i].route) /\ g.nodes[i].lo \in Nat
<1>1. i \in DOMAIN g.nodes /\ g.nodes[i].kind = "HttpEndpoint" /\ "route" \in DOMAIN g.nodes[i]
  BY DEF RouteNodes
<1>2. g.nodes[i].file \in ToSet(Files)
  <2> SUFFICES ASSUME g.nodes[i].file \notin ToSet(Files) PROVE FALSE
    OBVIOUS
  <2> DEFINE k == g.nodes[i].name
  <2>1. g.nodes[i] = HubNode(k)
    BY <1>1 DEF Held, Placed
  <2> HIDE DEF k
  <2> QED BY <1>1, <2>1, HubFields
<1> DEFINE f == g.nodes[i].file
           x == c[f]
<1>3. x \in DOMAIN Extracted
  BY <1>1, <1>2, NodeOwned
<1>4. PICK j \in DOMAIN Extracted[x].nodes : g.nodes[i] = Located(Extracted[x].nodes[j], f)
  BY <1>1, <1>2, NodeOwned
<1> DEFINE n == Extracted[x].nodes[j]
<1>5. "route" \in DOMAIN n => IsRoute(n.route) /\ "lo" \in DOMAIN n /\ n.lo \in Nat
  BY <1>3, RoutesAssumption
<1> HIDE DEF x, f, n
<1>6. g.nodes[i] = Located(n, f)
  BY <1>4 DEF n
<1>7. "route" \in DOMAIN n
  BY <1>1, <1>6 DEF Located
<1>8. g.nodes[i].route = n.route /\ g.nodes[i].lo = n.lo
  BY <1>5, <1>6, <1>7 DEF Located
<1> QED BY <1>1, <1>2, <1>5, <1>7, <1>8

LEMMA PlaceIs ==
  ASSUME NEW g, NEW i, g.nodes[i].file \in ToSet(Files)
  PROVE  PlaceOf(g, i) \in Nat
<1>1. DOMAIN Files = 1..Len(Files) /\ Len(Files) \in Nat
  BY GraphAssumption, ListDomain
<1>2. \E k \in DOMAIN Files : Files[k] = g.nodes[i].file
  BY DEF ToSet
<1>3. PlaceOf(g, i) \in DOMAIN Files
  BY <1>2 DEF PlaceOf
<1> QED BY <1>1, <1>3

-----------------------------------------------------------------------------
(* Matching.                                                               *)
LEMMA RankBound ==
  ASSUME NEW query, NEW route, NEW prefix
  PROVE  /\ MatchRoute(query, route, prefix) \in 0..4
         /\ \A r \in 0..3 : query.verb \in {"any", route.verb}
               /\ (\E v \in Variants(route.segs, prefix) : FitsAs(r, v, query.segs))
                 => MatchRoute(query, route, prefix) <= r
<1> DEFINE S == {NoRank} \cup {r \in 0..3 : \E v \in Variants(route.segs, prefix) : FitsAs(r, v, query.segs)}
<1>1. S \in SUBSET Nat /\ S # {} /\ S \subseteq 0..4
  BY DEF NoRank
<1>2. \A r \in 0..3 : (\E v \in Variants(route.segs, prefix) : FitsAs(r, v, query.segs)) => r \in S
  OBVIOUS
<1>3. MatchRoute(query, route, prefix) = IF query.verb \notin {"any", route.verb} THEN NoRank ELSE Min(S)
  BY DEF MatchRoute
<1> HIDE DEF S
<1>4. Min(S) \in S /\ \A n \in S : Min(S) <= n
  BY <1>1, LeastOf
<1>5. MatchRoute(query, route, prefix) \in 0..4
  <2> DEFINE m == Min(S)
  <2>0. m \in S
    BY <1>4
  <2> HIDE DEF m
  <2>1. m \in 0..4 /\ NoRank \in 0..4
    BY <1>1, <2>0 DEF NoRank
  <2>2. MatchRoute(query, route, prefix) = NoRank \/ MatchRoute(query, route, prefix) = m
    BY <1>3 DEF m
  <2> QED BY <2>1, <2>2
<1>6. ASSUME NEW r \in 0..3, query.verb \in {"any", route.verb}, \E v \in Variants(route.segs, prefix) : FitsAs(r, v, query.segs)
      PROVE  MatchRoute(query, route, prefix) <= r
  <2>1. r \in S
    BY <1>2, <1>6
  <2>2. MatchRoute(query, route, prefix) = Min(S)
    BY <1>3, <1>6
  <2> QED BY <1>4, <2>1, <2>2
<1> QED BY <1>5, <1>6

LEMMA SameSegsFit ==
  ASSUME NEW v, IsRead(v)
  PROVE  EqSegs(v, v, FALSE)
BY DEF EqSegs, SegFits, IsRead

LEMMA ServingFits ==
  ASSUME NEW v, IsRead(v), NEW query, Len(v) = Len(query), \A k \in DOMAIN v : v[k] \in {Param, query[k]}
  PROVE  EqSegs(v, query, TRUE)
<1>1. ASSUME NEW k \in DOMAIN v PROVE SegFits(v[k], query[k], TRUE)
  <2>1. CASE v[k].k = "param"
    BY <2>1 DEF SegFits
  <2>2. CASE v[k].k = "lit"
    <3>0. Param.k = "param"
      BY DEF Param
    <3>1. v[k] # Param
      BY <2>2, <3>0
    <3>2. v[k] = query[k]
      BY <3>1
    <3> QED BY <2>2, <3>2 DEF SegFits
  <2> QED BY <2>1, <2>2 DEF IsRead
<1> QED BY <1>1 DEF EqSegs

LEMMA ReadJoined ==
  ASSUME NEW S, NEW T, NEW a \in Seq(S), NEW b \in Seq(T), IsRead(a), IsRead(b)
  PROVE  IsRead(a \o b)
<1> DEFINE U == S \cup T
<1>1. a \in Seq(U) /\ b \in Seq(U)
  OBVIOUS
<1> HIDE DEF U
<1>2. /\ Len(a) \in Nat /\ Len(b) \in Nat /\ DOMAIN a = 1..Len(a) /\ DOMAIN b = 1..Len(b)
      /\ DOMAIN (a \o b) = 1..(Len(a) + Len(b))
      /\ \A i \in 1..(Len(a) + Len(b)) : (a \o b)[i] = IF i <= Len(a) THEN a[i] ELSE b[i - Len(a)]
  BY <1>1
<1> DEFINE s == a \o b
<1>3. ASSUME NEW i \in DOMAIN s PROVE s[i].k \in {"lit", "param"}
  <2>0. i \in 1..(Len(a) + Len(b)) /\ i \in Nat
    BY <1>2, <1>3
  <2>1. CASE i <= Len(a)
    BY <1>2, <2>0, <2>1 DEF IsRead
  <2>2. CASE ~(i <= Len(a))
    <3>1. i - Len(a) \in DOMAIN b /\ s[i] = b[i - Len(a)]
      BY <1>2, <2>0, <2>2
    <3> QED BY <3>1 DEF IsRead
  <2> QED BY <2>1, <2>2
<1> QED BY <1>3 DEF IsRead

LEMMA RouteRead ==
  ASSUME NEW p, IsPath(p)
  PROVE  /\ p = Path(p.slash, p.segs) /\ IsList(p.segs)
         /\ IsRead(PathSegments(p)) /\ \E S : PathSegments(p) \in Seq(S)
<1> DEFINE s == p.segs
<1>1. p = Path(p.slash, s) /\ IsList(s)
  BY DEF IsPath
<1> HIDE DEF s
<1>2. /\ IsRead(PathSegments(Path(p.slash, s)))
      /\ PathSegments(Path(p.slash, s)) \in Seq({ReadSeg(s[i]) : i \in DOMAIN s})
  BY <1>1, PathRead
<1> QED BY <1>1, <1>2 DEF s

LEMMA VariantsRead ==
  ASSUME NEW r, IsPath(r), NEW p, IsPath(p)
  PROVE  IsRead(PathSegments(r)) /\ IsRead(PathSegments(p) \o PathSegments(r))
<1>1. PICK S : PathSegments(p) \in Seq(S)
  BY RouteRead
<1>2. PICK T : PathSegments(r) \in Seq(T)
  BY RouteRead
<1>3. IsRead(PathSegments(p)) /\ IsRead(PathSegments(r))
  BY RouteRead
<1> QED BY <1>1, <1>2, <1>3, ReadJoined

LEMMA AsShown ==
  ASSUME NEW label, IsRoute(label), NEW p, IsPath(p), \A i \in DOMAIN p.segs : p.segs[i].k # "optional"
  PROVE  LET question == [DisplayLabel(label, p) EXCEPT !.path.slash = TRUE]
         IN /\ question.verb = label.verb
            /\ PathSegments(question.path) \in {PathSegments(label.path), PathSegments(p) \o PathSegments(label.path)}
<1> DEFINE shown == DisplayLabel(label, p)
           on == TRUE
           question == [shown EXCEPT !.path.slash = on]
           rs == label.path.segs
           ps == p.segs
<1>1. label = [verb |-> label.verb, path |-> label.path] /\ IsPath(label.path)
  BY DEF IsRoute
<1>2. label.path = Path(label.path.slash, rs) /\ IsList(rs) /\ p = Path(p.slash, ps) /\ IsList(ps)
  BY <1>1, RouteRead
<1>3. \A x, y, s : PathSegments(Path(x, s)) = PathSegments(Path(y, s))
  <2> TAKE x, y, s
  <2>1. Path(x, s).segs = s /\ Path(y, s).segs = s
    BY DEF Path
  <2> QED BY <2>1 DEF PathSegments
<1>4. CASE shown = label
  <2>1. question.verb = label.verb /\ question.path = [label.path EXCEPT !.slash = TRUE]
    BY <1>1, <1>4
  <2>2. question.path = Path(TRUE, rs)
    BY <1>2, <2>1 DEF Path
  <2>3. PathSegments(question.path) = PathSegments(label.path)
    BY <1>2, <1>3, <2>2
  <2> QED BY <2>1, <2>3
<1>5. CASE shown = [label EXCEPT !.path = Path(on, ps \o rs)]
  <2> DEFINE all == ps \o rs
  <2> HIDE DEF all, on
  <2>1. shown.verb = label.verb /\ shown.path = Path(on, all) /\ shown = [verb |-> shown.verb, path |-> shown.path]
    BY <1>1, <1>5 DEF all
  <2> HIDE DEF shown
  <2>2. question.verb = label.verb /\ question.path = [shown.path EXCEPT !.slash = on]
    BY <2>1
  <2>3. question.path = Path(on, all)
    BY <2>1, <2>2 DEF Path
  <2> HIDE DEF question, ps, rs
  <2>4. PathSegments(Path(on, ps \o rs)) = PathSegments(Path(on, ps)) \o PathSegments(Path(on, rs))
    <3>1. \A i \in DOMAIN ps : ps[i].k # "optional"
      BY DEF ps
    <3>2. IsList(ps) /\ IsList(rs)
      BY <1>2
    <3> QED BY ONLY <3>1, <3>2, PrefixedRead
  <2>5. PathSegments(question.path) = PathSegments(p) \o PathSegments(label.path)
    <3>1. PathSegments(p) = PathSegments(Path(on, ps)) /\ PathSegments(label.path) = PathSegments(Path(on, rs))
      BY <1>2, <1>3
    <3> QED BY <2>3, <2>4, <3>1 DEF all
  <2> QED BY <2>2, <2>5 DEF question, shown, on
<1>6. shown = label \/ shown = [label EXCEPT !.path = Path(on, ps \o rs)]
  BY DEF DisplayLabel
<1> QED BY <1>4, <1>5, <1>6

LEMMA FoundAsShown ==
  ASSUME PlainPrefixes, NEW g, NEW i, IsRoute(g.nodes[i].route)
  PROVE  RankOf(g, i, [DisplayLabel(g.nodes[i].route, ForRepo(g.nodes[i].repo)) EXCEPT !.path.slash = TRUE]) <= 0
<1> DEFINE r == g.nodes[i].route
           p == ForRepo(g.nodes[i].repo)
           question == [DisplayLabel(r, p) EXCEPT !.path.slash = TRUE]
           v == PathSegments(question.path)
           query == Parse(question)
           route == NodeRoute(g.nodes[i])
           prefix == PathSegments(p)
<1>1. IsPath(p) /\ \A k \in DOMAIN p.segs : p.segs[k].k # "optional"
  BY ForRepoIs
<1>2. IsRoute(r) /\ IsPath(r.path)
  BY DEF IsRoute
<1>3. route.verb = r.verb /\ route.segs = PathSegments(r.path)
  BY DEF NodeRoute
<1>4. query.verb = question.verb /\ query.segs = v
  BY DEF Parse
<1>5. RankOf(g, i, question) = MatchRoute(query, route, prefix)
  BY DEF RankOf
<1> HIDE DEF r, p
<1>6. question.verb = r.verb /\ v \in {PathSegments(r.path), prefix \o PathSegments(r.path)}
  BY <1>1, <1>2, AsShown
<1>7. IsRead(v)
  BY <1>1, <1>2, <1>6, VariantsRead
<1> HIDE DEF question, v, query, route, prefix
<1>8. v \in Variants(route.segs, prefix)
  BY <1>3, <1>6 DEF Variants
<1>9. FitsAs(0, v, query.segs)
  <2>1. EqSegs(v, v, FALSE)
    BY <1>7, SameSegsFit
  <2>2. FitsAs(0, v, v)
    BY <2>1 DEF FitsAs
  <2> QED BY <1>4, <2>2
<1>10. MatchRoute(query, route, prefix) <= 0
  <2>1. 0 \in 0..3 /\ query.verb \in {"any", route.verb}
    BY <1>3, <1>4, <1>6
  <2> QED BY <1>8, <1>9, <2>1, RankBound
<1> QED BY <1>5, <1>10 DEF question, r, p

LEMMA FoundByRequest ==
  ASSUME PlainPrefixes, NEW g, NEW i, IsRoute(g.nodes[i].route), NEW q, Serves(g.nodes[i], q)
  PROVE  RankOf(g, i, q) <= 1
<1> DEFINE n == g.nodes[i]
           p == ForRepo(n.repo)
           v == ServedAt(n)
           query == Parse(q)
           route == NodeRoute(n)
           prefix == PathSegments(p)
<1>1. IsPath(p)
  BY ForRepoIs
<1>2. IsPath(n.route.path)
  BY DEF IsRoute
<1>3. route.verb = n.route.verb /\ route.segs = PathSegments(n.route.path)
  BY DEF NodeRoute
<1>4. query.verb = q.verb /\ query.segs = PathSegments(q.path)
  BY DEF Parse
<1>5. RankOf(g, i, q) = MatchRoute(query, route, prefix)
  BY DEF RankOf
<1>6. v = route.segs \/ v = prefix \o route.segs
  BY DEF ServedAt
<1>7. n.route.verb = q.verb /\ Len(v) = Len(query.segs) /\ \A k \in DOMAIN v : v[k] \in {Param, query.segs[k]}
  BY <1>4 DEF Serves
<1> HIDE DEF n, p, v, query, route
<1>8. IsRead(v)
  BY <1>1, <1>2, <1>3, <1>6, VariantsRead
<1> HIDE DEF prefix
<1>9. v \in Variants(route.segs, prefix)
  BY <1>6 DEF Variants
<1>10. FitsAs(1, v, query.segs)
  <2> DEFINE w == query.segs
  <2>1. Len(v) = Len(w) /\ \A k \in DOMAIN v : v[k] \in {Param, w[k]}
    BY <1>7
  <2> HIDE DEF w
  <2>2. EqSegs(v, w, TRUE)
    BY <1>8, <2>1, ServingFits
  <2>3. FitsAs(1, v, w)
    BY <2>2 DEF FitsAs
  <2> QED BY <2>3 DEF w
<1>11. MatchRoute(query, route, prefix) <= 1
  <2>1. 1 \in 0..3 /\ query.verb \in {"any", route.verb}
    BY <1>3, <1>4, <1>7
  <2> QED BY <1>9, <1>10, <2>1, RankBound
<1> QED BY <1>5, <1>11

-----------------------------------------------------------------------------
(* Listing.                                                                *)
Ahead(g, q, i, j) == RankOf(g, i, q) < RankOf(g, j, q) \/ (RankOf(g, i, q) = RankOf(g, j, q) /\ Earlier(g, i, j))

LEMMA AheadOrders ==
  ASSUME NEW g, NEW c, Held(g, c), Given(c), NEW q
  PROVE  /\ \A i \in RouteNodes(g) : ~Ahead(g, q, i, i)
         /\ \A i, j \in RouteNodes(g) : i # j => Ahead(g, q, i, j) \/ Ahead(g, q, j, i)
         /\ \A i, j, k \in RouteNodes(g) : Ahead(g, q, i, j) /\ Ahead(g, q, j, k) => Ahead(g, q, i, k)
<1> DEFINE A == RouteNodes(g)
<1>1. \A i \in A : i \in Nat /\ RankOf(g, i, q) \in 0..4 /\ PlaceOf(g, i) \in Nat /\ g.nodes[i].lo \in Nat
  <2> TAKE i \in A
  <2>1. i \in DOMAIN g.nodes /\ g.nodes[i].file \in ToSet(Files) /\ g.nodes[i].lo \in Nat
    BY RouteNodesAre
  <2>2. i \in Nat
    BY <2>1 DEF Held, Sound, Ided
  <2>3. RankOf(g, i, q) \in 0..4
    BY RankBound DEF RankOf
  <2> QED BY <2>1, <2>2, <2>3, PlaceIs
<1> HIDE DEF A
<1>2. \A i \in A : ~Ahead(g, q, i, i)
  BY <1>1 DEF Ahead, Earlier
<1>3. \A i, j \in A : i # j => Ahead(g, q, i, j) \/ Ahead(g, q, j, i)
  BY <1>1 DEF Ahead, Earlier
<1>4. \A i, j, k \in A : Ahead(g, q, i, j) /\ Ahead(g, q, j, k) => Ahead(g, q, i, k)
  BY <1>1, SMTT(30) DEF Ahead, Earlier
<1> QED BY <1>2, <1>3, <1>4 DEF A

LEMMA ImpactIs ==
  ASSUME NEW g, NEW q
  PROVE  LET M == {i \in RouteNodes(g) : RankOf(g, i, q) <= 1}
             H == {i \in M : ~Hides(g, i)}
             r == RouteImpact(g, q, FALSE)
         IN /\ {e.node : e \in r.entries} = {i \in H : Cardinality({j \in H : Ahead(g, q, j, i)}) < MaxRouteEntries}
            /\ r.total = Cardinality(H) /\ r.hidden = Cardinality(M \ H)
            /\ r.nearest # {} => H = {}
<1> DEFINE M == {i \in RouteNodes(g) : RankOf(g, i, q) <= 1}
           H == {i \in M : ~Hides(g, i)}
           found == FindRoutes(g, q, FALSE, 1)
           W == {i \in H : Cardinality({j \in H : Ahead(g, q, j, i)}) < MaxRouteEntries}
           r == RouteImpact(g, q, FALSE)
           Row(i) == [node |-> i, route |-> DisplayLabel(g.nodes[i].route, ForRepo(g.nodes[i].repo)), edges |-> EdgesOn(g, i)]
<1>1. found = [hits |-> H, hidden |-> Cardinality(M \ H)]
  <2>1. found = [hits |-> {i \in M : FALSE \/ ~Hides(g, i)}, hidden |-> Cardinality(M \ {i \in M : FALSE \/ ~Hides(g, i)})]
    BY DEF FindRoutes
  <2>2. {i \in M : FALSE \/ ~Hides(g, i)} = H
    OBVIOUS
  <2> QED BY <2>1, <2>2
<1> HIDE DEF found, H, M
<1>2. found.hits = H /\ found.hidden = Cardinality(M \ H)
  BY <1>1
<1>3. r = FoundRoutes(g, q, FALSE, found)
  BY DEF RouteImpact, found
<1>4. r = [entries |-> {Row(i) : i \in W}, total |-> Cardinality(H), hidden |-> Cardinality(M \ H),
           nearest |-> IF H = {} THEN NearestRoutes(g, q, FALSE) ELSE {}]
  BY <1>2, <1>3 DEF FoundRoutes, Ahead
<1> HIDE DEF r, W
<1>5. r.entries = {Row(i) : i \in W} /\ r.total = Cardinality(H) /\ r.hidden = Cardinality(M \ H)
  BY <1>4
<1>6. r.nearest # {} => H = {}
  BY <1>4
<1>7. {e.node : e \in r.entries} = W
  <2>1. \A i : Row(i).node = i
    OBVIOUS
  <2> HIDE DEF Row
  <2> QED BY <1>5, <2>1
<1> QED BY <1>5, <1>6, <1>7 DEF r, W, H, M

LEMMA HandlersFound ==
  ASSUME PlainPrefixes, NEW q, Held(graph, content), Given(content)
  PROVE  FindsHandlers(RouteImpact(graph, q, FALSE), {i \in RouteNodes(graph) : Serves(graph.nodes[i], q)})
<1> DEFINE N == RouteNodes(graph)
           M == {i \in N : RankOf(graph, i, q) <= 1}
           H == {i \in M : ~Hides(graph, i)}
           r == RouteImpact(graph, q, FALSE)
           S == {i \in N : Serves(graph.nodes[i], q)}
           W == {e.node : e \in r.entries}
           B == [i \in H |-> {j \in H : Ahead(graph, q, j, i)}]
           cap == MaxRouteEntries
<1>1. /\ W = {i \in H : Cardinality({j \in H : Ahead(graph, q, j, i)}) < cap}
      /\ r.total = Cardinality(H) /\ r.hidden = Cardinality(M \ H)
      /\ r.nearest # {} => H = {}
  BY ImpactIs
<1>2. S \subseteq M
  <2> SUFFICES ASSUME NEW i \in N, Serves(graph.nodes[i], q) PROVE RankOf(graph, i, q) <= 1
    OBVIOUS
  <2> QED BY RouteNodesAre, FoundByRequest
<1>3. IsFiniteSet(N)
  <2> DEFINE Y == 0..(graph.next - 1)
  <2>1. graph.next \in Nat /\ DOMAIN graph.nodes \subseteq Y
    BY DEF Held, Sound, Ided
  <2>2. 0 \in Int /\ graph.next - 1 \in Int
    BY <2>1
  <2>3. IsFiniteSet(Y)
    BY <2>2, FS_Interval
  <2>4. N \in SUBSET Y
    BY <2>1 DEF RouteNodes
  <2> HIDE DEF Y, N
  <2> QED BY <2>3, <2>4, FS_Subset
<1>4. /\ \A i \in N : ~Ahead(graph, q, i, i)
      /\ \A i, j \in N : i # j => Ahead(graph, q, i, j) \/ Ahead(graph, q, j, i)
      /\ \A i, j, k \in N : Ahead(graph, q, i, j) /\ Ahead(graph, q, j, k) => Ahead(graph, q, i, k)
  BY AheadOrders
<1>5. H \in SUBSET N /\ M \in SUBSET N
  OBVIOUS
<1>6. Shown(graph, S) \subseteq H
  BY <1>2 DEF Shown
<1>7. {i \in S : Hides(graph, i)} \in SUBSET (M \ H)
  BY <1>2
<1> HIDE DEF N, M, H, r, S, W
<1>8. IsFiniteSet(H) /\ IsFiniteSet(M \ H) /\ Cardinality(H) \in Nat
  <2>1. M \ H \in SUBSET N
    BY <1>5
  <2> QED BY <1>3, <1>5, <2>1, FS_Subset, FS_CardinalityType
<1>9. B \in [H -> SUBSET H] /\ \A i \in H : B[i] = {j \in H : Ahead(graph, q, j, i)}
  OBVIOUS
<1>10. /\ \A i \in H : i \notin B[i]
       /\ \A d, i \in H : d # i => d \in B[i] \/ i \in B[d]
       /\ \A d, i \in H : d \in B[i] => B[d] \subseteq B[i]
  BY <1>4, <1>5, <1>9
<1>11. W = {i \in H : Cardinality(B[i]) < cap} /\ cap \in Nat
  BY <1>1, <1>9, RoutesAssumption
<1> HIDE DEF B, cap
<1>12. Cardinality(W) = Min({Cardinality(H), cap}) /\ IsFiniteSet(W)
  BY <1>8, <1>9, <1>10, <1>11, CapExact
<1>13. Cardinality(H) <= cap => W = H
  <2> SUFFICES ASSUME Cardinality(H) <= cap PROVE W = H
    OBVIOUS
  <2>1. Min({Cardinality(H), cap}) = Cardinality(H)
    BY <1>8, <1>11 DEF Min
  <2>2. W \in SUBSET H
    BY <1>11
  <2> QED BY <1>8, <1>12, <2>1, <2>2, FS_Subset
<1>14. Cardinality({i \in S : Hides(graph, i)}) <= Cardinality(M \ H)
  <2> DEFINE T == {i \in S : Hides(graph, i)}
             R == M \ H
  <2>1. T \in SUBSET R /\ IsFiniteSet(R)
    BY <1>7, <1>8
  <2> HIDE DEF T, R
  <2>2. Cardinality(T) <= Cardinality(R)
    BY <2>1, FS_Subset
  <2> QED BY <2>2 DEF T, R
<1>15. FindsHandlers(r, S)
  <2>1. Cardinality(W) = Min({r.total, MaxRouteEntries})
    BY <1>1, <1>12 DEF cap
  <2>2. r.total <= MaxRouteEntries => Shown(graph, S) \subseteq W
    BY <1>1, <1>6, <1>13 DEF cap
  <2>3. r.nearest # {} => Shown(graph, S) = {}
    BY <1>1, <1>6
  <2>4. Cardinality({i \in S : Hides(graph, i)}) <= r.hidden
    BY <1>1, <1>14
  <2> QED BY <2>1, <2>2, <2>3, <2>4 DEF FindsHandlers, W
<1> QED BY <1>15 DEF r, S, N

LEMMA ShownRoutesFound ==
  ASSUME PlainPrefixes, Held(graph, content), Given(content)
  PROVE  ShownRouteIsFound
<1> SUFFICES ASSUME NEW i \in RouteNodes(graph)
             PROVE i \in FindRoutes(graph, [DisplayLabel(graph.nodes[i].route, ForRepo(graph.nodes[i].repo)) EXCEPT !.path.slash = TRUE], TRUE, 0).hits
  BY DEF ShownRouteIsFound
<1> DEFINE question == [DisplayLabel(graph.nodes[i].route, ForRepo(graph.nodes[i].repo)) EXCEPT !.path.slash = TRUE]
<1>1. RankOf(graph, i, question) <= 0
  BY RouteNodesAre, FoundAsShown
<1> HIDE DEF question
<1>2. i \in FindRoutes(graph, question, TRUE, 0).hits
  BY <1>1 DEF FindRoutes
<1> QED BY <1>2 DEF question

(* Whatever was built and reloaded before, a route asked for as            *)
(* `display_label` shows it is found, and a request finds whoever serves   *)
(* it.                                                                     *)
THEOREM RoutesAlwaysAnswered == ASSUME HubsReserved, PlainPrefixes PROVE Spec => []RoutesAnswered
<1>1. GraphInv => RoutesAnswered
  <2> SUFFICES ASSUME GraphInv PROVE RoutesAnswered
    OBVIOUS
  <2>1. Held(graph, content) /\ Given(content)
    BY InhabitedGiven DEF GraphInv
  <2> QED BY <2>1, HandlersFound, ShownRoutesFound DEF RoutesAnswered, RequestFindsItsHandlers
<1> QED BY <1>1, GraphInvAlways, PTL

-----------------------------------------------------------------------------
(* Diagrams and listings.                                                  *)
LEMMA ImageFinite ==
  ASSUME NEW S, IsFiniteSet(S), NEW F, DOMAIN F = S
  PROVE  IsFiniteSet({F[x] : x \in S})
<1> DEFINE T == {F[x] : x \in S}
           G == [x \in S |-> F[x]]
<1>1. G \in [S -> T] /\ \A t \in T : \E x \in S : G[x] = t
  OBVIOUS
<1> HIDE DEF G, T
<1>2. G \in Surjection(S, T)
  BY <1>1 DEF Surjection
<1>3. IsFiniteSet(T)
  BY <1>2, FS_Surjection
<1> QED BY <1>3 DEF T

LEMMA NodesFinite ==
  ASSUME NEW g, NEW c, Held(g, c)
  PROVE  IsFiniteSet(DOMAIN g.nodes)
<1> DEFINE Y == 0..(g.next - 1)
<1>1. g.next \in Nat /\ DOMAIN g.nodes \in SUBSET Y
  BY DEF Held, Sound, Ided
<1>2. 0 \in Int /\ g.next - 1 \in Int
  BY <1>1
<1>3. IsFiniteSet(Y)
  BY <1>2, FS_Interval
<1> HIDE DEF Y
<1> QED BY <1>1, <1>3, FS_Subset

(* One candidate group is the only one.                                    *)
LEMMA OnlyTarget ==
  ASSUME NEW g, NEW c, Held(g, c), NEW grp, DOMAIN grp = DOMAIN g.nodes, NEW E,
         \A e \in E : e.to \in DOMAIN g.nodes, SettledOn({grp[e.to] : e \in E}), NEW d \in E, NEW e \in E
  PROVE  grp[d.to] = grp[e.to] /\ (CHOOSE t \in {grp[x.to] : x \in E} : TRUE) = grp[e.to]
<1> DEFINE T == {grp[x.to] : x \in E}
           R == {grp[i] : i \in DOMAIN grp}
<1>1. IsFiniteSet(R)
  BY NodesFinite, ImageFinite
<1>2. T \in SUBSET R
  OBVIOUS
<1>3. Cardinality(T) = 1 /\ grp[d.to] \in T /\ grp[e.to] \in T
  BY DEF SettledOn
<1> HIDE DEF T, R
<1>4. IsFiniteSet(T)
  BY <1>1, <1>2, FS_Subset
<1>5. \E x : T = {x}
  BY <1>3, <1>4, FS_Singleton
<1>6. (CHOOSE t \in T : TRUE) \in T
  BY <1>3
<1> QED BY <1>3, <1>5, <1>6 DEF T

GroupsOf(g, focus) == [i \in DOMAIN g.nodes |-> GroupOf(g.nodes[i], i, ByRoot(g), focus)]
Crossing(g, grp) == {e \in g.edges : {e.from, e.to} \subseteq DOMAIN g.nodes /\ grp[e.from] # grp[e.to]}
OpenEdges(g, grp) == {e \in Crossing(g, grp) : e.conf = "ambiguous"}
Candidates(g, grp, d) == {e \in OpenEdges(g, grp) : Doubt(e) = d}
TargetsOf(g, grp, d) == {grp[e.to] : e \in Candidates(g, grp, d)}
SureLinks(g, grp) ==
  {[k |-> <<grp[e.from], grp[e.to], e.kind>>, conf |-> e.conf, of |-> Doubt(e), to |-> {e.to}] :
     e \in Crossing(g, grp) \ OpenEdges(g, grp)}
GuessedLinks(g, grp) ==
  {[k |-> <<grp[d[1]], CHOOSE t \in TargetsOf(g, grp, d) : TRUE, d[2]>>, conf |-> "heuristic", of |-> d, to |-> {}] :
     d \in {x \in {Doubt(e) : e \in OpenEdges(g, grp)} : SettledOn(TargetsOf(g, grp, x))}}

LEMMA LinkMade ==
  ASSUME NEW g, NEW focus, NEW l \in Aggregate(g, focus).links
  PROVE  LET grp == GroupsOf(g, focus) IN
         \E x \in SureLinks(g, grp) \cup GuessedLinks(g, grp) : l.from = x.k[1] /\ l.to = x.k[2] /\ l.kind = x.k[3]
<1> DEFINE grp == GroupsOf(g, focus)
           all == SureLinks(g, grp) \cup GuessedLinks(g, grp)
           weight(k) == Cardinality({x \in all : x.k = k})
           weakest(k) == IF \E x \in all : x.k = k /\ x.conf = "heuristic" THEN "heuristic" ELSE "exact"
           links == {[from |-> k[1], to |-> k[2], kind |-> k[3], count |-> weight(k), weakest |-> weakest(k)] :
                       k \in {x.k : x \in all}}
<1>1. Aggregate(g, focus).links = links
  BY DEF Aggregate, GroupsOf, SureLinks, GuessedLinks, Candidates, OpenEdges, Crossing, TargetsOf
<1> HIDE DEF all, weight, weakest
<1>2. PICK k \in {x.k : x \in all} : l = [from |-> k[1], to |-> k[2], kind |-> k[3], count |-> weight(k), weakest |-> weakest(k)]
  BY <1>1
<1>3. l.from = k[1] /\ l.to = k[2] /\ l.kind = k[3]
  BY <1>2
<1>4. PICK x \in all : k = x.k
  BY <1>2
<1> QED BY <1>3, <1>4 DEF all

LEMMA LinkBacked ==
  ASSUME NEW g, NEW c, Held(g, c), NEW focus, NEW l \in Aggregate(g, focus).links
  PROVE  LET at(i) == GroupOf(g.nodes[i], i, ByRoot(g), focus)
             between == {e \in g.edges : /\ {e.from, e.to} \subseteq DOMAIN g.nodes /\ e.kind = l.kind
                                         /\ at(e.from) = l.from /\ at(e.to) = l.to}
         IN \E e \in between :
              e.conf = "ambiguous" => \A d \in g.edges :
                (Doubt(d) = Doubt(e) /\ d.conf = "ambiguous" /\ d.to \in DOMAIN g.nodes) => at(d.to) \in {l.from, l.to}
<1> DEFINE grp == GroupsOf(g, focus)
           at(i) == GroupOf(g.nodes[i], i, ByRoot(g), focus)
           between == {e \in g.edges : /\ {e.from, e.to} \subseteq DOMAIN g.nodes /\ e.kind = l.kind
                                       /\ at(e.from) = l.from /\ at(e.to) = l.to}
<1>1. DOMAIN grp = DOMAIN g.nodes /\ \A i \in DOMAIN g.nodes : grp[i] = at(i)
  BY DEF GroupsOf
<1>2. PICK x \in SureLinks(g, grp) \cup GuessedLinks(g, grp) : l.from = x.k[1] /\ l.to = x.k[2] /\ l.kind = x.k[3]
  BY LinkMade
<1> HIDE DEF grp
<1>3. CASE x \in SureLinks(g, grp)
  <2>1. PICK e \in Crossing(g, grp) \ OpenEdges(g, grp) :
          x = [k |-> <<grp[e.from], grp[e.to], e.kind>>, conf |-> e.conf, of |-> Doubt(e), to |-> {e.to}]
    BY <1>3 DEF SureLinks
  <2>2. x.k[1] = grp[e.from] /\ x.k[2] = grp[e.to] /\ x.k[3] = e.kind
    BY <2>1
  <2>3. e \in g.edges /\ e.from \in DOMAIN g.nodes /\ e.to \in DOMAIN g.nodes /\ e.conf # "ambiguous"
    BY <2>1 DEF Crossing, OpenEdges
  <2>4. e \in between
    BY <1>1, <1>2, <2>2, <2>3
  <2> QED BY <2>3, <2>4
<1>4. CASE x \in GuessedLinks(g, grp)
  <2>1. PICK q \in {y \in {Doubt(e) : e \in OpenEdges(g, grp)} : SettledOn(TargetsOf(g, grp, y))} :
          x = [k |-> <<grp[q[1]], CHOOSE t \in TargetsOf(g, grp, q) : TRUE, q[2]>>, conf |-> "heuristic", of |-> q, to |-> {}]
    BY <1>4 DEF GuessedLinks
  <2>2. PICK e \in OpenEdges(g, grp) : q = Doubt(e)
    BY <2>1
  <2>3. x.k[1] = grp[e.from] /\ x.k[3] = e.kind /\ x.k[2] = CHOOSE t \in TargetsOf(g, grp, q) : TRUE
    BY <2>1, <2>2 DEF Doubt
  <2>4. e \in g.edges /\ e.from \in DOMAIN g.nodes /\ e.to \in DOMAIN g.nodes
    BY <2>2 DEF OpenEdges, Crossing
  <2> DEFINE E == Candidates(g, grp, q)
  <2>5. e \in E /\ (\A d \in E : d.to \in DOMAIN g.nodes) /\ SettledOn({grp[d.to] : d \in E})
    BY <2>1, <2>2 DEF Candidates, OpenEdges, Crossing, TargetsOf
  <2>6. x.k[2] = CHOOSE t \in {grp[d.to] : d \in E} : TRUE
    BY <2>3 DEF TargetsOf
  <2> HIDE DEF E
  <2>7. (\A d \in E : grp[d.to] = grp[e.to]) /\ x.k[2] = grp[e.to]
    <3>1. DOMAIN grp = DOMAIN g.nodes /\ e \in E /\ \A d \in E : d.to \in DOMAIN g.nodes
      BY <1>1, <2>5
    <3>2. SettledOn({grp[d.to] : d \in E})
      BY <2>5
    <3>3. ASSUME NEW d \in E PROVE grp[d.to] = grp[e.to] /\ (CHOOSE t \in {grp[y.to] : y \in E} : TRUE) = grp[e.to]
      BY ONLY Held(g, c), <3>1, <3>2, <3>3, OnlyTarget
    <3> QED BY <2>5, <2>6, <3>3
  <2>8. e \in between
    BY <1>1, <1>2, <2>3, <2>4, <2>7
  <2>9. ASSUME NEW d \in g.edges, Doubt(d) = Doubt(e), d.conf = "ambiguous", d.to \in DOMAIN g.nodes
        PROVE  at(d.to) \in {l.from, l.to}
    <3>1. d.from = e.from
      BY <2>9 DEF Doubt
    <3>2. CASE grp[d.to] = grp[e.from]
      BY <1>1, <1>2, <2>3, <2>9, <3>2
    <3>3. CASE grp[d.to] # grp[e.from]
      <4>1. d \in E
        BY <2>2, <2>4, <2>9, <3>1, <3>3 DEF E, Candidates, OpenEdges, Crossing
      <4> QED BY <1>1, <1>2, <2>7, <2>9, <4>1
    <3> QED BY <3>2, <3>3
  <2> QED BY <2>8, <2>9
<1> QED BY <1>2, <1>3, <1>4

(* Whatever was built and reloaded before, a link that `Aggregate::build`  *)
(* draws between two services, at the overview or with a service opened,   *)
(* has an edge of the graph that makes it and is no guess among several.   *)
THEOREM LinksAlwaysBacked == ASSUME HubsReserved PROVE Spec => []LinksAreBacked
<1>1. GraphInv => LinksAreBacked
  BY LinkBacked DEF GraphInv, LinksAreBacked
<1> QED BY <1>1, GraphInvAlways, PTL

-----------------------------------------------------------------------------
(* What `find_dependents` leaves out.                                      *)
LEMMA DependentsKnown ==
  ASSUME NEW g, NEW t
  PROVE  DependentsMatched(g, t).ids \subseteq DOMAIN g.nodes
<1>1. \A S : Known(g, S) \subseteq DOMAIN g.nodes
  BY DEF Known
<1> QED BY <1>1 DEF DependentsMatched, Importers

(* What is left out makes up, with what is listed, the whole.              *)
LEMMA Complement ==
  ASSUME NEW A, IsFiniteSet(A), NEW B \in SUBSET A, NEW C, IsFiniteSet(C), \A x : x \in A <=> x \in B \/ x \in C,
         \A x \in C : x \notin B
  PROVE  Cardinality(A) - Cardinality(B) = Cardinality(C)
<1>1. A \ B = C /\ A \cap B = B
  OBVIOUS
<1>2. Cardinality(A \ B) = Cardinality(A) - Cardinality(A \cap B)
  BY FS_Difference
<1> QED BY <1>1, <1>2

LEMMA UnitsFinite ==
  ASSUME NEW g, NEW S, IsFiniteSet(S), NEW granularity \in Granularities
  PROVE  IsFiniteSet(Units(g, S, granularity))
<1>1. CASE granularity = "symbol"
  BY <1>1 DEF Units
<1>2. CASE granularity = "file"
  <2> DEFINE F == [i \in S |-> g.nodes[i].file]
  <2>1. DOMAIN F = S /\ {F[i] : i \in S} = {g.nodes[i].file : i \in S}
    OBVIOUS
  <2> HIDE DEF F
  <2>2. IsFiniteSet({F[i] : i \in S})
    BY <2>1, ImageFinite
  <2>3. Units(g, S, granularity) = {g.nodes[i].file : i \in S}
    BY <1>2 DEF Units
  <2> QED BY <2>1, <2>2, <2>3
<1>3. CASE granularity = "package"
  <2> DEFINE F == [i \in S |-> Package(g, i)]
  <2>1. DOMAIN F = S /\ {F[i] : i \in S} = {Package(g, i) : i \in S}
    OBVIOUS
  <2> HIDE DEF F
  <2>2. IsFiniteSet({F[i] : i \in S})
    BY <2>1, ImageFinite
  <2>3. Units(g, S, granularity) = {Package(g, i) : i \in S}
    BY <1>3 DEF Units
  <2> QED BY <2>1, <2>2, <2>3
<1> QED BY <1>1, <1>2, <1>3 DEF Granularities

LEMMA UnitsOf ==
  ASSUME NEW g, NEW S
  PROVE  /\ Units(g, S, "symbol") = S
         /\ Units(g, S, "file") = {g.nodes[i].file : i \in S}
         /\ Units(g, S, "package") = {Package(g, i) : i \in S}
BY DEF Units

LEMMA ListingCounts ==
  ASSUME NEW g, NEW all, IsFiniteSet(all), NEW granularity \in Granularities
  PROVE  LeavesOut(ListingOf(g, all, FALSE, granularity), ListingOf(g, all, TRUE, granularity))
<1> DEFINE kept == Shown(g, all)
           tests == all \ kept
           A == Units(g, all, granularity)
           B == Units(g, kept, granularity)
           R == Units(g, tests, granularity)
           C == R \ (IF granularity = "package" THEN B ELSE {})
           r == ListingOf(g, all, FALSE, granularity)
           whole == ListingOf(g, all, TRUE, granularity)
<1>1. \A i : (i \in kept <=> i \in all /\ ~Hides(g, i)) /\ (i \in tests <=> i \in all /\ Hides(g, i))
  BY DEF Shown
<1>2. whole.listed = A /\ r.listed = B /\ r.hidden = Cardinality(C)
  BY DEF ListingOf, Listing, HiddenUnits
<1>3. tests \in SUBSET all /\ kept \in SUBSET all
  BY <1>1
<1> HIDE DEF kept, tests
<1>4. IsFiniteSet(A) /\ IsFiniteSet(R)
  <2>1. IsFiniteSet(tests)
    BY <1>3, FS_Subset
  <2> QED BY <2>1, UnitsFinite
<1>5. IsFiniteSet(C)
  <2>1. C \in SUBSET R
    OBVIOUS
  <2> HIDE DEF C, R
  <2> QED BY <1>4, <2>1, FS_Subset
<1>6. (\A x : x \in A <=> x \in B \/ x \in C) /\ (\A x \in C : x \notin B)
  <2>1. CASE granularity = "symbol"
    BY <1>1, <2>1, UnitsOf
  <2>2. CASE granularity = "file"
    <3>1. /\ \A x : x \in A <=> \E i \in all : x = g.nodes[i].file
          /\ \A x : x \in B <=> \E i \in kept : x = g.nodes[i].file
          /\ \A x : x \in C <=> \E i \in tests : x = g.nodes[i].file
      BY <2>2, UnitsOf
    <3> HIDE DEF A, B, C
    <3> QED BY <1>1, <3>1 DEF Hides
  <2>3. CASE granularity = "package"
    <3>1. /\ \A x : x \in A <=> \E i \in all : x = Package(g, i)
          /\ \A x : x \in B <=> \E i \in kept : x = Package(g, i)
          /\ \A x : x \in R <=> \E i \in tests : x = Package(g, i)
          /\ C = R \ B
      BY <2>3, UnitsOf
    <3> HIDE DEF A, B, C, R
    <3> QED BY <1>1, <3>1
  <2> QED BY <2>1, <2>2, <2>3 DEF Granularities
<1> HIDE DEF A, B, C, R, r, whole
<1>7. Cardinality(A) - Cardinality(B) = Cardinality(C)
  <2>1. B \in SUBSET A
    BY <1>6
  <2> QED BY <1>4, <1>5, <1>6, <2>1, Complement
<1>8. LeavesOut(r, whole)
  BY <1>2, <1>7 DEF LeavesOut
<1> QED BY <1>8 DEF r, whole

LEMMA LeftOutCounted == ASSUME Held(graph, content) PROVE LeftOutIsCounted
<1> SUFFICES ASSUME NEW t \in Targets, NEW granularity \in Granularities
             PROVE  LeavesOut(Resolve(graph, t, FALSE, granularity), Resolve(graph, t, TRUE, granularity))
  BY DEF LeftOutIsCounted
<1> DEFINE all == DependentsMatched(graph, t).ids
<1>1. all \in SUBSET DOMAIN graph.nodes
  BY DependentsKnown
<1>2. /\ Resolve(graph, t, FALSE, granularity) = ListingOf(graph, all, FALSE, granularity)
      /\ Resolve(graph, t, TRUE, granularity) = ListingOf(graph, all, TRUE, granularity)
  BY DEF Resolve
<1> HIDE DEF all
<1>3. IsFiniteSet(all)
  BY <1>1, NodesFinite, FS_Subset
<1> QED BY <1>2, <1>3, ListingCounts

(* Whatever was built and reloaded before, the number of units that        *)
(* `resolve` of find_dependents says it leaves out is the number it would  *)
(* list more with the tests, by symbol, by file and by package.            *)
THEOREM LeftOutAlwaysCounted == ASSUME HubsReserved PROVE Spec => []LeftOutIsCounted
<1>1. GraphInv => LeftOutIsCounted
  BY LeftOutCounted DEF GraphInv
<1> QED BY <1>1, GraphInvAlways, PTL

-----------------------------------------------------------------------------
(* The matrix of a change: who serves a contract is inside.                *)
GrpcKinds == {"GrpcMethod", "GrpcService"}

LEMMA ImplementsFrom ==
  ASSUME HubsReserved, NEW b, NEW c, Held(b, c), Given(c), NEW r, r = ReconcileEdges(b), NEW e \in r.edges,
         e.kind = "Implements"
  PROVE  e.from \in DOMAIN r.nodes /\ r.nodes[e.from].kind \in GrpcKinds
<1> DEFINE h == WithHubs(b)
           names == RpcNames(h)
<1>1. /\ r.edges = Unranked(ImportEdges(b) \cup TopicEdges(h) \cup ImplementsEdges(h, names) \cup CallEdges(h, names))
      /\ r.nodes = h.nodes
  BY Reconciliation DEF SameNodes
<1> HIDE DEF h, names
<1>2. PICK d \in ImportEdges(b) \cup TopicEdges(h) \cup ImplementsEdges(h, names) \cup CallEdges(h, names) : e = Bare(d)
  BY <1>1 DEF Unranked, Bare
<1>3. d.kind = "Implements" /\ e.from = d.from
  BY <1>2 DEF Bare
<1>4. d \notin ImportEdges(b)
  BY <1>3, ImportsSure
<1>5. d \notin TopicEdges(h)
  <2> SUFFICES ASSUME NEW k, d \in DirectEdges(h, k) \cup WildcardEdges(h, k) PROVE FALSE
    BY DEF TopicEdges
  <2>1. d \in DirectEdges(h, k)
    BY <1>3, WildcardSure
  <2> DEFINE hub == HubsOf(h, k)[1]
  <2>2. (\E i : d = Edge(i, hub, "Produces", k, TopicConf(h, i), 0)) \/ (\E i : d = Edge(hub, i, "Consumes", k, TopicConf(h, i), 0))
    BY <2>1 DEF DirectEdges
  <2> HIDE DEF hub
  <2>3. d.kind \in {"Produces", "Consumes"}
    BY <2>2, EdgeParts
  <2> QED BY <1>3, <2>3
<1>6. d \notin CallEdges(h, names)
  <2> SUFFICES ASSUME d \in CallEdges(h, names) PROVE FALSE
    OBVIOUS
  <2>1. PICK j \in DOMAIN h.calls : \E t \in CallTargets(h, names, h.calls[j]).to :
          d = Edge(h.calls[j].by, t[1], "CallsRpc", CallTargets(h, names, h.calls[j]).n, t[2], j)
    BY DEF CallEdges, FirstWins
  <2>2. d.kind = "CallsRpc"
    BY <2>1, EdgeParts
  <2> QED BY <1>3, <2>2
<1>7. PICK x \in Handlers(h) \X ProtoMethods(h) :
        d = Edge(x[1], x[2], "Implements", h.nodes[x[2]].name, ImplementsConf(h, names, x[1], x[2]), 0)
  BY <1>2, <1>4, <1>5, <1>6 DEF ImplementsEdges
<1>8. d.from = x[1] /\ x[1] \in Handlers(h)
  BY <1>7, EdgeParts
<1> QED BY <1>1, <1>3, <1>8 DEF Handlers, GrpcKinds

LEMMA GrpcAtHome ==
  ASSUME NEW g, NEW c, Held(g, c), Given(c), NEW i \in DOMAIN g.nodes, g.nodes[i].kind \in GrpcKinds
  PROVE  g.nodes[i].repo # NoRepo
<1>1. g.nodes[i].file \in ToSet(Files)
  <2> SUFFICES ASSUME g.nodes[i].file \notin ToSet(Files) PROVE FALSE
    OBVIOUS
  <2> DEFINE k == g.nodes[i].name
  <2>1. g.nodes[i] = HubNode(k)
    BY DEF Held, Placed
  <2> HIDE DEF k
  <2>2. g.nodes[i].kind = "EventStream"
    BY <2>1, HubFields
  <2> QED BY <2>2 DEF GrpcKinds
<1> QED BY <1>1, RepoOf

IsRow(r) ==
  /\ r = [node |-> r.node, role |-> r.role, conf |-> r.conf, via |-> r.via, scope |-> r.scope]
  /\ r.conf \in Confidences /\ r.scope \in {"internal", "external"}

LEMMA OneRowOnly ==
  ASSUME NEW R, \A r \in R : IsRow(r), NEW r \in OneRow(R), NEW s \in OneRow(R),
         r.node = s.node, r.role = s.role, r.via = s.via
  PROVE  r = s
<1> SUFFICES ASSUME r # s PROVE FALSE
  OBVIOUS
<1>1. IsRow(r) /\ IsRow(s) /\ Better(r, s) /\ Better(s, r)
  BY DEF OneRow
<1>2. Strength(r.conf) \in 0..2 /\ Strength(s.conf) \in 0..2
  BY <1>1 DEF IsRow, Strength, Confidences
<1>3. Strength(r.conf) = Strength(s.conf) /\ r.scope = "external" /\ s.scope = "external"
  BY <1>1, <1>2 DEF Better
<1>4. r.conf = s.conf
  BY <1>1, <1>3 DEF IsRow, Strength, Confidences
<1> QED BY <1>1, <1>3, <1>4 DEF IsRow

LEMMA LinkedRow ==
  ASSUME NEW g, NEW A, \A e \in g.edges : Sure(e), NEW l \in Linked(g, A)
  PROVE  /\ l.role \in {"handler", "client"} /\ l.conf \in Confidences
         /\ l.role = "handler" => l.anchor \in A /\ \E e \in g.edges : e.kind = "Implements" /\ l.node = e.from
<1> DEFINE row(e, a, conf) == [node |-> e.from, role |-> RoleOf(e), conf |-> conf, via |-> e.to, anchor |-> a]
<1>1. \A e, a, conf : row(e, a, conf).node = e.from /\ row(e, a, conf).role = RoleOf(e) /\ row(e, a, conf).conf = conf /\ row(e, a, conf).anchor = a
  OBVIOUS
<1>2. \/ \E e \in g.edges : e.kind \in {"Implements", "CallsRpc"} /\ e.to \in A /\ l = row(e, e.to, e.conf)
      \/ \E a \in A : \E e \in g.edges : e.kind = "CallsRpc" /\ l = row(e, a, Weakest(e.conf, "heuristic"))
  BY DEF Linked
<1> HIDE DEF row
<1>3. \A e : e.kind \in {"Implements", "CallsRpc"} => RoleOf(e) \in {"handler", "client"} /\ (RoleOf(e) = "handler" => e.kind = "Implements")
  BY DEF RoleOf
<1>4. \A x \in Confidences : Weakest(x, "heuristic") \in Confidences
  BY DEF Weakest, Confidences
<1>5. CASE \E e \in g.edges : e.kind \in {"Implements", "CallsRpc"} /\ e.to \in A /\ l = row(e, e.to, e.conf)
  BY <1>1, <1>3, <1>5 DEF Sure
<1>6. CASE \E a \in A : \E e \in g.edges : e.kind = "CallsRpc" /\ l = row(e, a, Weakest(e.conf, "heuristic"))
  <2>1. PICK a \in A : \E e \in g.edges : e.kind = "CallsRpc" /\ l = row(e, a, Weakest(e.conf, "heuristic"))
    BY <1>6
  <2>2. PICK e \in g.edges : e.kind = "CallsRpc" /\ l = row(e, a, Weakest(e.conf, "heuristic"))
    BY <2>1
  <2>3. l.role = "client" /\ l.conf = Weakest(e.conf, "heuristic") /\ e.conf \in Confidences
    BY <1>1, <2>2 DEF RoleOf, Sure
  <2> QED BY <1>4, <2>3
<1> QED BY <1>2, <1>5, <1>6

(* What links a row is a node.                                             *)
LEMMA LinkedVia ==
  ASSUME NEW g, NEW c, Held(g, c), NEW t, NEW l \in Linked(g, Anchors(g, t))
  PROVE  l.via # NoVia
<1>1. DOMAIN g.nodes \subseteq Nat /\ Sound(g)
  BY DEF Held, Sound, Ided
<1>2. \A i \in Anchors(g, t) : i \in DOMAIN g.nodes
  BY DEF Anchors, AnchorMatches, Symbols, Mentions, MethodsOf, GrpcNodes
<1>3. \A n : \A s \in Ids(g.byName, n) : s \in DOMAIN g.nodes
  BY <1>1, NamedNodes DEF Ids
<1>4. \A a : \A s \in ServicesNamed(g, a) : s \in DOMAIN g.nodes
  BY <1>3 DEF ServicesNamed
<1>5. \/ \E e \in g.edges : e.to \in Anchors(g, t) /\ l.via = e.to
      \/ \E a \in Anchors(g, t) : \E e \in g.edges : e.to \in ServicesNamed(g, a) /\ l.via = e.to
  BY DEF Linked
<1>6. l.via \in DOMAIN g.nodes
  BY <1>2, <1>4, <1>5
<1> QED BY <1>1, <1>6 DEF NoVia

LEMMA MatchedRow ==
  ASSUME NEW g, NEW t, NEW l \in Matched(g, t)
  PROVE  /\ l.role \in {"handler", "client"} /\ l.conf \in Confidences /\ l.via = NoVia
         /\ l.node \in DOMAIN g.nodes /\ g.nodes[l.node].kind \in GrpcKinds
<1>1. PICK i \in Anchors(g, t) :
        l = [node |-> i, role |-> IF g.nodes[i].site = "rpc" THEN "client" ELSE "handler",
             conf |-> MatchConf(g, t, i), via |-> NoVia, anchor |-> NoVia]
  BY DEF Matched
<1>2. l.node = i /\ l.role \in {"handler", "client"} /\ l.conf = MatchConf(g, t, i) /\ l.via = NoVia
  BY <1>1
<1>3. MatchConf(g, t, i) \in Confidences
  BY KindsNamed DEF MatchConf
<1>4. i \in GrpcNodes(g)
  BY DEF Anchors, AnchorMatches, Symbols, Mentions, MethodsOf
<1> QED BY <1>2, <1>3, <1>4 DEF GrpcNodes, GrpcKinds

LEMMA AsyncRow ==
  ASSUME NEW g, NEW flow, NEW r \in AsyncRows(g, flow).rows
  PROVE  IsRow(r) /\ r.via = NoVia /\ r.role \notin {"handler", "client"}
<1> DEFINE owners == IF Repos(g, flow.upstream) # {} THEN Repos(g, flow.upstream) ELSE Repos(g, flow.topics)
           role(i, x) == CASE g.nodes[i].site = "produce" -> "producer"
                           [] g.nodes[i].site = "consume" -> "consumer" [] OTHER -> x
           row(i, x) == [node |-> i, role |-> role(i, x), conf |-> AsyncConf(g, i, Lower(flow.key)), via |-> NoVia,
                         scope |-> ScopeOf(g, i, owners)]
<1>1. \E x \in {"producer", "topic", "consumer", "saga"} : \E i : r = row(i, x)
  BY DEF AsyncRows
<1>2. PICK x \in {"producer", "topic", "consumer", "saga"} : \E i : r = row(i, x)
  BY <1>1
<1>3. PICK i : r = row(i, x)
  BY <1>2
<1>4. role(i, x) \in {"producer", "topic", "consumer", "saga"}
  BY <1>2
<1>5. AsyncConf(g, i, Lower(flow.key)) \in Confidences
  BY KindsNamed DEF AsyncConf, TopicConf
<1>6. ScopeOf(g, i, owners) \in {"internal", "external"}
  BY DEF ScopeOf
<1> HIDE DEF role, owners
<1>7. r.role = role(i, x) /\ r.conf = AsyncConf(g, i, Lower(flow.key)) /\ r.via = NoVia /\ r.scope = ScopeOf(g, i, owners)
      /\ r = [node |-> r.node, role |-> r.role, conf |-> r.conf, via |-> r.via, scope |-> r.scope]
  BY <1>3
<1>8. r.role \notin {"handler", "client"}
  BY <1>4, <1>7
<1>9. IsRow(r)
  BY <1>5, <1>6, <1>7 DEF IsRow
<1> QED BY <1>7, <1>8, <1>9

LEMMA ScopedRow ==
  ASSUME NEW g, NEW l, l.conf \in Confidences, NEW own
  PROVE  LET r == Scoped(g, l, own) IN
         /\ IsRow(r) /\ r.node = l.node /\ r.role = l.role /\ r.via = l.via
         /\ (g.nodes[l.node].repo \in own /\ g.nodes[l.node].repo # NoRepo => r.scope = "internal")
<1> DEFINE r == Scoped(g, l, own)
           s == ScopeOf(g, l.node, own)
<1>1. s \in {"internal", "external"} /\ (g.nodes[l.node].repo \in own /\ g.nodes[l.node].repo # NoRepo => s = "internal")
  BY DEF ScopeOf
<1> HIDE DEF s
<1>2. r = [node |-> l.node, role |-> l.role, conf |-> l.conf, via |-> l.via, scope |-> s]
  BY DEF Scoped, s
<1> QED BY <1>1, <1>2 DEF IsRow

(* What a row of the matrix says of a contract, whatever its flow.         *)
LEMMA GrpcRow ==
  ASSUME NEW g, NEW c, Held(g, c), Given(c), \A e \in g.edges : Sure(e),
         \A e \in g.edges : e.kind = "Implements" => e.from \in DOMAIN g.nodes /\ g.nodes[e.from].kind \in GrpcKinds,
         NEW t, NEW r \in GrpcRows(g, t).rows
  PROVE  /\ IsRow(r) /\ r.role \in {"handler", "client"}
         /\ r.role = "handler" => r.scope = "internal" /\ g.nodes[r.node].repo \in GrpcRows(g, t).owners
         /\ \/ \E l \in Linked(g, Anchors(g, t)) : l.node = r.node /\ l.role = r.role /\ l.via = r.via
            \/ r.via = NoVia /\ \A l \in Linked(g, Anchors(g, t)) : l.node # r.node \/ l.role # r.role
<1> DEFINE A == Anchors(g, t)
           links == Linked(g, A)
           matched == Matched(g, t)
           direct == {x \in matched : \A l \in links : l.node # x.node \/ l.role # x.role}
           serve == {x.node : x \in {y \in matched : y.role = "handler"}}
           traced == (UNION {OwnersOf(g, links, a) : a \in A})
           owners == traced \cup Repos(g, serve)
<1>1. /\ GrpcRows(g, t).owners = owners
      /\ GrpcRows(g, t).rows = {Scoped(g, x, OwnersOf(g, links, x.anchor)) : x \in links} \cup {Scoped(g, x, owners) : x \in direct}
  BY DEF GrpcRows, RowsThrough, LinkedRows
<1>2. \A l \in links : /\ l.role \in {"handler", "client"} /\ l.conf \in Confidences
                       /\ l.role = "handler" => l.anchor \in A /\ \E e \in g.edges : e.kind = "Implements" /\ l.node = e.from
  BY LinkedRow
<1>3. \A l \in matched : /\ l.role \in {"handler", "client"} /\ l.conf \in Confidences /\ l.via = NoVia
                         /\ l.node \in DOMAIN g.nodes /\ g.nodes[l.node].kind \in GrpcKinds
  BY MatchedRow
<1>4. \A a \in A : OwnersOf(g, links, a) \subseteq owners
  OBVIOUS
<1>5. \A x \in matched : x.role = "handler" /\ g.nodes[x.node].repo # NoRepo => g.nodes[x.node].repo \in owners
  <2> SUFFICES ASSUME NEW x \in matched, x.role = "handler", g.nodes[x.node].repo # NoRepo PROVE g.nodes[x.node].repo \in owners
    OBVIOUS
  <2>1. x.node \in serve
    OBVIOUS
  <2> HIDE DEF serve, traced, A, links, matched
  <2>2. \A y \in Repos(g, serve) : y \in owners
    OBVIOUS
  <2> HIDE DEF owners
  <2>3. g.nodes[x.node].repo \in Repos(g, serve)
    BY <2>1 DEF Repos
  <2> QED BY <2>2, <2>3
<1> HIDE DEF A, links, matched, owners
<1>6. CASE \E l \in links : r = Scoped(g, l, OwnersOf(g, links, l.anchor))
  <2>1. PICK l \in links : r = Scoped(g, l, OwnersOf(g, links, l.anchor))
    BY <1>6
  <2> DEFINE own == OwnersOf(g, links, l.anchor)
             n == l.node
  <2>2. /\ IsRow(r) /\ r.node = n /\ r.role = l.role /\ r.via = l.via
        /\ (g.nodes[n].repo \in own /\ g.nodes[n].repo # NoRepo => r.scope = "internal")
    BY <1>2, <2>1, ScopedRow
  <2>3. ASSUME l.role = "handler" PROVE g.nodes[n].repo \in own /\ g.nodes[n].repo # NoRepo /\ own \subseteq owners
    <3>1. g.nodes[n].repo # NoRepo
      <4>1. n \in DOMAIN g.nodes /\ g.nodes[n].kind \in GrpcKinds
        BY <1>2, <2>3
      <4> QED BY <4>1, GrpcAtHome
    <3> DEFINE serving == Repos(g, {x.node : x \in {y \in links : y.anchor = l.anchor /\ y.role = "handler"}})
    <3>2. g.nodes[n].repo \in serving
      BY <2>3, <3>1 DEF Repos
    <3>3. own = serving
      <4>1. serving # {}
        BY <3>2
      <4> QED BY <4>1 DEF OwnersOf
    <3>4. own \subseteq owners
      BY <1>2, <1>4, <2>3
    <3> QED BY <3>1, <3>2, <3>3, <3>4
  <2> QED BY <1>1, <1>2, <2>2, <2>3 DEF links, A
<1>7. CASE \E l \in direct : r = Scoped(g, l, owners)
  <2>1. PICK l \in direct : r = Scoped(g, l, owners)
    BY <1>7
  <2> DEFINE n == l.node
  <2>2. l \in matched /\ \A x \in links : x.node # n \/ x.role # l.role
    BY <2>1
  <2>3. /\ IsRow(r) /\ r.node = n /\ r.role = l.role /\ r.via = NoVia
        /\ (g.nodes[n].repo \in owners /\ g.nodes[n].repo # NoRepo => r.scope = "internal")
    BY <1>3, <2>1, <2>2, ScopedRow
  <2>4. g.nodes[n].repo # NoRepo
    BY <1>3, <2>2, GrpcAtHome
  <2>5. l.role = "handler" => g.nodes[n].repo \in owners
    BY <1>5, <2>2, <2>4
  <2> QED BY <1>1, <1>3, <2>2, <2>3, <2>4, <2>5 DEF links, A
<1> QED BY <1>1, <1>6, <1>7

LEMMA MatrixOwns ==
  ASSUME NEW c, Held(graph, c), Given(c), \A e \in graph.edges : Sure(e),
         \A e \in graph.edges : e.kind = "Implements" => e.from \in DOMAIN graph.nodes /\ graph.nodes[e.from].kind \in GrpcKinds,
         NEW t, NEW flow
  PROVE  HandlersOwn(MatrixAlong(graph, t, flow))
<1> DEFINE grpc == GrpcRows(graph, t)
           async == AsyncRows(graph, flow)
           R == grpc.rows \cup async.rows
           m == MatrixAlong(graph, t, flow)
           links == Linked(graph, Anchors(graph, t))
<1>1. m.rows \subseteq OneRow(R) /\ m.owners = grpc.owners \cup async.owners
  BY DEF MatrixAlong, MatrixOf, Matrix
<1>2. \A r \in grpc.rows :
         /\ IsRow(r) /\ r.role \in {"handler", "client"}
         /\ r.role = "handler" => r.scope = "internal" /\ graph.nodes[r.node].repo \in grpc.owners
         /\ \/ \E l \in links : l.node = r.node /\ l.role = r.role /\ l.via = r.via
            \/ r.via = NoVia /\ \A l \in links : l.node # r.node \/ l.role # r.role
  BY GrpcRow
<1>3. \A r \in async.rows : IsRow(r) /\ r.via = NoVia /\ r.role \notin {"handler", "client"}
  BY AsyncRow
<1>7. \A l \in links : l.via # NoVia
  BY LinkedVia
<1> HIDE DEF grpc, async, m, links
<1>4. \A r \in m.rows : r \in grpc.rows \/ r \in async.rows
  BY <1>1 DEF OneRow
<1>5. \A r \in m.rows : r.role = "handler" => r.scope = "internal" /\ graph.nodes[r.node].repo \in m.owners
  BY <1>1, <1>2, <1>3, <1>4
<1>6. ASSUME NEW r \in m.rows, NEW s \in m.rows, r.node = s.node, r.role = s.role
      PROVE  r = s \/ (r.via # s.via /\ NoVia \notin {r.via, s.via})
  <2>1. CASE r.via = s.via
    <3>1. \A x \in R : IsRow(x)
      BY <1>2, <1>3
    <3>2. r \in OneRow(R) /\ s \in OneRow(R)
      BY <1>1
    <3> HIDE DEF R
    <3> QED BY <1>6, <2>1, <3>1, <3>2, OneRowOnly
  <2>2. CASE r.via # s.via
    <3>1. r \in grpc.rows /\ s \in grpc.rows
      BY <1>2, <1>3, <1>4, <1>6, <2>2
    <3>2. (\E l \in links : l.node = r.node /\ l.role = r.role /\ l.via = r.via) /\ (\E l \in links : l.node = s.node /\ l.role = s.role /\ l.via = s.via)
      BY <1>2, <1>6, <2>2, <3>1
    <3> QED BY <1>7, <2>2, <3>2
  <2> QED BY <2>1, <2>2
<1> QED BY <1>5, <1>6 DEF HandlersOwn, m

(* Whatever was built and reloaded before, the matrix that `impact_matrix` *)
(* answers reports no repository that serves a contract as an outside one  *)
(* or leaves it out of the owners, and has one row for what one node does  *)
(* through one contract.                                                   *)
THEOREM HandlersAlwaysInside == ASSUME HubsReserved PROVE Spec => []HandlersInside
<1>1. ExactInv => HandlersInside
  <2> SUFFICES ASSUME ExactInv PROVE HandlersInside
    OBVIOUS
  <2>1. PICK b : Held(b, content) /\ graph = ReconcileEdges(b)
    BY DEF ExactInv
  <2>2. Given(content)
    BY InhabitedGiven DEF ExactInv
  <2> DEFINE c == content
             r == graph
  <2> HIDE DEF c, r
  <2>3. Held(b, c) /\ r = ReconcileEdges(b) /\ Given(c)
    BY <2>1, <2>2 DEF c, r
  <2>4. Held(r, c)
    BY <2>3, ReconcileHeld
  <2>5. \A e \in r.edges : Sure(e)
    BY <2>3, EdgesSure
  <2>6. \A e \in r.edges : e.kind = "Implements" => e.from \in DOMAIN r.nodes /\ r.nodes[e.from].kind \in GrpcKinds
    BY <2>3, ImplementsFrom
  <2>7. \A t, flow : HandlersOwn(MatrixAlong(graph, t, flow))
    BY <2>3, <2>4, <2>5, <2>6, MatrixOwns DEF r
  <2> QED BY <2>7 DEF HandlersInside, ImpactMatrix
<1> QED BY <1>1, ExactInvAlways, PTL
=============================================================================
