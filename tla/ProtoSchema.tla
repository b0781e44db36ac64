---- MODULE ProtoSchema ----
(***************************************************************************)
(* `.proto` files (languages/proto.rs): the contracts they declare, and    *)
(* whether two revisions of one read each other's bytes.  The syntax nodes:*)
(*   "package" name    "import" name                                       *)
(*   "service" name    "rpc" name                                          *)
(*   "message" name    "enum" name    "oneof"                              *)
(*   "field" name, number, card, type, key                                 *)
(*   "value" name, number             "reserved" ranges, names             *)
(* A type is [t, n]: a scalar, or "named" with the name as written.  A     *)
(* number that does not fit is Unread.                                     *)
(***************************************************************************)
EXTENDS Extraction

Unread == -1

ProtoPackage(f) ==
  LET said == {i \in OfKind(f, "package") : f.items[i].d = 0}
  IN IF said = {} THEN <<>> ELSE f.items[Max(said)].name
(* `walk_scope`: services and their methods, messages at any depth.  A     *)
(* method is `Service.Method`, or bare.                                    *)
ProtoNodes(f, canonical) ==
  Gather(Positions(f), LAMBDA i :
    LET it == f.items[i]
        node(name, kind) == <<NodeOf(name, kind, ProtoPackage(f), it)>>
    IN CASE it.k = "service" -> node(it.name, "GrpcService")
         [] it.k = "rpc" -> node(IF canonical THEN f.items[Max(Above(f, i))].name \o it.name ELSE it.name, "GrpcMethod")
         [] it.k = "message" -> node(it.name, "ProtoMessage")
         [] OTHER -> <<>>)
(* `extract_with_relations`: an import is the first declaration's.         *)
ProtoExtract(f, canonical) ==
  LET nodes == ProtoNodes(f, canonical)
      imports == InSourceOrder(OfKind(f, "import"))
  IN [NoIndex EXCEPT !.nodes = nodes,
                     !.deps = IF nodes = <<>> THEN <<>> ELSE Mapped(imports, LAMBDA i : <<1, Import(f.items[i].name)>>)]

----------------------------------------------------------------------------
(* The schema (`collect_wire_scope`): messages and enums by their dotted   *)
(* path, in document order.  The members of a oneof are the message's.     *)

WirePath(f, i) == FlattenSeq(Mapped(InSourceOrder(Above(f, i) \cup {i}), LAMBDA j : f.items[j].name))
MemberOf(f, i, j) ==
  \/ j \in Children(f, i)
  \/ \E o \in Children(f, i) : f.items[o].k = "oneof" /\ j \in Children(f, o)
Members(f, i, k) ==
  Mapped(InSourceOrder({j \in Below(f, i) : f.items[j].k = k /\ MemberOf(f, i, j)}), LAMBDA j : f.items[j])
Read(members) == SelectSeq(members, LAMBDA m : m.number # Unread)
Declared(f, i, members) ==
  LET reserved == ToSet(Members(f, i, "reserved"))
  IN [path |-> WirePath(f, i), members |-> Read(members),
      ranges |-> UNION {r.ranges : r \in reserved}, names |-> UNION {r.names : r \in reserved}]
(* `wire_schema`: nothing, when the guard refuses the file, when it does   *)
(* not parse in time, or parses with errors.                               *)
WireSchema(f) ==
  [messages |-> Mapped(InSourceOrder(OfKind(f, "message")), LAMBDA i : Declared(f, i, Members(f, i, "field"))),
   enums |-> Mapped(InSourceOrder(OfKind(f, "enum")), LAMBDA i : Declared(f, i, Members(f, i, "value")))]
WireSchemas(f) == IF f.parse = "whole" THEN {WireSchema(f)} ELSE {}

(* `is_number_reserved`, `is_name_reserved`.                               *)
NumberReserved(m, n) == \E r \in m.ranges : r[1] <= n /\ n <= r[2]
NameReserved(m, name) == name \in m.names

----------------------------------------------------------------------------
(* Which types decode each other.                                          *)

SameTypeName(a, b) == a = b \/ (Len(a) > Len(b) /\ IsSuffix(b, a)) \/ (Len(b) > Len(a) /\ IsSuffix(a, b))
ResolveMessage(schema, name) ==
  LET exact == SelectSeq(schema.messages, LAMBDA m : m.path = name)
      partial == SelectSeq(schema.messages, LAMBDA m : SameTypeName(m.path, name))
  IN exact \o partial
ScalarClass ==
  [int32 |-> "varint", uint32 |-> "varint", int64 |-> "varint", uint64 |-> "varint", bool |-> "varint",
   sint32 |-> "zigzag", sint64 |-> "zigzag", fixed32 |-> "fixed32", sfixed32 |-> "fixed32",
   fixed64 |-> "fixed64", sfixed64 |-> "fixed64", float |-> "float", double |-> "double",
   string |-> "string", bytes |-> "bytes"]
(* `classify_wire_type`.                                                   *)
ClassifyWireType(ty, schema) ==
  IF ty.t # "named" THEN [c |-> ScalarClass[ty.t], n |-> <<>>]
  ELSE IF \E i \in DOMAIN schema.enums : BareOf(schema.enums[i].path) = BareOf(ty.n) THEN [c |-> "varint", n |-> <<>>]
  ELSE IF ResolveMessage(schema, ty.n) # <<>> THEN [c |-> "message", n |-> ty.n]
  ELSE [c |-> "unresolved", n |-> ty.n]
LengthDelimited(c) == c.c \in {"string", "bytes", "message"}

BothCompat(a, b) ==
  IF "incompatible" \in {a, b} THEN "incompatible" ELSE IF "unknown" \in {a, b} THEN "unknown" ELSE "compatible"
(* `wire_types_compatible`.                                                *)
ClassesCompatible(a, b, kinds) ==
  IF kinds \subseteq {"message", "unresolved"} /\ SameTypeName(a.n, b.n) THEN "compatible"
  ELSE IF kinds = {"message"} THEN "incompatible"
  ELSE IF "unresolved" \in kinds
    THEN IF kinds \subseteq {"unresolved", "varint", "bytes"} THEN "unknown" ELSE "incompatible"
  ELSE IF kinds \in {{"string", "bytes"}, {"bytes", "message"}} \/ a = b THEN "compatible" ELSE "incompatible"
BothClasses(a, b) == ClassesCompatible(a, b, {a.c, b.c})
WireTypesCompatible(oldTy, old, newTy, new) == BothClasses(ClassifyWireType(oldTy, old), ClassifyWireType(newTy, new))

(* `map_entry_compatible`: the wire form of a map is an entry of a key, 1, *)
(* and a value, 2.                                                         *)
IsEntry(entry) == {<<m.number, m.card>> : m \in ToSet(entry)} = {<<1, "singular">>, <<2, "singular">>} /\ Len(entry) = 2
InEntry(entry, n) == entry[CHOOSE i \in DOMAIN entry : entry[i].number = n].type
EntryCompatible(map, mapSchema, entry, repSchema) ==
  IF ~IsEntry(entry) THEN "incompatible"
  ELSE BothCompat(WireTypesCompatible(map.key, mapSchema, InEntry(entry, 1), repSchema),
                  WireTypesCompatible(map.type, mapSchema, InEntry(entry, 2), repSchema))
MapClassCompatible(map, mapSchema, class, repSchema) ==
  CASE class.c = "unresolved" -> "unknown"
    [] class.c = "message" -> EntryCompatible(map, mapSchema, ResolveMessage(repSchema, class.n)[1].members, repSchema)
    [] OTHER -> "incompatible"
MapEntryCompatible(map, mapSchema, rep, repSchema) ==
  MapClassCompatible(map, mapSchema, ClassifyWireType(rep.type, repSchema), repSchema)
(* `wire_fields_compatible`.                                               *)
ListCompatible(values, classes) ==
  IF values = "incompatible" THEN "incompatible"
  ELSE IF \A c \in classes : LengthDelimited(c) THEN values
  ELSE IF \A c \in classes : LengthDelimited(c) \/ c.c = "unresolved" THEN "unknown" ELSE "incompatible"
CardinalitiesCompatible(of, old, nf, new, values) ==
  CASE of.card = nf.card ->
         IF of.card = "map" THEN BothCompat(WireTypesCompatible(of.key, old, nf.key, new), values) ELSE values
    [] {of.card, nf.card} = {"singular", "repeated"} ->
         ListCompatible(values, {ClassifyWireType(of.type, old), ClassifyWireType(nf.type, new)})
    [] of.card = "map" /\ nf.card = "repeated" -> MapEntryCompatible(of, old, nf, new)
    [] of.card = "repeated" /\ nf.card = "map" -> MapEntryCompatible(nf, new, of, old)
    [] OTHER -> "incompatible"
WireFieldsCompatible(of, old, nf, new) ==
  CardinalitiesCompatible(of, old, nf, new, WireTypesCompatible(of.type, old, nf.type, new))

----------------------------------------------------------------------------
(* `diff_wire_schemas`, `diff_wire_enums`: what a new revision breaks, and *)
(* what it only warns of.  Of two declarations of a path or a number the   *)
(* first counts.                                                           *)

Finding(level, rule, path, number) == [level |-> level, rule |-> rule, path |-> path, number |-> number]
Numbers(m) == {m.members[i].number : i \in DOMAIN m.members}
At(m, n) == m.members[Min({i \in DOMAIN m.members : m.members[i].number = n})]
Elsewhere(m, name, n) == \E i \in DOMAIN m.members : m.members[i].name = name /\ m.members[i].number # n

Moved(om, nm, of, nf, n) == Elsewhere(nm, of.name, n) \/ Elsewhere(om, nf.name, n)
KeptFindings(om, nm, of, nf, n, compat) ==
  LET says(level, rule) == {Finding(level, rule, om.path, n)}
  IN CASE nf.name # of.name ->
            IF Moved(om, nm, of, nf, n) \/ compat = "incompatible"
            THEN says("breaking", "FieldNumberReused") ELSE says("warning", "renamed")
       [] nf.name = of.name /\ compat = "compatible" -> {}
       [] nf.name = of.name /\ compat = "unknown" -> says("warning", "unchecked")
       [] nf.name = of.name /\ compat = "incompatible" -> says("breaking", "IncompatibleType")
FieldFindings(om, old, nm, new, n) ==
  IF n \in Numbers(nm)
  THEN KeptFindings(om, nm, At(om, n), At(nm, n), n, WireFieldsCompatible(At(om, n), old, At(nm, n), new))
  ELSE IF NumberReserved(nm, n) \/ NameReserved(nm, At(om, n).name) THEN {}
  ELSE {Finding("breaking", "DeletedWithoutReserved", om.path, n)}

NamesAt(e, n) == {e.members[i].name : i \in {j \in DOMAIN e.members : e.members[j].number = n}}
NumbersOf(e, name) == Gather(e.members, LAMBDA v : IF v.name = name THEN <<v.number>> ELSE <<>>)
EnumMoved(oe, ne, n) ==
  \/ \E x \in NamesAt(oe, n) : NumbersOf(ne, x) # <<>> /\ NumbersOf(ne, x)[1] # n
  \/ \E x \in NamesAt(ne, n) : NumbersOf(oe, x) # <<>> /\ NumbersOf(oe, x)[1] # n
EnumFindings(oe, ne, n) ==
  CASE n \notin Numbers(ne) ->
         IF NumberReserved(ne, n) THEN {} ELSE {Finding("breaking", "EnumValueDeletedWithoutReserved", oe.path, n)}
    [] n \in Numbers(ne) /\ NamesAt(ne, n) # NamesAt(oe, n) ->
         IF EnumMoved(oe, ne, n) THEN {Finding("breaking", "EnumNumberReused", oe.path, n)}
         ELSE {Finding("warning", "renamed", oe.path, n)}
    [] OTHER -> {}

(* Mutant: of the numbers the new revision still reserves.                 *)
ReusedWhileReserved(om, nm, rule) ==
  {Finding("breaking", rule, om.path, n) : n \in {k \in Numbers(nm) \ Numbers(om) : NumberReserved(nm, k)}}
(* A number the base reserved, used again.                                 *)
Reused(om, nm, rule) ==
  {Finding("breaking", rule, om.path, n) : n \in {k \in Numbers(nm) \ Numbers(om) : NumberReserved(om, k)}}
(* A declaration, and the first of its path in the new revision.           *)
IsFirst(decls, j, path) == decls[j].path = path /\ \A k \in DOMAIN decls \ {j} : decls[k].path = path => j < k
Pairs(old, new) ==
  {p \in ToSet(old) \X ToSet(new) : \E j \in DOMAIN new : IsFirst(new, j, p[1].path) /\ p[2] = new[j]}
(* `removed_messages`, `removed_enums`.                                     *)
Removed(old, pairs) == {m.path : m \in ToSet(old)} \ {p[1].path : p \in pairs}
MessageFindings(old, new, p) ==
  (UNION {FieldFindings(p[1], old, p[2], new, n) : n \in Numbers(p[1])}) \cup Reused(p[1], p[2], "FieldNumberReused")
DiffWireEnums(p) ==
  (UNION {EnumFindings(p[1], p[2], n) : n \in Numbers(p[1])}) \cup Reused(p[1], p[2], "EnumNumberReused")
DiffWireSchemas(old, new) ==
  LET messages == Pairs(old.messages, new.messages)
      enums == Pairs(old.enums, new.enums)
  IN [findings |-> (UNION {MessageFindings(old, new, p) : p \in messages}) \cup (UNION {DiffWireEnums(p) : p \in enums}),
      removed |-> [messages |-> Removed(old.messages, messages), enums |-> Removed(old.enums, enums)]]
Breaking(diff) == {x \in diff.findings : x.level = "breaking"}
=============================================================================
