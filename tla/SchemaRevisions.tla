---- MODULE SchemaRevisions ----
(***************************************************************************)
(* A `.proto` file revised as long as the wire comparison of `analyze_grpc`*)
(* raises no breaking finding, each revision compared with the one before  *)
(* only.                                                                   *)
(***************************************************************************)
EXTENDS ProtoSchema

CONSTANTS FirstSchema,    \* a `.proto` file,
          SchemaItems,    \* and the fields and values it may come to have
          MaxRevisions

VARIABLE history    \* the accepted revisions, and the schema read from each

(* An author sets a field or an enum value, forgets it, drops it with its   *)
(* number reserved (alone, or in a range with its name) or with its name   *)
(* alone, withdraws the reservations of its number, sets it in their place,*)
(* or takes the whole declaration out, to write it again when a member is  *)
(* next set.                                                               *)
Statement(k, d, says) == [k |-> k, d |-> d, nl |-> TRUE] @@ says
Ops == {"set", "forget", "drop", "reserve", "name", "withdraw", "replace", "remove"}
HolderKind(it) == IF it.k = "field" THEN "message" ELSE "enum"
Holder(items, it) == Min({i \in DOMAIN items : items[i].k = HolderKind(it)})
Holds(items, top, j) == top <= j /\ \A l \in (top + 1)..j : items[l].d > 0
LeftOut(items, Gone(_)) ==
  Mapped(InSourceOrder({j \in DOMAIN items : ~Gone(j)}), LAMBDA j : items[j])
Covers(ranges, n) == \E r \in ranges : r[1] <= n /\ n <= r[2]
EditedIn(items, op, it) ==
  LET top == Holder(items, it)
      here(j) == Holds(items, top, j)
      was(j) == here(j) /\ items[j].k = it.k /\ items[j].number = it.number
      reserves(j) == here(j) /\ items[j].k = "reserved" /\ Covers(items[j].ranges, it.number)
      kept == LeftOut(items, was)
      gone == {items[j].name : j \in {l \in DOMAIN items : was(l)}}
      with(x) == InsertAt(kept, top + 1, x)
      reserved(ranges, names) == with(Statement("reserved", 1, [ranges |-> ranges, names |-> names]))
  IN CASE op = "set" -> with(it)
       [] op = "forget" -> kept
       [] op = "drop" -> reserved({<<it.number, it.number>>}, {})
       [] op = "reserve" -> reserved({<<it.number, it.number + 1>>}, gone)
       [] op = "name" -> reserved({}, gone)
       [] op = "withdraw" -> LeftOut(items, reserves)
       [] op = "replace" -> InsertAt(LeftOut(items, LAMBDA j : was(j) \/ reserves(j)), top + 1, it)
       [] op = "remove" -> LeftOut(items, here)
HolderItem(it) ==
  FirstSchema.items[CHOOSE i \in DOMAIN FirstSchema.items : FirstSchema.items[i].k = HolderKind(it)]
Edited(items, op, it) ==
  IF \E i \in DOMAIN items : items[i].k = HolderKind(it) THEN EditedIn(items, op, it)
  ELSE IF op = "set" THEN items \o <<HolderItem(it), it>> ELSE items

(* `analyze_grpc` with a base: accepted without a breaking finding.        *)
Accepted(old, new) == Breaking(DiffWireSchemas(old, new)) = {}

Revised(f) == [file |-> f, schema |-> WireSchema(f)]
RevisionsInit == history = <<Revised(FirstSchema)>>
Submit(new) ==
  /\ Len(history) < MaxRevisions
  /\ new # Last(history).file
  /\ Accepted(Last(history).schema, WireSchema(new))
  /\ history' = Append(history, Revised(new))
Revision(op, it) == Submit([Last(history).file EXCEPT !.items = Edited(@, op, it)])
RevisionsNext == \E op \in Ops : \E it \in SchemaItems : Revision(op, it)
RevisionsSpec == RevisionsInit /\ [][RevisionsNext]_history

----------------------------------------------------------------------------
(* On the wire a field is a tag and a form: numbers in one of three sizes, *)
(* anything else by length; a list of numbers packed by length, or not.  A *)
(* reader of a list takes both.                                            *)
FormOf(class) ==
  CASE class \in {"varint", "zigzag"} -> "varint"
    [] class \in {"fixed32", "float"} -> "32 bits"
    [] class \in {"fixed64", "double"} -> "64 bits"
    [] OTHER -> "length"
Emits(field, schema) ==
  (IF field.card = "map" THEN {} ELSE {FormOf(ClassifyWireType(field.type, schema).c)})
  \cup (IF field.card = "singular" THEN {} ELSE {"length"})
Accepts(field, schema) == Emits(field, schema)

(* What the bytes of a form may hold: a message only that message,         *)
(* whichever file declares it; bytes a text or a message; a string a text. *)
MayHold(class) == IF class = "bytes" THEN {"text", "message"} ELSE IF class = "string" THEN {"text"} ELSE {class}
HoldAlike(x, y) == MayHold(x) \cap MayHold(y) # {}
Alike(a, b) ==
  IF {a.c, b.c} \subseteq {"message", "unresolved"} THEN SameTypeName(a.n, b.n) ELSE HoldAlike(a.c, b.c)
TypesAlike(s, old, t, new) == Alike(ClassifyWireType(s, old), ClassifyWireType(t, new))
(* A map is a list of entries: messages of a key, 1, and a value, 2.       *)
EntriesOf(map, mapSchema, class, listSchema) ==
  LET entry == ResolveMessage(listSchema, class.n)[1].members
  IN /\ class.c = "message" /\ IsEntry(entry)
     /\ TypesAlike(map.key, mapSchema, InEntry(entry, 1), listSchema)
     /\ TypesAlike(map.type, mapSchema, InEntry(entry, 2), listSchema)
Readable(of, old, nf, new) ==
  /\ Emits(of, old) \subseteq Accepts(nf, new)
  /\ of.card # "map" /\ nf.card # "map" => TypesAlike(of.type, old, nf.type, new)
  /\ of.card = "map" /\ nf.card = "map" => TypesAlike(of.key, old, nf.key, new) /\ TypesAlike(of.type, old, nf.type, new)
  /\ of.card = "map" /\ nf.card # "map" =>
       nf.card = "repeated" /\ EntriesOf(of, old, ClassifyWireType(nf.type, new), new)
  /\ of.card # "map" /\ nf.card = "map" =>
       of.card = "repeated" /\ EntriesOf(nf, new, ClassifyWireType(of.type, old), old)

(* A field the revision check says nothing of is read by the new readers   *)
(* as the old writers wrote it, and the other way around                   *)
(* (`diff_wire_schemas`, `wire_fields_compatible`).                        *)
BothReadable(of, old, nf, new) == Readable(of, old, nf, new) /\ Readable(nf, new, of, old)
UnsaidReadable(old, new, findings) ==
  \A p \in Pairs(old.messages, new.messages) : \A n \in Numbers(p[1]) \cap Numbers(p[2]) :
    (~\E x \in findings : x.path = p[1].path /\ x.number = n) => BothReadable(At(p[1], n), old, At(p[2], n), new)
StepReadable(old, new) == UnsaidReadable(old, new, DiffWireSchemas(old, new).findings)
SilentIsReadable ==
  \A i, k \in DOMAIN history : i < k => StepReadable(history[i].schema, history[k].schema)

(* The declaration of a path is the first of that path.                    *)
HasDecl(decls, path) == \E j \in DOMAIN decls : IsFirst(decls, j, path)
DeclOf(decls, path) == CHOOSE m \in ToSet(decls) : \E j \in DOMAIN decls : IsFirst(decls, j, path) /\ m = decls[j]
UsesNumber(decls, path, n) == HasDecl(decls, path) /\ n \in Numbers(DeclOf(decls, path))
ReservesNumber(decls, path, n) ==
  HasDecl(decls, path) /\ n \notin Numbers(DeclOf(decls, path)) /\ Covers(DeclOf(decls, path).ranges, n)
NumbersIn(decls) == UNION {{<<m.path, n>> : n \in Numbers(m)} : m \in ToSet(decls)}

(* Silence carries over several revisions, each compared with the one      *)
(* before only: a field kept all along, of which no step said anything, is *)
(* read at the end as it was written at the start, and comparing the two   *)
(* ends says nothing of it either.  Except where it was `bytes`, a map or  *)
(* a message in between, which are compatible with things that are not     *)
(* compatible with each other (`wire_types_compatible`).                   *)
FieldIn(l, path, n) == At(DeclOf(history[l].schema.messages, path), n)
Unsaid(old, new, path, n) == ~\E x \in DiffWireSchemas(old, new).findings : x.path = path /\ x.number = n
KeptSilently(i, k, path, n) ==
  /\ \A l \in i..k : UsesNumber(history[l].schema.messages, path, n)
  /\ \A l \in i..(k - 1) : Unsaid(history[l].schema, history[l + 1].schema, path, n)
Firm(field, schema) ==
  field.card # "map" /\ ClassifyWireType(field.type, schema).c \notin {"bytes", "message", "unresolved"}
FirmBetween(i, k, path, n) == \A l \in (i + 1)..(k - 1) : Firm(FieldIn(l, path, n), history[l].schema)
ReadAlong(i, k, path, n) ==
  LET old == history[i].schema
      new == history[k].schema
  IN /\ FieldIn(i, path, n).name = FieldIn(k, path, n).name
     /\ WireFieldsCompatible(FieldIn(i, path, n), old, FieldIn(k, path, n), new) = "compatible"
     /\ BothReadable(FieldIn(i, path, n), old, FieldIn(k, path, n), new)
SilenceCarries ==
  \A i, k \in DOMAIN history : i < k =>
    \A x \in NumbersIn(history[i].schema.messages) :
      KeptSilently(i, k, x[1], x[2]) /\ FirmBetween(i, k, x[1], x[2]) => ReadAlong(i, k, x[1], x[2])

(* A number that was given up comes back only through one of three doors,  *)
(* each a step of its own that the check lets through: its declaration was *)
(* taken out, which the report lists; a field was given up under a         *)
(* reservation of its name alone; or its reservation was withdrawn.        *)
LeavesOpen(decls, path, n) == HasDecl(decls, path) /\ ~UsesNumber(decls, path, n) /\ ~ReservesNumber(decls, path, n)
NameAlone(old, new, path, n) ==
  UsesNumber(old, path, n) /\ NameReserved(DeclOf(new, path), At(DeclOf(old, path), n).name)
Door(old, new, kind, path, n) ==
  \/ ~HasDecl(new[kind], path) /\ path \in DiffWireSchemas(old, new).removed[kind]
  \/ LeavesOpen(new[kind], path, n) /\ kind = "messages" /\ NameAlone(old[kind], new[kind], path, n)
  \/ LeavesOpen(new[kind], path, n) /\ ReservesNumber(old[kind], path, n)
NumbersReturnByDoors ==
  \A i, j, k \in DOMAIN history : (i < j /\ j < k) =>
    \A kind \in {"messages", "enums"} : \A x \in NumbersIn(history[i].schema[kind]) :
      LET uses(l) == UsesNumber(history[l].schema[kind], x[1], x[2]) IN
      (uses(i) /\ ~uses(j) /\ uses(k)) =>
        \E l \in i..(k - 2) : Door(history[l].schema, history[l + 1].schema, kind, x[1], x[2])

(* Revisions accepted one by one, taken together: what the check is silent *)
(* about is readable, between any two of them and along them, and a number *)
(* comes back only by a step that let go of it.                            *)
SchemaStepsSafe == SilentIsReadable /\ SilenceCarries /\ NumbersReturnByDoors
=============================================================================
