---- MODULE ScriptScope ----
(***************************************************************************)
(* What a JavaScript or TypeScript file says about itself before any       *)
(* framework is looked for (js_frameworks/scope.rs): the modules it loads, *)
(* its constants, what a name stands for where it is used, and which names *)
(* hold a client of which library.  Its syntax nodes:                      *)
(*   "import" module, names, type     "require", "load" (at any depth), dyn *)
(*   "var" name, const, val, types    "assign" name, val                   *)
(*   "class" name, base, export       "field" name, static, val, types     *)
(*   "param" name, types, access      "enum" name, members                 *)
(*   "func", "method" name, params    "fn" params (a callback)             *)
(*   "scope" params (catch, for)      "dec" name, args                     *)
(*   "call" on, name, args            "new" val                            *)
(* A name loaded is [imported, local, type]; a module is its path segments.*)
(* An expression is [e, v]: "lit", "ref" (a dotted path), "join" (of       *)
(* parts), "list", "obj" (of [k, x]), "call" and "new" (the path called,   *)
(* and args), "fn", "other", "none".                                       *)
(***************************************************************************)
EXTENDS Extraction

CONSTANT MaxResolveDepth    \* 24

This == Word("this")
Nothing == [e |-> "none", v |-> <<>>]

----------------------------------------------------------------------------
(* `ModuleBindings`.                                                       *)

ModuleIn(module, libs) == \E lib \in libs : IsPrefix(lib, module)
(* `require` called where a parameter has that name loads nothing.         *)
ParameterNamed(f, i, n) ==
  \E j \in Above(f, i) : f.items[j].k \in {"func", "method", "fn"} /\ Contains(f.items[j].params, n)
Loading(f) ==
  {i \in DOMAIN f.items : \/ f.items[i].k = "import"
                         \/ /\ f.items[i].k \in {"require", "load"}
                            /\ f.items[i].dyn \/ ~ParameterNamed(f, i, Word("require"))}
Modules(f) == {f.items[i].module : i \in {j \in Loading(f) : ~f.items[j].type}}
(* The last declaration of a local name wins.  A file is looked at in its  *)
(* context (InContext), where f.locals are these and f.consts its constants.*)
Locals(f) ==
  FoldLeft(LAMBDA b, i :
             FoldLeft(LAMBDA c, n : (n.local :> [module |-> f.items[i].module, imported |-> n.imported,
                                                 type |-> f.items[i].type \/ n.type]) @@ c,
                      b, f.items[i].names),
           [n \in {} |-> 0], InSourceOrder(Loading(f) \ OfKind(f, "load")))
DeclaredHere(f) ==
  {Last(f.items[i].name) : i \in {j \in OfKind(f, "class") \cup OfKind(f, "func") : f.items[j].d = 0}}

ImportsAny(f, libs) == \E m \in Modules(f) : ModuleIn(m, libs)
BoundTo(f, n, libs) == n \in DOMAIN f.locals /\ ModuleIn(f.locals[n].module, libs)
ReferencesAny(f, libs) == ImportsAny(f, libs) \/ \E n \in DOMAIN f.locals : BoundTo(f, n, libs)
IsValue(f, n) == n \in DOMAIN f.locals /\ ~f.locals[n].type
ValueOf(f, n, libs) == IsValue(f, n) /\ BoundTo(f, n, libs)

----------------------------------------------------------------------------
(* `local_declaration`: the innermost declaration of a name inside the     *)
(* functions and blocks around its use; {} at module level, {Nothing} for  *)
(* one whose value is not a constant's.                                    *)
Declares(f, i, n) == {j \in Children(f, i) : f.items[j].k \in {"var", "func", "class"} /\ Last(f.items[j].name) = n}
FirstDeclared(f, i, j) == IF f.items[j].k = "var" /\ f.items[j].const THEN {<<j, f.items[j].val>>} ELSE {<<i, Nothing>>}
Binds(f, i, n) ==
  IF Declares(f, i, n) # {} THEN FirstDeclared(f, i, Min(Declares(f, i, n)))
  ELSE IF f.items[i].k \in {"func", "method", "fn", "scope"} /\ Contains(f.items[i].params, n) THEN {<<i, Nothing>>}
  ELSE {}
(* Mutant: declarations of inner scopes are not looked at.                 *)
LocalDeclarationUnseen(f, at, n) == {}
LocalDeclaration(f, at, n) ==
  LET binding == {j \in Above(f, at) : f.items[j].k # "class" /\ Binds(f, j, n) # {}}
  IN UNION {Binds(f, j, n) : j \in {Max(H) : H \in {binding} \ {{}}}}
Shadowed(f, at, n) == LocalDeclaration(f, at, n) # {}

(* `this_field`: the initializer of a field of the nearest class.          *)
ThisField(f, at, n) ==
  LET classes == {j \in Above(f, at) : f.items[j].k = "class"}
      fields == {j \in Children(f, Max(classes)) : f.items[j].k = "field" /\ Last(f.items[j].name) = n}
  IN IF classes = {} \/ fields = {} THEN {} ELSE {<<Min(fields), f.items[Min(fields)].val>>}

ConstantCase(t) == t.s \in {"const", "upper"}
(* `Names::resolve_inner`: a literal, a constant, a concatenation of       *)
(* those; last, an imported constant as written.                           *)
(* A dotted name stands for the declaration D of its first part, when it   *)
(* is that and no more, or of the field of `this`.                         *)
Declaration(f, at, v) ==
  IF v[1] = This /\ Len(v) = 2 THEN ThisField(f, at, v[2]) ELSE LocalDeclaration(f, at, v[1])
Follows(v, D) == D # {} /\ Len(v) = (IF v[1] = This THEN 2 ELSE 1)
ImportedConstant(f, v) ==
  /\ IsValue(f, v[1]) /\ ConstantCase(Last(v))
  /\ Qualified(v) => v[1].s \in {"pascal", "const", "capital", "upper"}
RECURSIVE ResolveInner(_, _, _, _, _, _), ResolveName(_, _, _, _, _, _)
ResolveName(f, consts, v, D, depth, imported) ==
  CASE Follows(v, D) -> ResolveInner(f, consts, (CHOOSE p \in D : TRUE)[1], (CHOOSE p \in D : TRUE)[2], depth + 1, FALSE)
    [] ~Follows(v, D) /\ v[1] # This /\ D = {} /\ v \in DOMAIN consts -> consts[v]
    [] ~Follows(v, D) /\ v[1] # This /\ D = {} /\ v \notin DOMAIN consts ->
         IF imported /\ ImportedConstant(f, v) THEN v ELSE <<>>
    [] OTHER -> <<>>
Concatenated(parts) == IF <<>> \in ToSet(parts) THEN <<>> ELSE FlattenSeq(parts)
ResolveInner(f, consts, at, x, depth, imported) ==
  CASE depth <= MaxResolveDepth /\ x.e = "lit" -> x.v
    [] depth <= MaxResolveDepth /\ x.e = "join" ->
         Concatenated(Mapped(x.v, LAMBDA y : ResolveInner(f, consts, at, y, depth + 1, FALSE)))
    [] depth <= MaxResolveDepth /\ x.e = "ref" -> ResolveName(f, consts, x.v, Declaration(f, at, x.v), depth, imported)
    [] OTHER -> <<>>

(* `ConstTable`: the string constants of the module, each built from       *)
(* literals and the ones before it.                                        *)
WithConstant(t, path, v) == IF v = <<>> THEN t ELSE (path :> v) @@ t
RECURSIVE AddValue(_, _, _, _, _)
AddValue(f, t, path, x, at) ==
  IF x.e = "obj" THEN FoldLeft(LAMBDA u, p : AddValue(f, u, path \o p.k, p.x, at), t, x.v)
  ELSE WithConstant(t, path, ResolveInner(f, t, at, x, 0, FALSE))
ConstTable(f) ==
  FoldLeft(LAMBDA t, i :
    LET it == f.items[i] IN
    CASE it.k = "var" /\ it.const -> AddValue(f, t, it.name, it.val, i)
      [] it.k = "enum" -> FoldLeft(LAMBDA u, p : AddValue(f, u, it.name \o p.k, p.x, i), t, it.members)
      [] it.k = "class" ->
           FoldLeft(LAMBDA u, j : IF f.items[j].static THEN AddValue(f, u, it.name \o f.items[j].name, f.items[j].val, j)
                                  ELSE u,
                    t, InSourceOrder({j \in Children(f, i) : f.items[j].k = "field"}))
      [] OTHER -> t,
    [n \in {} |-> <<>>], InSourceOrder({i \in DOMAIN f.items : f.items[i].d = 0}))

(* `FrameworkCtx::built`: what a file states about itself, read once.      *)
WithConsts(f) == f @@ [consts |-> ConstTable(f)]
InContext(f) == WithConsts(f @@ [locals |-> Locals(f)])

(* `resolve`, `resolve_all`, `object_value`.                               *)
Resolve(f, at, x) == ResolveInner(f, f.consts, at, x, 0, TRUE)
Known(s) == SelectSeq(s, LAMBDA n : n # <<>>)
ResolveAll(f, at, x) ==
  Known(Mapped(IF x.e = "list" THEN x.v ELSE <<x>>, LAMBDA y : Resolve(f, at, y)))
ObjectValue(x, key) ==
  LET pairs == IF x.e = "obj" THEN SelectSeq(x.v, LAMBDA p : p.k = <<Word(key)>>) ELSE <<>>
  IN IF pairs = <<>> THEN Nothing ELSE pairs[1].x

----------------------------------------------------------------------------
(* `Receivers`.                                                            *)

RootKey(x) == IF x.e \in {"ref", "call", "new"} THEN (IF x.v[1] = This /\ Len(x.v) > 1 THEN x.v[2] ELSE x.v[1]) ELSE Word("")
ReceiverKey(x) == IF x.e = "ref" THEN Last(x.v) ELSE RootKey(x)
Holders(f) ==
  Mapped(InSourceOrder({i \in DOMAIN f.items : f.items[i].k \in {"var", "field", "param", "assign"}}),
         LAMBDA i : f.items[i])
Injected(it) == it.k \in {"field", "param"} /\ it.inject
TypesOf(it) == IF it.k = "assign" THEN {} ELSE it.types
Typed(f, it, libs) == \E t \in TypesOf(it) : BoundTo(f, t, libs)

NestMicroservices == <<"@nestjs", "microservices">>
BindPass(f, libs, bound) ==
  FoldLeft(LAMBDA b, it :
             LET root == RootKey(it.val) IN
             IF \/ Typed(f, it, libs)
                \/ root \in b \/ ValueOf(f, root, libs)
                \/ Injected(it) /\ ModuleIn(NestMicroservices, libs)
             THEN b \cup {Last(it.name)} ELSE b,
           bound, Holders(f))
(* Three passes reach a client built from a client built from the library. *)
BoundClients(f, libs) ==
  IF ~ImportsAny(f, libs) /\ ~\E i \in DOMAIN Holders(f) : Typed(f, Holders(f)[i], libs) THEN {}
  ELSE FoldLeft(LAMBDA bound, pass : BindPass(f, libs, bound), {}, <<1, 2, 3>>)
(* What a function of the file that names the library may have returned.   *)
Factories(f) ==
  {i \in DOMAIN f.items : f.items[i].d = 0 /\ (f.items[i].k = "func" \/ (f.items[i].k = "var" /\ f.items[i].val.e = "fn"))}
FactoryBuilt(f, libs) ==
  LET makers == {Last(f.items[i].name) : i \in {j \in Factories(f) :
                   \E n \in DOMAIN f.locals : BoundTo(f, n, libs) /\ Uses(f, f.items[j], <<n>>)}}
  IN {Last(Holders(f)[i].name) : i \in {j \in DOMAIN Holders(f) : RootKey(Holders(f)[j].val) \in makers}}

(* `is_client`: nothing is said of a family the file builds no client of.  *)
Verdict(key, bound, built) == IF bound = {} THEN "unsaid" ELSE IF key \in bound \cup built THEN "yes" ELSE "no"
IsClient(f, libs, key) == Verdict(key, BoundClients(f, libs), FactoryBuilt(f, libs))

QueueLibs == {<<"bull">>, <<"bee-queue">>, <<"bullmq">>}
(* `queue_names`: the queue a variable stands for, the last one built.     *)
QueueName(f, key) ==
  LET built == InSourceOrder({i \in DOMAIN f.items :
                  /\ f.items[i].k \in {"var", "field", "param", "assign"}
                  /\ Last(f.items[i].name) = key /\ f.items[i].val.e = "new"
                  /\ ValueOf(f, RootKey(f.items[i].val), QueueLibs) /\ f.items[i].val.args # <<>>})
  IN FoldLeft(LAMBDA last, n : IF n = <<>> THEN last ELSE n, <<>>,
              Mapped(built, LAMBDA i : Resolve(f, i, f.items[i].val.args[1])))
=============================================================================
