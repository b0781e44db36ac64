---- MODULE TypeScriptExtractor ----
(***************************************************************************)
(* `TypeScriptExtractor` (languages/typescript.rs): the declarations of a  *)
(* script, what it imports, the gRPC clients it holds and calls, the       *)
(* handlers and constants that name an RPC; and how the indexer joins them *)
(* into a FileIndex (`wire_ts_events`, and the script arm of               *)
(* `extract_as`, languages/mod.rs).  More syntax nodes than ScriptScope:   *)
(*   "namespace" name, named (not a string)  "type" name, client           *)
(*   "iface" name                  "sig" name, ambient (a bodiless function)*)
(*   "export" names, calls, from, declares   "cjs" targets, declares       *)
(* A "method" also has the decorators of its signature (sigdecs); a call   *)
(* has its type argument (generic); fields and parameters have a client    *)
(* type (client, <<>> if none), whether a type is written (typed), and     *)
(* whether the type could hold a client (open).  f.file is the file's      *)
(* name, f.symbol the name of the anonymous declaration it exports.        *)
(***************************************************************************)
EXTENDS FileRoutes

CONSTANTS MaxRouteNodes,     \* MAX_ROUTE_NODES_PER_FILE, 5000
          MaxConstRecords    \* MAX_CONST_RECORDS_PER_FILE, 4000

----------------------------------------------------------------------------
(* Imports.  A module is everybody's (no symbol); a name only of those who *)
(* mention it.                                                             *)
ModuleImport(m) == [symbol |-> <<>>, module |-> m, target |-> Mapped(m, Word)]
NameImport(n) == [symbol |-> <<n>>, module |-> <<>>, target |-> <<n>>]
Unnamed == {Word("default"), Word("*")}
Specifiers(it) == Mapped(SelectSeq(it.names, LAMBDA n : n.imported \notin Unnamed), LAMBDA n : NameImport(n.imported))
TsImportsOf(f, i) ==
  LET it == f.items[i] IN
  CASE it.k = "import" -> <<ModuleImport(it.module)>> \o Specifiers(it)
    [] it.k = "require" /\ i \in Loading(f) -> Specifiers(it) \o <<ModuleImport(it.module)>>
    [] it.k = "load" /\ i \in Loading(f) -> <<ModuleImport(it.module)>>
    [] it.k = "export" /\ it.from # <<>> -> <<ModuleImport(it.from)>>
    [] OTHER -> <<>>

(* `collect_import_bindings`, `extract_client_construction_target`: an     *)
(* imported class `<X>Client`, or one of an imported namespace.            *)
ImportBindings(f) ==
  FoldLeft(LAMBDA b, i :
             FoldLeft(LAMBDA c, n : (n.local :> (IF n.imported = Word("default") THEN n.local ELSE n.imported)) @@ c,
                      b, f.items[i].names),
           [n \in {} |-> Slash], InSourceOrder({i \in OfKind(f, "import") : f.items[i].d = 0}))
ClientStem(t) == IF t.s = "pascal" /\ Len(t.w) > 1 /\ Last(t.w) = "client" THEN <<Pascal(Front(t.w))>> ELSE <<>>
ClientConstructed(f, new) ==
  LET names == ImportBindings(f) IN
  CASE new.v[1] \notin DOMAIN names \/ Len(new.v) > 2 -> <<>>
    [] new.v[1] \in DOMAIN names /\ Len(new.v) = 1 /\ names[new.v[1]] # Star -> ClientStem(names[new.v[1]])
    [] new.v[1] \in DOMAIN names /\ Len(new.v) = 2 -> ClientStem(new.v[2])
    [] OTHER -> <<>>

(* `extract_get_service_target`: the literal given, else the type argument.*)
GetService == Camel(<<"get", "service">>)
StripClient(t) ==
  LET bare == IF Len(t.w) > 1 /\ Last(t.w) \in {"client", "stub"} THEN Front(t.w) ELSE t.w
  IN <<Pascal(IF Len(bare) > 1 /\ Head(bare) = "i" THEN Tail(bare) ELSE bare)>>
GetServiceTarget(args, generic) ==
  LET lits == SelectSeq(args, LAMBDA x : x.e = "lit") IN
  IF lits # <<>> THEN lits[1].v ELSE IF generic = <<>> THEN <<>> ELSE StripClient(Last(generic))

----------------------------------------------------------------------------
(* Declarations.                                                           *)

Listed(S) == FoldSet(LAMBDA x, s : Append(s, x), <<>>, S)
(* `is_top_level`: a namespace under its name only adds to the file.       *)
TopLevel(f, i) == \A j \in Above(f, i) : f.items[j].k = "namespace" /\ f.items[j].named
SymbolsOf(f, it) == Mapped(it.targets, LAMBDA t : IF t = <<>> THEN f.symbol ELSE t)

(* The text of a method's decorators and signature begins with a verb.     *)
VerbWords == {"get", "post", "put", "delete", "patch", "options", "head", "headers", "header", "all", "allow"}
TextDecs(f, i) == Mapped(Decs(f, i), LAMBDA j : f.items[j].name) \o f.items[i].sigdecs
Says(decs, S(_)) == \E n \in DOMAIN decs : S(decs[n])
Pattern(kind) == Pascal(<<kind, "pattern">>)
FirstArg(f, i, name) ==
  LET d == SelectSeq(Decs(f, i), LAMBDA j : f.items[j].name = name) IN
  IF d = <<>> \/ f.items[d[1]].args = <<>> THEN <<>> ELSE f.items[d[1]].args[1].v
Annotation(cfg, decs) ==
  LET found == SelectSeq(cfg.annotations, LAMBDA a : Says(decs, LAMBDA t : IsPrefix(a.w, t.w))) IN
  IF found = <<>> THEN {} ELSE {found[1]}
(* `extract_grpc_method`: `Service.Method` of two arguments, else the one. *)
GrpcName(f, i, a) ==
  LET d == SelectSeq(Decs(f, i), LAMBDA j : IsPrefix(a.w, f.items[j].name.w))
      parts == IF d = <<>> THEN <<>> ELSE Mapped(f.items[d[1]].args, LAMBDA x : IF x.e = "ref" THEN BareOf(x.v) ELSE x.v)
  IN CASE Len(parts) = 2 -> parts[1] \o parts[2] [] Len(parts) \notin {0, 2} -> parts[1] [] OTHER -> <<>>
(* `handler_reference`: service and method; a method not written is the    *)
(* decorated one's, as NestJS spells it.                                   *)
HandlerReference(f, i, a) ==
  LET d == SelectSeq(Decs(f, i), LAMBDA j : f.items[j].name = a)
      args == IF d = <<>> THEN <<>> ELSE f.items[d[1]].args
      half(x) == [lit |-> x.e = "lit", v |-> x.v]
  IN [k |-> "handler", svc |-> IF args = <<>> THEN half(Nothing) ELSE half(args[1]),
      mth |-> IF Len(args) > 1 THEN half(args[2]) ELSE [lit |-> TRUE, v |-> PascalName(f.items[i].name)]]

MethodRead(f, i, decs, annotation) ==
  CASE annotation # {} -> [kind |-> "GrpcMethod", name |-> GrpcName(f, i, CHOOSE a \in annotation : TRUE)]
    [] annotation = {} /\ Says(decs, LAMBDA t : t.w[1] \in VerbWords) -> [kind |-> "HttpEndpoint", name |-> <<>>]
    [] OTHER -> IF Says(decs, LAMBDA t : t = Pattern("event")) THEN [kind |-> "KafkaTopic", name |-> FirstArg(f, i, Pattern("event"))]
                ELSE IF Says(decs, LAMBDA t : t = Pattern("message")) THEN [kind |-> "KafkaTopic", name |-> FirstArg(f, i, Pattern("message"))]
                ELSE [kind |-> "ServiceClass", name |-> <<>>]
(* A decorator of another package takes the route away, a route makes an   *)
(* endpoint of a method that is no handler.                                *)
KindByRoute(kind, route) ==
  IF kind \notin {"ServiceClass", "HttpEndpoint"} \/ route = {} THEN kind
  ELSE IF route = {Foreign} THEN "ServiceClass" ELSE "HttpEndpoint"
MethodNamed(f, i, kind, name, annotation) ==
  [kind |-> kind, name |-> IF name = <<>> THEN f.items[i].name ELSE name,
   handler |-> IF kind = "GrpcMethod" THEN {HandlerReference(f, i, a) : a \in annotation} ELSE {}]
MethodRouted(f, i, read, annotation) ==
  MethodNamed(f, i, IF GraphqlDecorator(f, i) # {} THEN "HttpEndpoint" ELSE KindByRoute(read.kind, DecoratorRoute(f, i)),
              read.name, annotation)
MethodAnnotated(f, i, decs, annotation) == MethodRouted(f, i, MethodRead(f, i, decs, annotation), annotation)
MethodSaid(f, cfg, i, decs) == MethodAnnotated(f, i, decs, Annotation(cfg, decs))
MethodAs(f, cfg, i) == MethodSaid(f, cfg, i, TextDecs(f, i))

----------------------------------------------------------------------------
(* `visit_node`.  The walk keeps the nodes (each with the role its site    *)
(* has), what is imported, the clients met, the symbols declared, the      *)
(* routes so far and the memo of their prefixes, and the handlers.         *)

TsNode(f, name, kind, span) == NodeOf(name, kind, ServicePackage(f.where, <<>>), span) @@ [role |-> "none"]
EventNode(f, span, x) == [TsNode(f, x.name, x.kind, span) EXCEPT !.role = x.role]
Raw(span, to, binding) == [lo |-> span.lo, hi |-> span.hi, to |-> to, binding |-> binding]
Push1(w, nodes) == [w EXCEPT !.nodes = @ \o nodes]

(* `decorated_lines`: of the declaration a decorator stands before, else   *)
(* its own.                                                                *)
DecoratedLines(f, i) ==
  LET next == {j \in DOMAIN f.items : /\ j > i /\ f.items[j].k \in {"method", "field", "class"}
                                      /\ f.items[j].d = f.items[i].d
                                      /\ \A n \in i..(j - 1) : f.items[n].k = "dec" /\ f.items[n].d = f.items[i].d}
  IN IF next = {} THEN f.items[i] ELSE f.items[Min(next)]

VisitMethod(f, w, it, m) ==
  [w EXCEPT !.nodes = Append(@, TsNode(f, m.name, m.kind, it)),
            !.handlers = @ \o Mapped(Listed(m.handler), LAMBDA h : <<Len(w.nodes) + 1, h>>)]
VisitDeclaration(f, cfg, w, i) ==
  LET it == f.items[i]
      node(name, kind) == Push1(w, <<TsNode(f, name, kind, it)>>)
      key == <<"fn", Parent(f, i), it.name>>
      symbols == SelectSeq(Once(SymbolsOf(f, it)), LAMBDA s : <<"cjs", 0, s>> \notin w.declared)
  IN CASE it.k = "export" -> IF it.declares THEN node(f.symbol, "ServiceClass") ELSE w
       [] it.k = "cjs" ->
            IF ~it.declares \/ it.d # 0 THEN w
            ELSE [Push1(w, Mapped(symbols, LAMBDA s : TsNode(f, s, "ServiceClass", it)))
                  EXCEPT !.declared = @ \cup {<<"cjs", 0, s>> : s \in ToSet(symbols)}]
       [] it.k = "sig" -> IF ~TopLevel(f, i) \/ ~it.ambient \/ key \in w.declared THEN w
                          ELSE [node(it.name, "ServiceClass") EXCEPT !.declared = @ \cup {key}]
       [] it.k = "namespace" -> IF TopLevel(f, i) /\ it.named THEN node(it.name, "ServiceClass") ELSE w
       [] it.k \in {"func", "enum", "type", "var"} ->
            IF TopLevel(f, i) THEN node(it.name, IF it.k = "type" THEN "Interface" ELSE "ServiceClass") ELSE w
       [] it.k \in {"class", "iface"} -> node(it.name, IF it.k = "iface" THEN "Interface" ELSE "ServiceClass")
       [] it.k = "method" -> VisitMethod(f, w, it, MethodAs(f, cfg, i))

(* A call: a client asked for, the routes it registers, the events.        *)
VisitRoutes(f, w, it, memo, routes) ==
  [w EXCEPT !.memo = memo, !.routes = @ + Len(routes),
            !.nodes = @ \o Mapped(routes, LAMBDA r : TsNode(f, Label(r.method, r.path), "HttpEndpoint", it))]
WithinBudget(found, budget) == SubSeq(found, 1, Min({Len(found), budget}))
VisitFound(f, w, it, found) == VisitRoutes(f, w, it, found.memo, WithinBudget(found.routes, MaxRouteNodes - w.routes))
VisitCall(f, w, i) ==
  LET it == f.items[i]
      target == IF it.name = "getService" /\ it.on # Nothing THEN GetServiceTarget(it.args, it.generic) ELSE <<>>
  IN [VisitFound(f, w, it, DetectRoutes(f, i, w.memo))
      EXCEPT !.raw = IF target = <<>> THEN @ ELSE Append(@, Raw(it, PlainCall(target), <<>>))]
(* A construction: the client it makes, bound to a variable or not.        *)
VisitNew(f, w, i) ==
  LET it == f.items[i]
      target == IF Built(f, i) = <<>> THEN <<>> ELSE ClientConstructed(f, it.val)
  IN [w EXCEPT !.raw = IF target = <<>> THEN @ ELSE Append(@, Raw(it, PlainCall(target), IF it.k = "var" THEN it.name ELSE <<>>))]
VisitPair(f, w, i) ==
  LET it == f.items[i]
      budget == MaxRouteNodes - w.routes
      api(label, x, span) == TsNode(f, <<Word(label), x.op>> \o x.path, "HttpEndpoint", span)
      trpc == Listed(TrpcProcedure(f, i))
      fields == GraphqlMapFields(f, i, budget - 1)
  IN IF budget = 0 THEN w
     ELSE [w EXCEPT !.routes = @ + Len(trpc) + Len(fields),
                    !.nodes = @ \o Mapped(trpc, LAMBDA x : api("trpc", x, it)) \o Mapped(fields, LAMBDA x : api("graphql", x, x))]
Declaring == {"export", "cjs", "sig", "namespace", "func", "enum", "type", "var", "class", "iface", "method"}
VisitSite(f, w, i) ==
  CASE f.items[i].k = "call" -> VisitCall(f, w, i)
    [] f.items[i].k \in {"var", "field", "assign", "new"} -> VisitNew(f, w, i)
    [] f.items[i].k = "pair" -> VisitPair(f, w, i)
    [] OTHER -> w
(* The events of a site come last.                                         *)
EventSites == {"call", "var", "field", "assign", "new", "dec"}
VisitEvents(f, w, i) ==
  IF f.items[i].k \notin EventSites THEN w
  ELSE Push1(w, Mapped(EventsAt(f, i), LAMBDA x :
                  EventNode(f, IF f.items[i].k = "dec" THEN DecoratedLines(f, i) ELSE f.items[i], x)))
VisitNode(f, cfg, w0, i) ==
  LET w == [w0 EXCEPT !.imports = @ \o TsImportsOf(f, i)]
  IN VisitEvents(f, VisitSite(f, IF f.items[i].k \in Declaring THEN VisitDeclaration(f, cfg, w, i) ELSE w, i), i)
TsWalk(f, cfg) ==
  FoldLeft(LAMBDA w, i : VisitNode(f, cfg, w, i),
           [nodes |-> <<>>, imports |-> <<>>, raw |-> <<>>, declared |-> {}, routes |-> 0, memo |-> NoMemo, handlers |-> <<>>],
           Positions(f))

----------------------------------------------------------------------------
(* The fields that hold a client.  A key is a class (0 for none) and a     *)
(* field.                                                                  *)

EnclosingClass(f, i) == Max({0} \cup {j \in Above(f, i) : f.items[j].k = "class"})
FieldKey(f, i) == <<EnclosingClass(f, i), Last(f.items[i].name)>>
IsProperty(it, marks) == it.k = "field" \/ (it.k = "param" /\ it.access \in marks)
(* `client_fields`: an assignment from `getService` overrides; of the      *)
(* types written the first counts.                                         *)
Assigned(f, i) ==
  LET it == f.items[i] IN
  IF it.k = "assign" /\ Len(it.name) = 2 /\ it.name[1] = This /\ it.val.e = "call" /\ Last(it.val.v) = GetService
  THEN GetServiceTarget(it.val.args, it.val.generic) ELSE <<>>
ClientFields(f) ==
  FoldLeft(LAMBDA b, i :
             IF Assigned(f, i) # <<>> THEN (FieldKey(f, i) :> Assigned(f, i)) @@ b
             ELSE IF IsProperty(f.items[i], {"access"}) /\ f.items[i].client # <<>> THEN b @@ (FieldKey(f, i) :> StripClient(f.items[i].client[1]))
             ELSE b,
           [k \in {} |-> <<>>], Positions(f))
(* `declared_fields`: whether each one's type could hold a client; one     *)
(* without a type says nothing.                                            *)
DeclaredFields(f) ==
  FoldLeft(LAMBDA b, i : IF IsProperty(f.items[i], {"access", "readonly"})
                         THEN b @@ (FieldKey(f, i) :> (f.items[i].typed /\ ~f.items[i].open)) ELSE b,
           [k \in {} |-> FALSE], Positions(f))
RuledOut(f, key) == key \in DOMAIN DeclaredFields(f) /\ DeclaredFields(f)[key]

(* `collect_method_rpc_calls`: `this.field.method()`.                      *)
MethodCallOf(f, i) ==
  LET it == f.items[i]
      field == it.on.v[2]
      key == <<EnclosingClass(f, i), field>>
      base == IF key[1] # 0 /\ key \notin DOMAIN DeclaredFields(f) THEN f.items[key[1]].base ELSE <<>>
      method == Camel(<<it.name>>)
      named == ServiceFromField(field)
      raw(c) == <<Raw(it, c, <<>>)>>
  IN IF it.on.e # "ref" \/ Len(it.on.v) # 2 \/ it.on.v[1] # This THEN <<>>
     ELSE IF key \in DOMAIN ClientFields(f) THEN raw([k |-> "exact", n |-> ClientFields(f)[key] \o <<method>>])
     ELSE IF base # <<>> THEN raw([k |-> "inherited", base |-> base, field |-> field, method |-> method])
     ELSE IF RuledOut(f, key) \/ named = <<>> THEN <<>>
     ELSE raw([k |-> "inferred", n |-> named \o <<method>>])
MethodCalls(f) == Gather(InSourceOrder(OfKind(f, "call")), LAMBDA i : MethodCallOf(f, i))

(* `resolve_rpc_calls`: the smallest declaration around a call site; a     *)
(* client bound at module level is its users', never its own.              *)
NotItself(nodes, i, binding) == IF i # 0 /\ binding # <<>> /\ nodes[i].name = binding THEN 0 ELSE i
Referencing(f, nodes, binding) ==
  {NotItself(nodes, Enclosing(nodes, [lo |-> u[1], hi |-> u[1]]), binding) : u \in {x \in f.uses : x[2] = binding}} \ {0}
(* Mutant: a module's client serves every declaration.                     *)
ResolveTsCallsAny(f, nodes, raws) ==
  Gather(raws, LAMBDA c : IF Enclosing(nodes, c) = 0 THEN <<>> ELSE <<<<Enclosing(nodes, c), c.to>>>>)
ResolveTsCalls(f, nodes, raws) ==
  Gather(raws, LAMBDA c :
    LET at == NotItself(nodes, Enclosing(nodes, c), c.binding) IN
    IF at # 0 THEN <<<<at, c.to>>>>
    ELSE IF c.binding = <<>> THEN <<>>
    ELSE Mapped(InSourceOrder(Referencing(f, nodes, c.binding)), LAMBDA j : <<j, c.to>>))

(* `record_client_field_bindings`: what a subclass elsewhere can go by; a  *)
(* field that cannot hold a client is bound to no service.                 *)
FieldBindings(f, nodes) ==
  LET fields == ClientFields(f)
      keys == {k \in DOMAIN fields : k[1] # 0} \cup {k \in DOMAIN DeclaredFields(f) \ DOMAIN fields : k[1] # 0 /\ DeclaredFields(f)[k]}
      at(k) == {n \in DOMAIN nodes : /\ nodes[n].kind = "ServiceClass" /\ nodes[n].name = f.items[k[1]].name
                                     /\ nodes[n].lo = f.items[k[1]].lo}
  IN {<<Min(at(k)), [k |-> "field", field |-> k[2], service |-> IF k \in DOMAIN fields THEN fields[k] ELSE <<>>]>> :
        k \in {x \in keys : at(x) # {}}}

(* `record_string_constants`: by the path that leads to them, of the node  *)
(* that declares the name; objects three levels deep.                      *)
RECURSIVE ConstantsIn(_, _, _)
ConstantsIn(x, path, depth) ==
  CASE depth > 3 -> <<>>
    [] depth <= 3 /\ x.e = "lit" -> <<[k |-> "const", key |-> path, value |-> x.v]>>
    [] depth <= 3 /\ x.e = "obj" -> Gather(x.v, LAMBDA p : ConstantsIn(p.x, path \o p.k, depth + 1))
    [] OTHER -> <<>>
StringConstants(f, nodes) ==
  LET at(it) == {n \in DOMAIN nodes : nodes[n].name = it.name /\ nodes[n].lo <= it.lo /\ it.lo <= nodes[n].hi}
      of(it) == IF it.k = "var" THEN ConstantsIn(it.val, it.name, 0)
                ELSE Gather(it.members, LAMBDA p : IF p.x.e = "lit" THEN ConstantsIn(p.x, it.name \o p.k, 0) ELSE <<>>)
      all == Gather(InSourceOrder({i \in DOMAIN f.items : f.items[i].d = 0 /\ f.items[i].k \in {"var", "enum"}}), LAMBDA i :
               IF at(f.items[i]) = {} THEN <<>> ELSE Mapped(of(f.items[i]), LAMBDA c : <<Min(at(f.items[i])), c>>))
  IN SubSeq(all, 1, Min({Len(all), MaxConstRecords}))

----------------------------------------------------------------------------
(* The script arm of `extract_as`.                                         *)

StreamKind(k) == k \in {"KafkaTopic", "Queue", "EventStream"}
(* `wire_ts_events`: a call site's event is of the smallest declaration    *)
(* around it that is no event itself; a handler of a pattern consumes it.  *)
EventOwner(nodes, i) ==
  LET d == Smallest(nodes, {j \in DOMAIN nodes : j # i /\ Encloses(nodes[j], nodes[i]) /\ ~StreamKind(nodes[j].kind)})
  IN IF d = 0 THEN i ELSE d
WireTsEvents(nodes, role) ==
  Gather([i \in DOMAIN nodes |-> i], LAMBDA i :
    IF nodes[i].role = role THEN <<<<EventOwner(nodes, i), nodes[i].name>>>>
    ELSE IF nodes[i].role = "none" /\ role = "consume" /\ nodes[i].kind = "KafkaTopic" THEN <<<<i, nodes[i].name>>>>
    ELSE <<>>)

(* `is_outermost`: inside no other node; of two over the same lines the    *)
(* first.                                                                  *)
SameLines(m, n) == m.lo = n.lo /\ m.hi = n.hi
IsOutermost(nodes, i) ==
  \A j \in DOMAIN nodes \ {i} : Encloses(nodes[j], nodes[i]) => (SameLines(nodes[j], nodes[i]) /\ j > i)
TsDependencies(f, nodes, imports) ==
  Gather(SelectSeq([i \in DOMAIN nodes |-> i], LAMBDA i : IsOutermost(nodes, i)), LAMBDA i :
    Once(Mapped(SelectSeq(imports, LAMBDA m : m.symbol = <<>> \/ Uses(f, nodes[i], m.target)),
                LAMBDA m : <<i, Import(m.target)>>)))

(* A module that an alias of the project names is the file's own relative  *)
(* path to it (ts_config.rs `rewrite`).                                    *)
Unaliased(cfg, m) == IF m.symbol = <<>> /\ m.module \in DOMAIN cfg.aliases THEN [m EXCEPT !.target = cfg.aliases[m.module]] ELSE m
FileRouteNodes(f) == Mapped(DetectFileRoutes(f), LAMBDA r : TsNode(f, Label(r.method, r.path), "HttpEndpoint", r))
Plain(n) == [k \in DOMAIN n \ {"role"} |-> n[k]]
ModuleNode(f) == TsNode(f, f.file, "Module", [lo |-> 1, hi |-> Lines(f.items)])
TsCalls(f, w) ==
  ResolveTsCalls(f, w.nodes, w.raw \o MethodCalls(f)) \o Listed(FieldBindings(f, w.nodes)) \o w.handlers \o StringConstants(f, w.nodes)
TsIndex(f, w, found, nodes, imports) ==
  [NoIndex EXCEPT !.nodes = Mapped(nodes, Plain), !.calls = TsCalls(f, w),
                  !.producers = WireTsEvents(found, "produce"), !.consumers = WireTsEvents(found, "consume"),
                  !.deps = TsDependencies(f, nodes, imports)]
(* A file that declares nothing and imports something is a module.         *)
OrModule(f, found, imports) == IF found = <<>> /\ imports # <<>> THEN <<ModuleNode(f)>> ELSE found
TsFound(f, w, found, imports) == TsIndex(f, w, found, OrModule(f, found, imports), imports)
TsWalked(f, cfg, w) == TsFound(f, w, w.nodes \o FileRouteNodes(f), Mapped(w.imports, LAMBDA m : Unaliased(cfg, m)))
TsRead(f, cfg) == TsWalked(f, cfg, TsWalk(f, cfg))
TsExtract(f, cfg) == TsRead(InContext(f), cfg)
=============================================================================
