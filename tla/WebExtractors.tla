---- MODULE WebExtractors ----
(***************************************************************************)
(* The extractors that yield declarations and endpoints only: Ruby, PHP    *)
(* and Swift (languages/ruby.rs, php.rs, swift.rs).  Their syntax nodes:   *)
(*   "class" name, base         "module" name       "iface" name           *)
(*   "method" name, route       "call" on, name, args, statement           *)
(***************************************************************************)
EXTENDS Extraction

EndsIn(n, w) == Last(Last(n).w) = w
Has(n, w) == \E i \in DOMAIN n : w \in ToSet(n[i].w)
(* The classes around a node, the nearest of which decides.                *)
Around(f, i, kinds) == {j \in Above(f, i) : f.items[j].k \in kinds}
OutsideMethods(f) == {i \in DOMAIN f.items : Around(f, i, {"method"}) = {}}
DeclKind(it) == IF it.k \in {"module", "iface"} THEN "Interface" ELSE "ServiceClass"
WebVerbs == {Word(v) : v \in {"get", "post", "put", "patch", "delete"}}

(* A controller's methods are endpoints; a module does not end a class.     *)
RubyController(it) == EndsIn(it.name, "controller") \/ (it.base # <<>> /\ Has(it.base, "controller"))
RubyMethodKind(f, i) ==
  LET classes == Around(f, i, {"class"}) IN
  IF /\ classes # {} /\ RubyController(f.items[Max(classes)])
     /\ f.items[i].name # <<Word("initialize")>> /\ ~f.items[i].underscore
  THEN "HttpEndpoint" ELSE "ServiceClass"
RubyRoute(f, it) ==
  CASE f.routes /\ it.args # <<>> /\ it.name \in WebVerbs -> <<Label(it.name.w[1], it.args[1].v)>>
    [] f.routes /\ it.args # <<>> /\ it.name \in {Word("resources"), Word("resource")} ->
         <<Label("resources", it.args[1].v)>>
    [] OTHER -> <<>>

PhpMethodKind(f, i) ==
  LET classes == Around(f, i, {"class", "iface"}) IN
  IF \/ f.items[i].route # <<>>
     \/ /\ classes # {} /\ EndsIn(f.items[Max(classes)].name, "controller")
        /\ f.items[i].name # <<Word("__construct")>>
  THEN "HttpEndpoint" ELSE "ServiceClass"
PhpRoute(it) ==
  IF /\ it.statement /\ it.on = Tok(<<"route">>, "pascal")
     /\ it.name \in WebVerbs \cup {Word("any"), Word("resource")}
     /\ it.args # <<>> THEN Mapped(Literals(it.args[1]), LAMBDA p : Label(it.name.w[1], p)) ELSE <<>>

SwiftMethodKind(it) ==
  IF Head(Last(it.name).w) = "handle" \/ EndsIn(it.name, "handler") THEN "HttpEndpoint" ELSE "ServiceClass"
SwiftRoute(it) == IF it.name \in WebVerbs /\ it.args # <<>> THEN <<Label(it.name.w[1], it.args[1].v)>> ELSE <<>>

(* The nodes of the syntax nodes visited, in order.                        *)
WebIndex(f, visited, MethodName(_), MethodKind(_), Routes(_)) ==
  LET node(i, name, kind) == <<NodeOf(name, kind, ServicePackage(f.where, <<>>), f.items[i])>>
      at(i) == LET it == f.items[i] IN
               CASE it.k \in {"class", "module", "iface"} -> node(i, it.name, DeclKind(it))
                 [] it.k = "method" -> node(i, MethodName(it), MethodKind(i))
                 [] it.k = "call" /\ Routes(it) # <<>> -> node(i, Routes(it)[1], "HttpEndpoint")
                 [] OTHER -> <<>>
  IN [NoIndex EXCEPT !.nodes = Gather(InSourceOrder(visited), at)]

RubyExtract(f) ==
  WebIndex(f, OutsideMethods(f), LAMBDA it : it.name, LAMBDA i : RubyMethodKind(f, i), LAMBDA it : RubyRoute(f, it))
PhpExtract(f) ==
  WebIndex(f, OutsideMethods(f), LAMBDA it : IF it.route # <<>> THEN it.route ELSE it.name,
           LAMBDA i : PhpMethodKind(f, i), PhpRoute)
SwiftExtract(f) ==
  WebIndex(f, DOMAIN f.items, LAMBDA it : it.name, LAMBDA i : SwiftMethodKind(f.items[i]), SwiftRoute)
=============================================================================
