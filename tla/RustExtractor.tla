---- MODULE RustExtractor ----
(***************************************************************************)
(* `RustExtractor` (languages/rust_lang.rs).  The syntax nodes it looks at:*)
(*   "use" tree           "crate" name         "proto" name (the macro)    *)
(*   "attr" verb, tonic, lits (it pends on the item after it)              *)
(*   "struct" name        "trait" name         "fn" name                   *)
(*   "impl" name (<<>>: no trait), generic                                 *)
(*   "subscribe" args     "record" args        "route" args, verb          *)
(* The last three are searched for in the text of a function.              *)
(***************************************************************************)
EXTENDS Extraction

RustVerbs == <<"get", "post", "put", "delete", "patch", "head", "options">>
Quoted(args) == Gather(args, Literals)

(* `expand_use_tree`: a tree is a path, or a path and the group after it;  *)
(* `self`, `*` and a missing name stand for what is before them.           *)
RECURSIVE ExpandUse(_, _)
ExpandUse(t, prefix) ==
  IF t.group # <<>> THEN FlattenSeq([i \in DOMAIN t.group |-> ExpandUse(t.group[i], prefix \o t.path)])
  ELSE IF t.path \in {<<>>, <<Word("self")>>, <<Word("*")>>} THEN (IF prefix = <<>> THEN <<>> ELSE <<prefix>>)
  ELSE <<prefix \o t.path>>
(* `collect_use_paths`: each path, and its last segment.                   *)
RustImports(it) ==
  CASE it.k = "use" -> Gather(ExpandUse(it.tree, <<>>),
                              LAMBDA p : IF Qualified(p) THEN <<p, BareOf(p)>> ELSE <<p>>)
    [] it.k = "crate" -> <<it.name>>
    [] OTHER -> <<>>

Attributes(f, i) == Mapped(InSourceOrder(Attached(f, i, "attr")), LAMBDA j : f.items[j])
(* `actix_route_from_attr`: the verbs are tried in their order, each with  *)
(* the first string at or after its attribute.                             *)
ActixRoute(attrs) ==
  LET path(v) == LET at == {k \in DOMAIN attrs : attrs[k].verb = v}
                 IN IF at = {} THEN <<>> ELSE Gather(SubSeq(attrs, Min(at), Len(attrs)), LAMBDA a : a.lits)
      routed == {v \in DOMAIN RustVerbs : path(RustVerbs[v]) # <<>>}
  IN IF routed = {} THEN <<>> ELSE Label(RustVerbs[Min(routed)], path(RustVerbs[Min(routed)])[1])

(* `handle_impl`: parameters after `impl` hide the name of the trait.      *)
GrpcImpl(f, i) ==
  LET it == f.items[i] IN
  /\ it.k = "impl" /\ it.name # <<>> /\ ~it.generic
  /\ \/ Last(Last(it.name).w) \in {"server", "service"}
     \/ \E j \in Attached(f, i, "attr") : f.items[j].tonic
InGrpcBody(f, i) == Above(f, i) # {} /\ GrpcImpl(f, Max(Above(f, i)))

RustFunction(f, i, pkg) ==
  LET route == ActixRoute(Attributes(f, i)) IN
  CASE InGrpcBody(f, i) -> NodeOf(f.items[i].name, "GrpcMethod", pkg, f.items[i])
    [] ~InGrpcBody(f, i) /\ route # <<>> -> NodeOf(route, "HttpEndpoint", pkg, f.items[i])
    [] OTHER -> NodeOf(f.items[i].name, "ServiceClass", pkg, f.items[i])

(* What is found in a function's text.  `scan_rdkafka`: the first          *)
(* `subscribe` only, and every record; `scan_axum_routes`: a path is the   *)
(* first string after the call, wherever it is.                            *)
RustConsumed(f, i) ==
  LET subs == {j \in Below(f, i) : f.items[j].k = "subscribe"}
  IN IF subs = {} THEN <<>> ELSE Quoted(f.items[Min(subs)].args)
RustProduced(f, i) ==
  Gather(InSourceOrder({j \in Below(f, i) : f.items[j].k = "record"}), LAMBDA j :
    LET q == Quoted(f.items[j].args) IN IF q = <<>> THEN <<>> ELSE <<q[1]>>)
AxumRoutes(f, i, pkg) ==
  LET args(j) == IF f.items[j].k \in {"subscribe", "record", "route"} THEN f.items[j].args ELSE <<>>
      after(j) == Quoted(Gather(InSourceOrder({k \in Below(f, i) : k >= j}), args))
  IN Gather(InSourceOrder({j \in Below(f, i) : f.items[j].k = "route"}), LAMBDA j :
       IF after(j) = <<>> THEN <<>>
       ELSE <<NodeOf(Label(f.items[j].verb, after(j)[1]), "HttpEndpoint", pkg,
                     [lo |-> f.items[j].lo, hi |-> f.items[j].lo])>>)

(* `visit_node`.  A function inside a function is read with both.          *)
RustVisit(f, pkg, x, i) ==
  LET it == f.items[i]
      at == Len(x.nodes) + 1
      one(name, kind) == [x EXCEPT !.nodes = Append(@, NodeOf(name, kind, pkg, it))]
  IN CASE it.k = "struct" \/ it.k = "proto" -> one(it.name, "ServiceClass")
       [] it.k = "trait" -> one(it.name, "Interface")
       [] it.k = "impl" /\ GrpcImpl(f, i) -> one(it.name, "GrpcService")
       [] it.k = "fn" ->
            [x EXCEPT !.nodes = @ \o <<RustFunction(f, i, pkg)>> \o AxumRoutes(f, i, pkg),
                      !.producers = @ \o Mapped(RustProduced(f, i), LAMBDA t : <<at, t>>),
                      !.consumers = @ \o Mapped(RustConsumed(f, i), LAMBDA t : <<at, t>>)]
       [] OTHER -> x

(* `attach_dependencies`: a path is everybody's, a bare name belongs to    *)
(* the declarations whose lines have it.                                   *)
RustDependencies(f, nodes) ==
  LET imports == Gather(f.items, RustImports) IN
  FlattenSeq([k \in DOMAIN nodes |->
    Mapped(SelectSeq(imports, LAMBDA n : Qualified(n) \/ Uses(f, nodes[k], n)), LAMBDA n : <<k, Import(n)>>)])

RustExtract(f) ==
  LET pkg == ServicePackage(f.where, <<>>)
      x == FoldLeft(LAMBDA y, i : RustVisit(f, pkg, y, i), NoIndex, Positions(f))
  IN [x EXCEPT !.deps = RustDependencies(f, x.nodes)]
=============================================================================
