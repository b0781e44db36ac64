---- MODULE NativeExtractors ----
(***************************************************************************)
(* The extractors of C++ and C# (languages/cpp.rs, csharp.rs).             *)
(* C++ items:  "include" name, local   "namespace" name (<<>>: unnamed)    *)
(*             "class" name, body, base                                    *)
(*             "decl" method, pure     "func" name, of, special, dtor      *)
(* C# items:   "namespace" name        "class" name, iface                 *)
(*             "method" name, attrs    "call" name, args                   *)
(***************************************************************************)
EXTENDS Extraction

(* The package in force at an item: the last namespace met, whether or not *)
(* the item is inside it; before any, what the path says.                  *)
NamespaceAt(f, i) ==
  LET said == {j \in OfKind(f, "namespace") : j < i /\ f.items[j].name # <<>>}
  IN ServicePackage(f.where, IF said = {} THEN <<>> ELSE f.items[Max(said)].name)

----------------------------------------------------------------------------
(* `collect_grpc_service_names`, `is_pure_interface`.                      *)
CppGrpc(it) == it.k = "class" /\ it.body /\ \E i \in DOMAIN it.base : it.base[i] = <<Word("grpc"), Word("service")>>
CppServices(f) == {f.items[i].name : i \in {j \in DOMAIN f.items : CppGrpc(f.items[j])}}
PureInterface(f, i) ==
  LET members == {f.items[j] : j \in Children(f, i)}
      methods == {m \in members : m.k = "decl" /\ m.method}
  IN /\ methods # {}
     /\ \A m \in methods : m.pure
     /\ \A m \in members : m.k = "func" => m.special

CppClassKind(f, i) ==
  CASE CppGrpc(f.items[i]) -> "GrpcService"
    [] ~CppGrpc(f.items[i]) /\ PureInterface(f, i) -> "Interface"
    [] OTHER -> "ServiceClass"
CppFuncKind(f, it) ==
  CASE it.of # <<>> /\ it.of \in CppServices(f) -> "GrpcMethod"
    [] ~(it.of # <<>> /\ it.of \in CppServices(f)) /\ (Head(it.name[1].w) = "handle" \/ Last(it.name[1].w) = "handler")
         -> "HttpEndpoint"
    [] OTHER -> "ServiceClass"
(* `visit_node`: a declaration without a body and a destructor are not     *)
(* nodes.                                                                  *)
CppNodes(f) ==
  Gather(Positions(f), LAMBDA i :
    LET it == f.items[i] IN
    CASE it.k = "class" /\ it.body -> <<NodeOf(it.name, CppClassKind(f, i), NamespaceAt(f, i), it)>>
      [] it.k = "func" /\ ~it.dtor -> <<NodeOf(it.name, CppFuncKind(f, it), NamespaceAt(f, i), it)>>
      [] OTHER -> <<>>)
(* `collect_includes`: a header of the project, for the declarations that  *)
(* mention its stem.                                                       *)
CppDependencies(f, nodes) ==
  LET includes == Mapped(InSourceOrder({i \in OfKind(f, "include") : f.items[i].local}), LAMBDA i : f.items[i].name)
  IN FlattenSeq([k \in DOMAIN nodes |->
       Mapped(SelectSeq(includes, LAMBDA n : Uses(f, nodes[k], n)), LAMBDA n : <<k, Import(n)>>)])

CppExtract(f) ==
  LET nodes == CppNodes(f) IN [NoIndex EXCEPT !.nodes = nodes, !.deps = CppDependencies(f, nodes)]

----------------------------------------------------------------------------
CsRoutes == {"HttpGet", "HttpPost", "HttpPut", "HttpDelete", "HttpPatch", "Route"}
CsProduces == {Tok(<<"produce">>, "pascal"), Tok(<<"produce", "async">>, "pascal")}
CsSubscribes == {Tok(<<"subscribe">>, "pascal")}

CsNodes(f) ==
  Gather(Positions(f), LAMBDA i :
    LET it == f.items[i]
        node(kind) == <<NodeOf(it.name, kind, NamespaceAt(f, i), it)>>
    IN CASE it.k = "class" -> node(IF it.iface THEN "Interface" ELSE "ServiceClass")
         [] it.k = "method" -> node(IF it.attrs \cap CsRoutes # {} THEN "HttpEndpoint" ELSE "ServiceClass")
         [] OTHER -> <<>>)

(* `extract_topic_arg`: the first argument that is a string, or a new      *)
(* TopicPartition ("list"), whose own first argument then decides.         *)
CsTopic(args) ==
  LET telling == SelectSeq(args, LAMBDA a : a.e = "lit" \/ (a.e = "list" /\ a.v # <<>>))
  IN IF telling = <<>> THEN <<>>
     ELSE IF telling[1].e = "lit" THEN <<telling[1].v>>
     ELSE IF telling[1].v[1].e = "lit" THEN <<telling[1].v[1].v>> ELSE <<>>
CsEvents(f, calls) ==
  Gather(InSourceOrder({i \in OfKind(f, "call") : f.items[i].name \in calls}), LAMBDA i :
    Mapped(CsTopic(f.items[i].args), LAMBDA t : [lo |-> f.items[i].lo, hi |-> f.items[i].hi, topic |-> t]))
(* `resolve_kafka_calls`: a call no declaration encloses is dropped.       *)
CsFacts(nodes, events) ==
  Gather(events, LAMBDA e : IF Enclosing(nodes, e) = 0 THEN <<>> ELSE <<<<Enclosing(nodes, e), e.topic>>>>)

CsExtract(f) ==
  LET nodes == CsNodes(f)
  IN [NoIndex EXCEPT !.nodes = nodes, !.producers = CsFacts(nodes, CsEvents(f, CsProduces)),
                     !.consumers = CsFacts(nodes, CsEvents(f, CsSubscribes))]
=============================================================================
