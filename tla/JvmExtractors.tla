---- MODULE JvmExtractors ----
(***************************************************************************)
(* The extractors of Java, Kotlin and Scala (languages/java.rs, kotlin.rs, *)
(* scala.rs).  The syntax nodes they look at:                              *)
(*   "package" name             "import" name, style                       *)
(*   "class" name, iface, base, annos                                      *)
(*   "method" name, mods, annos "ctor"       "prop" name, val              *)
(*   "call" on, name, args                                                 *)
(* An annotation is its name and its parameters in order, each with the    *)
(* name it is passed by (<<>> for none) and an expression; "wrap" is a     *)
(* call around its arguments (`listOf`, `ProducerRecord`).                 *)
(***************************************************************************)
EXTENDS Extraction

Annotations(it) == IF it.k \in {"class", "method"} THEN it.annos ELSE <<>>
Annotated(annos, names) == \E i \in DOMAIN annos : annos[i].name \in names
HasWord(n, w) == \E i \in DOMAIN n : w \in ToSet(n[i].w)

(* The first quoted string at or after the parameter `topics`: the value   *)
(* of a later parameter, when that of `topics` is a constant.              *)
TopicsParam(params) ==
  LET at == {i \in DOMAIN params : params[i].p = "topics"}
      quoted == Gather(SubSeq(params, Min(at), Len(params)), LAMBDA x : Literals(x.e))
  IN IF at # {} /\ quoted # <<>> THEN quoted[1] ELSE <<>>
JavaListenerTopic(anno) ==
  LET named == \E i \in DOMAIN anno.params : anno.params[i].p # "none"
      quoted == Gather(anno.params, LAMBDA x : Literals(x.e))
  IN IF TopicsParam(anno.params) # <<>> THEN TopicsParam(anno.params)
     ELSE IF named \/ quoted = <<>> THEN <<>> ELSE quoted[1]

----------------------------------------------------------------------------
JavaRoutes == {"GetMapping", "PostMapping", "PutMapping", "DeleteMapping", "PatchMapping", "RequestMapping",
               "GET", "POST", "PUT", "DELETE", "PATCH", "Path", "Get", "Post", "Put", "Delete", "Patch"}

(* Annotations are read from the modifiers; a method without any is read   *)
(* as a whole, its body included.                                          *)
JavaAnnos(f, i) ==
  IF f.items[i].mods THEN f.items[i].annos
  ELSE Gather(InSourceOrder({i} \cup Below(f, i)), LAMBDA j : Annotations(f.items[j]))
JavaClassKind(f, i) ==
  LET it == f.items[i] IN
  CASE \/ \E j \in {i} \cup Below(f, i) : Annotated(Annotations(f.items[j]), {"GrpcService"})
       \/ HasWord(it.base, "grpc") /\ \E k \in DOMAIN it.base : Run(it.base[k].w, <<"impl", "base">>)
         -> "GrpcService"
    [] OTHER -> IF it.iface THEN "Interface" ELSE "ServiceClass"
JavaMethodNode(f, i, pkg) ==
  LET annos == JavaAnnos(f, i)
      listener == SelectSeq(annos, LAMBDA a : a.name = "KafkaListener")
      topic == IF listener = <<>> THEN <<>> ELSE JavaListenerTopic(listener[1])
      kind == CASE listener # <<>> -> "KafkaTopic"
                [] listener = <<>> /\ Annotated(annos, JavaRoutes) -> "HttpEndpoint"
                [] OTHER -> "ServiceClass"
  IN NodeOf(IF topic # <<>> THEN topic ELSE f.items[i].name, kind, pkg, f.items[i])

CallsIn(f, i) == InSourceOrder({j \in Below(f, i) : f.items[j].k = "call"})
(* `extract_kafka_producer_topic`: the first send of a kafka receiver whose *)
(* first argument is a literal.  `extract_grpc_client_services`: every stub *)
(* built.                                                                   *)
JavaSends(f, i) ==
  Gather(CallsIn(f, i), LAMBDA j :
    LET it == f.items[j] IN
    IF LowerT(it.name) = Word("send") /\ "kafka" \in ToSet(it.on.w) /\ it.args # <<>> THEN
      (IF it.args[1].e = "lit" THEN <<it.args[1].v>> ELSE <<>>)
    ELSE <<>>)
JavaStubs(f, i) ==
  Gather(CallsIn(f, i), LAMBDA j :
    LET it == f.items[j] IN
    IF /\ it.name \in {Camel(<<"new", "blocking", "stub">>), Camel(<<"new", "stub">>), Camel(<<"new", "future", "stub">>)}
       /\ Len(it.on.w) > 1 /\ Last(it.on.w) = "grpc"
    THEN <<PlainCall(<<Tok(Front(it.on.w), "pascal")>>)>> ELSE <<>>)

Declarations(f) == OfKind(f, "class") \cup OfKind(f, "method")
NodeIndex(D, i) == Cardinality({j \in D : j <= i})
PackageAt(f, i) ==
  LET said == {j \in OfKind(f, "package") : j < i} IN
  IF said = {} THEN <<>> ELSE ServicePackage(f.where, f.items[Max(said)].name)
(* A constructor's stubs are its class's.                                  *)
JavaCalls(f) ==
  LET D == Declarations(f)
      owner(i) == Max({0} \cup {j \in Above(f, i) : f.items[j].k = "class"})
  IN Gather(InSourceOrder(OfKind(f, "method") \cup OfKind(f, "ctor")), LAMBDA i :
       LET o == IF f.items[i].k = "method" THEN i ELSE owner(i)
       IN IF o = 0 THEN <<>> ELSE Mapped(JavaStubs(f, i), LAMBDA c : <<NodeIndex(D, o), c>>))
JavaProducers(f) ==
  Gather(InSourceOrder(OfKind(f, "method")), LAMBDA i :
    IF JavaSends(f, i) = <<>> THEN <<>> ELSE <<<<NodeIndex(Declarations(f), i), JavaSends(f, i)[1]>>>>)

(* A wildcard import is everybody's; another one of those that mention the  *)
(* symbol: the member of a static import, which stands for its class.       *)
JavaDependencies(f, nodes) ==
  Gather([j \in DOMAIN nodes |-> j], LAMBDA j :
    Gather(InSourceOrder(OfKind(f, "import")), LAMBDA i :
      LET it == f.items[i] IN
      IF it.style = "wildcard" THEN <<<<j, Import(it.name)>>>>
      ELSE IF ~Uses(f, nodes[j], BareOf(it.name)) \/ (it.style = "static" /\ ~Qualified(it.name)) THEN <<>>
      ELSE <<<<j, Import(IF it.style = "static" THEN PkgOf(it.name) ELSE it.name)>>>>))

(* A KafkaTopic node, in Java and Kotlin, consumes what it is named after.  *)
ConsumersByName(nodes) ==
  Gather([j \in DOMAIN nodes |-> j], LAMBDA j :
    IF nodes[j].kind = "KafkaTopic" THEN <<<<j, nodes[j].name>>>> ELSE <<>>)

JavaExtract(f) ==
  LET nodes == Mapped(InSourceOrder(Declarations(f)), LAMBDA i :
                 IF f.items[i].k = "class" THEN NodeOf(f.items[i].name, JavaClassKind(f, i), PackageAt(f, i), f.items[i])
                 ELSE JavaMethodNode(f, i, PackageAt(f, i)))
  IN [NoIndex EXCEPT !.nodes = nodes, !.deps = JavaDependencies(f, nodes), !.producers = JavaProducers(f),
                     !.consumers = ConsumersByName(nodes), !.calls = JavaCalls(f)]

----------------------------------------------------------------------------
KotlinRoutes == {"GetMapping", "PostMapping", "PutMapping", "DeleteMapping", "RequestMapping"}

(* `val topic = "orders"`, or `... ?: "orders"`, wherever it stands.        *)
KotlinDefaults(f) ==
  FoldLeft(LAMBDA c, i : IF f.items[i].val.e = "lit" THEN (f.items[i].name :> f.items[i].val.v) @@ c ELSE c,
           [n \in {} |-> <<>>], InSourceOrder(OfKind(f, "prop")))
KotlinNode(f, i) ==
  LET it == f.items[i]
      said == {j \in OfKind(f, "package") : j < i}
      pkg == ServicePackage(f.where, IF said = {} THEN <<>> ELSE f.items[Max(said)].name)
      topic == TopicsParam(FlattenSeq(Mapped(it.annos, LAMBDA a : a.params)))
      kind == CASE it.k = "class" /\ it.iface -> "Interface"
                [] it.k = "class" /\ ~it.iface -> IF Annotated(it.annos, {"GrpcService"}) THEN "GrpcService" ELSE "ServiceClass"
                [] it.k = "method" /\ Annotated(it.annos, {"KafkaListener"}) -> "KafkaTopic"
                [] it.k = "method" /\ ~Annotated(it.annos, {"KafkaListener"}) ->
                     IF Annotated(it.annos, KotlinRoutes) THEN "HttpEndpoint" ELSE "ServiceClass"
  IN NodeOf(IF kind = "KafkaTopic" /\ topic # <<>> THEN topic ELSE it.name, kind, pkg, it)

(* `find_topic_arg`: the first argument of a wrapper, else the first one;   *)
(* an identifier counts when the file says what it holds.                   *)
KotlinTopicArg(consts, args) ==
  LET wrappers == {i \in DOMAIN args : args[i].e = "wrap" /\ args[i].v # <<>>}
      arg == IF wrappers # {} THEN args[Min(wrappers)].v[1] ELSE args[1]
  IN IF args = <<>> THEN <<>>
     ELSE IF arg.e = "lit" \/ (arg.e = "ref" /\ ~Qualified(arg.v)) THEN Value(consts, arg) ELSE <<>>
KotlinCalls(f) ==
  SelectSeq(InSourceOrder(OfKind(f, "call")), LAMBDA i :
    /\ f.items[i].name \in {Word("send"), Word("produce"), Word("subscribe")}
    /\ ToSet(f.items[i].on.w) \cap {"http", "mail", "socket"} = {}
    /\ KotlinTopicArg(KotlinDefaults(f), f.items[i].args) # <<>>)
KotlinFacts(f, nodes, producer) ==
  Gather(KotlinCalls(f), LAMBDA i :
    LET it == f.items[i] owner == Enclosing(nodes, it) IN
    IF owner = 0 \/ (it.name # Word("subscribe")) # producer THEN <<>>
    ELSE <<<<owner, KotlinTopicArg(KotlinDefaults(f), it.args)>>>>)

KotlinExtract(f) ==
  LET nodes == Mapped(InSourceOrder(Declarations(f)), LAMBDA i : KotlinNode(f, i))
  IN [NoIndex EXCEPT !.nodes = nodes, !.producers = KotlinFacts(f, nodes, TRUE),
                     !.consumers = ConsumersByName(nodes) \o KotlinFacts(f, nodes, FALSE)]

----------------------------------------------------------------------------
(* Scala: types, and `path("x") { get {...} }` as one endpoint per verb     *)
(* called inside it ("ANY" for none).                                       *)
ScalaVerbs == {Word(v) : v \in {"get", "post", "put", "patch", "delete"}}
ScalaPaths == {Word("path"), Camel(<<"path", "prefix">>), Camel(<<"path", "end">>)}
ScalaVerbsIn(f, i) ==
  FoldLeft(LAMBDA s, j : IF f.items[j].name \in ScalaVerbs /\ ~Contains(s, f.items[j].name)
                         THEN Append(s, f.items[j].name) ELSE s, <<>>, CallsIn(f, i))
ScalaNodes(f, i) ==
  LET it == f.items[i]
      quoted == Gather(it.args, Literals)
      verbs == ScalaVerbsIn(f, i)
      node(name, kind) == NodeOf(name, kind, ServicePackage(f.where, <<>>), it)
  IN CASE it.k = "class" -> <<node(it.name, IF it.iface THEN "Interface" ELSE "ServiceClass")>>
       [] it.k = "call" /\ it.name \in ScalaPaths /\ it.block /\ quoted # <<>> ->
            Mapped(IF verbs = <<>> THEN <<Word("any")>> ELSE verbs,
                   LAMBDA v : node(Label(v.w[1], quoted[1]), "HttpEndpoint"))
       [] OTHER -> <<>>
ScalaExtract(f) ==
  [NoIndex EXCEPT !.nodes = Gather(InSourceOrder(OfKind(f, "class") \cup OfKind(f, "call")),
                                   LAMBDA i : ScalaNodes(f, i))]
=============================================================================
