---- MODULE GoExtractor ----
(***************************************************************************)
(* `GoExtractor` (languages/go.rs).  The syntax nodes it looks at:         *)
(*   "package" name        "import" path, ref (<<>> if unknown), blank     *)
(*   "spec" name, val      (one name of a var or const declaration)        *)
(*   "type" name, iface    "func" name, recv, http, getenv, returns        *)
(*   "call" on, name, args "struct" name, topic, inner                     *)
(* An argument or a value is [e, v]: "lit", "ref", "struct", "call" (of a  *)
(* local function), "list" (any other, with the expressions inside it).    *)
(***************************************************************************)
EXTENDS Extraction

GoVerbs == {"get", "post", "put", "delete", "patch", "head", "options"}
GoProducerCalls == {Pascal(<<"write", "messages">>), Pascal(<<"send", "message">>), Pascal(<<"produce">>)}
GoConsumerCalls == {Pascal(<<"read", "message">>), Pascal(<<"fetch", "message">>),
                    Pascal(<<"consume", "partition">>), Pascal(<<"subscribe", "topics">>), Pascal(<<"subscribe">>)}
GoProducerConfigs == {Pascal(<<"writer", "config">>), Pascal(<<"producer", "message">>),
                      Pascal(<<"message">>), Pascal(<<"writer">>)}
GoThirdParty == {Word(w) : w \in {"redis", "http", "mongo", "s3", "sqs", "vault", "elastic", "sql", "db",
                                  "kafka", "sarama"}}

(* `New<X>Client` and `Register<X>Server`, with something between.         *)
Between(t, head, tail) ==
  IF t.s = "pascal" /\ Len(t.w) > 2 /\ Head(t.w) = head /\ Last(t.w) = tail
  THEN <<Pascal(Tail(Front(t.w)))>> ELSE <<>>
GoClientOf(it) ==
  IF it.k = "call" /\ it.on \notin GoThirdParty THEN Between(it.name, "new", "client") ELSE <<>>
GoServerOf(it) == IF it.k = "call" THEN Between(it.name, "register", "server") ELSE <<>>

(* Pass 1: the types given to a registration as a composite literal.       *)
GoServerTypes(f) ==
  {f.items[i].args[2].v : i \in {j \in OfKind(f, "call") : /\ Len(f.items[j].args) > 1
                                                            /\ GoServerOf(f.items[j]) # <<>>
                                                            /\ f.items[j].args[2].e = "struct"}}

(* Pass 2: `var Topic = getTopic()`, where the last statement of getTopic,  *)
(* which reads the environment, returns a literal.                          *)
GoFallback(f, func) ==
  LET named == {i \in OfKind(f, "func") : /\ f.items[i].d = 0 /\ f.items[i].recv = <<>>
                                          /\ f.items[i].name = func}
      it == f.items[Min(named)]
  IN IF named # {} /\ it.getenv THEN it.returns ELSE <<>>
GoEnvDefaults(f) ==
  LET specs == {i \in OfKind(f, "spec") : /\ f.items[i].val.e = "call"
                                          /\ GoFallback(f, f.items[i].val.v) # <<>>}
      first(n) == Min({i \in specs : f.items[i].name = n})
  IN [n \in {f.items[i].name : i \in specs} |-> GoFallback(f, f.items[first(n)].val.v)]

GoFuncKind(it, servers) ==
  CASE it.recv # <<>> /\ it.recv \in servers -> "GrpcMethod"
    [] ~(it.recv # <<>> /\ it.recv \in servers) /\ it.http
       /\ (Head(Last(it.name).w) = "handle" \/ Last(Last(it.name).w) = "handler") -> "HttpEndpoint"
    [] OTHER -> "ServiceClass"

(* The topic a literal's fields give: its `Topic`, or the one of its        *)
(* `TopicPartition`.                                                        *)
GoStructTopic(consts, it) ==
  LET value(e) == IF Literals(e) # <<>> THEN Literals(e)[1] ELSE Value(consts, e)
  IN IF it.topic.e # "none" THEN value(it.topic) ELSE IF it.inner.e # "none" THEN value(it.inner) ELSE <<>>
GoEvent(it, topic, producer) == [lo |-> it.lo, hi |-> it.hi, topic |-> topic, producer |-> producer]
GoEventsOf(w, it) ==
  CASE it.k = "call" /\ it.name \in GoProducerCalls \cup GoConsumerCalls ->
         Mapped(Gather(it.args, Literals), LAMBDA t : GoEvent(it, t, it.name \in GoProducerCalls))
    [] it.k = "struct" /\ it.name \in GoProducerConfigs \cup {Pascal(<<"reader", "config">>)} ->
         LET t == GoStructTopic(w.consts, it)
         IN IF t = <<>> THEN <<>> ELSE <<GoEvent(it, t, it.name \in GoProducerConfigs)>>
    [] OTHER -> <<>>

GoNodesOf(f, w, it) ==
  LET node(name, kind) == <<NodeOf(name, kind, w.pkg, it)>> IN
  CASE it.k = "type" -> node(it.name, IF it.iface THEN "Interface" ELSE "ServiceClass")
    [] it.k = "func" -> node(it.name, GoFuncKind(it, GoServerTypes(f)))
    [] it.k = "call" /\ GoServerOf(it) # <<>> -> node(GoServerOf(it), "GrpcService")
    [] it.k = "call" /\ LowerT(it.name).w[1] \in GoVerbs /\ Len(it.name.w) = 1 /\ Len(it.args) > 1
       /\ it.args[1].e = "lit" /\ it.args[1].path -> node(Label(it.name.w[1], it.args[1].v), "HttpEndpoint")
    [] OTHER -> <<>>

(* `visit_node`: constants become known as the walk meets them.            *)
GoVisit(f, w, it) ==
  [w EXCEPT !.pkg = IF it.k = "package" THEN ServicePackage(f.where, it.name) ELSE @,
            !.consts = IF it.k = "spec" /\ it.val.e = "lit" THEN (it.name :> it.val.v) @@ @ ELSE @,
            !.nodes = @ \o GoNodesOf(f, w, it),
            !.events = @ \o GoEventsOf(w, it),
            !.clients = IF GoClientOf(it) = <<>> THEN @
                        ELSE Append(@, [lo |-> it.lo, hi |-> it.hi, service |-> GoClientOf(it)])]
GoWalk(f) ==
  FoldLeft(LAMBDA w, it : GoVisit(f, w, it),
           [pkg |-> <<>>, consts |-> GoEnvDefaults(f), nodes |-> <<>>, events |-> <<>>, clients |-> <<>>],
           f.items)

(* `resolve_dependencies`: a blank import is everybody's, another one of    *)
(* the declarations whose lines mention it.                                 *)
GoDependencies(f, nodes) ==
  Gather(InSourceOrder(OfKind(f, "import")), LAMBDA i :
    LET it == f.items[i]
        takers == {j \in DOMAIN nodes : it.blank \/ (it.ref # <<>> /\ Uses(f, nodes[j], it.ref))}
    IN Mapped(InSourceOrder(takers), LAMBDA j : <<j, Import(it.name)>>))

(* `resolve_events`: the smallest declaration around an event, or a marker  *)
(* of its own, which may in turn enclose the events after it.               *)
ResolveEvents(idx, pkg, events) ==
  FoldLeft(LAMBDA x, e :
             LET owner == Enclosing(x.nodes, e)
                 at == IF owner = 0 THEN Len(x.nodes) + 1 ELSE owner
                 marker == NodeOf(e.topic, IF e.producer THEN "EventStream" ELSE "KafkaTopic", pkg, e)
                 placed == [x EXCEPT !.nodes = IF owner = 0 THEN Append(@, marker) ELSE @]
             IN IF e.producer THEN [placed EXCEPT !.producers = Append(@, <<at, e.topic>>)]
                ELSE [placed EXCEPT !.consumers = Append(@, <<at, e.topic>>)],
           idx, events)

(* `resolve_rpc_calls`: a client nobody encloses is dropped.               *)
ResolveRpcCalls(nodes, clients) ==
  Gather(clients, LAMBDA c : IF Enclosing(nodes, c) = 0 THEN <<>>
                             ELSE <<<<Enclosing(nodes, c), PlainCall(c.service)>>>>)

GoExtract(f) ==
  LET w == GoWalk(f)
      idx == ResolveEvents([NoIndex EXCEPT !.nodes = w.nodes, !.deps = GoDependencies(f, w.nodes)], w.pkg, w.events)
  IN [idx EXCEPT !.calls = ResolveRpcCalls(idx.nodes, w.clients)]
=============================================================================
