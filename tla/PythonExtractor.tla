---- MODULE PythonExtractor ----
(***************************************************************************)
(* `PythonExtractor` (languages/python.rs).  The syntax nodes it looks at: *)
(*   "import" name, ref, module      "assign" name, val ("none": no value) *)
(*   "class" name                    "func" name                           *)
(*   "call" on, name, args           "dec", the same as a call, and bare   *)
(* A decorator stands before its function, at the same depth.  An argument *)
(* is [kw, e, v], kw being "none" for a positional one.  The file has a    *)
(* stem, and says whether protoc generated it.                             *)
(***************************************************************************)
EXTENDS Extraction

PyVerbs == {"get", "post", "put", "delete", "patch", "head", "options"}
PySends == {Word("produce"), Word("send"), Tok(<<"send", "and", "wait">>, "snake"), Word("publish")}
PyTaskCalls == {Word("delay"), Tok(<<"apply", "async">>, "snake")}
PyConsumer == Tok(<<"aio", "kafka", "consumer">>, "pascal")

(* `find_assignment_in_root`: the first string given to the name at the    *)
(* top level; a declaration without a value before it ends the search.     *)
PyAssigned(f, n) ==
  LET stops == {i \in OfKind(f, "assign") :
                  f.items[i].d = 0 /\ (f.items[i].val.e = "none" \/ (f.items[i].name = n /\ f.items[i].val.e = "lit"))}
      it == f.items[Min(stops)]
  IN IF stops # {} /\ it.val.e = "lit" THEN <<it.val.v>> ELSE <<>>
PyResolved(f, e) ==
  CASE e.e = "lit" -> <<e.v>> [] e.e = "ref" -> PyAssigned(f, e.v) [] OTHER -> <<>>

(* The arguments a call takes its topics from.                             *)
FirstArgValue(f, args) ==
  LET positional == SelectSeq(args, LAMBDA a : a.kw = "none")
      named == Gather(SelectSeq(args, LAMBDA a : a.kw = "topic"), LAMBDA a : PyResolved(f, a))
  IN IF positional # <<>> THEN PyResolved(f, positional[1]) ELSE SubSeq(named, 1, Min({1, Len(named)}))
PositionalValues(f, args) ==
  LET named == {i \in DOMAIN args : args[i].kw # "none"}
  IN Gather(SubSeq(args, 1, Min(named \cup {Len(args) + 1}) - 1), LAMBDA a : PyResolved(f, a))
ListOrScalar(f, args) ==
  IF args = <<>> \/ args[1].kw # "none" THEN <<>>
  ELSE IF args[1].e = "list" THEN Gather(args[1].v, LAMBDA a : PyResolved(f, a))
  ELSE PyResolved(f, args[1])

(* `detect_event_call`, `detect_grpc_stub_call`.                           *)
PyProduced(f, it) ==
  CASE it.on # <<>> /\ it.name \in PyTaskCalls -> <<BareOf(it.on)>>
    [] it.on # <<>> /\ it.name \in PySends -> FirstArgValue(f, it.args)
    [] OTHER -> <<>>
PyConsumed(f, it) ==
  CASE it.on # <<>> /\ it.name = Word("subscribe") -> ListOrScalar(f, it.args)
    [] it.on = <<>> /\ it.name = PyConsumer -> PositionalValues(f, it.args)
    [] OTHER -> <<>>
PyStub(it) ==
  IF /\ it.on # <<>> /\ Len(Last(it.on).w) > 2
     /\ SubSeq(Last(it.on).w, Len(Last(it.on).w) - 1, Len(Last(it.on).w)) = <<"pb2", "grpc">>
     /\ Len(it.name.w) > 1 /\ Last(it.name.w) = "stub"
  THEN <<PlainCall(<<Tok(Front(it.name.w), "pascal")>>)>> ELSE <<>>

(* The decorators of a function; `check_decorator` passes over them down   *)
(* and then up again, so the topmost that says anything has the last word. *)
PyDecorators(f, i) == Mapped(InSourceOrder(Attached(f, i, "dec")), LAMBDA j : f.items[j])
CeleryDecorator(it) == "task" \in ToSet(it.name.w) \/ it.on = <<Word("celery")>>
RouteDecorator(it) == ~CeleryDecorator(it) /\ it.on \in {<<Word("app")>>, <<Word("router")>>,
                                                         <<Tok(<<"api", "router">>, "snake")>>}
(* `celery_task_name_override`, `extract_flask_route`.                     *)
CeleryName(it, func) ==
  LET named == SelectSeq(it.args, LAMBDA a : a.kw = "name")
  IN IF named # <<>> /\ named[1].e = "lit" THEN named[1].v ELSE func
FlaskRoute(it) ==
  LET lit(kw) == SelectSeq(it.args, LAMBDA a : a.kw = kw /\ a.e = "lit")
      path == lit("none") \o lit("rule")
      methods == Gather(SelectSeq(it.args, LAMBDA a : a.kw = "methods"), Literals)
      verb == LowerT(it.name).w[1]
  IN IF it.bare \/ path = <<>> \/ Len(it.name.w) # 1 \/ verb \notin PyVerbs \cup {"route"} THEN {}
     ELSE {[path |-> path[1].v,
            verbs |-> IF verb # "route" THEN {<<Word(verb)>>}
                      ELSE IF methods = <<>> THEN {<<Word("get")>>} ELSE ToSet(methods)]}

PyFunc(f, i) ==
  LET decs == PyDecorators(f, i)
      telling == SelectSeq(decs, LAMBDA x : CeleryDecorator(x) \/ RouteDecorator(x))
      tasks == SelectSeq(decs, CeleryDecorator)
      routes == SelectSeq(decs, LAMBDA x : RouteDecorator(x) /\ FlaskRoute(x) # {})
  IN [kind |-> IF telling = <<>> THEN "ServiceClass"
               ELSE IF CeleryDecorator(telling[1]) THEN "Queue" ELSE "HttpEndpoint",
      task |-> IF tasks = <<>> THEN <<>> ELSE <<CeleryName(tasks[1], f.items[i].name)>>,
      route |-> IF routes = <<>> THEN {} ELSE FlaskRoute(routes[1])]

(* `visit_node`.  An event outside every declaration goes to the first     *)
(* node, a stub to the node of the module, made when first needed.         *)
PyOwner(f, w, i) ==
  LET decls == {j \in Above(f, i) : f.items[j].k \in {"class", "func"}}
  IN IF decls = {} THEN 0 ELSE w.at[Max(decls)]
PyDeclare(f, w, i, node, tasks) ==
  [w EXCEPT !.nodes = Append(@, node), !.at = (i :> Len(w.nodes) + 1) @@ @,
            !.consumers = @ \o Mapped(tasks, LAMBDA t : <<Len(w.nodes) + 1, t>>)]
PyModule(f, w) ==
  IF w.module # 0 THEN w
  ELSE [w EXCEPT !.nodes = Append(@, NodeOf(f.stem, "ServiceClass", w.pkg, [lo |-> 1, hi |-> 1])),
                 !.module = Len(w.nodes) + 1]
PyCall(f, w, i) ==
  LET it == f.items[i]
      owner == PyOwner(f, w, i)
      first == IF owner = 0 THEN 1 ELSE owner
      placed(topics) == IF w.nodes = <<>> THEN <<>> ELSE Mapped(topics, LAMBDA t : <<first, t>>)
      v == [w EXCEPT !.producers = @ \o placed(PyProduced(f, it)), !.consumers = @ \o placed(PyConsumed(f, it))]
      m == IF owner = 0 THEN PyModule(f, v) ELSE v
      caller == IF owner = 0 THEN m.module ELSE owner
  IN [m EXCEPT !.calls = @ \o Mapped(PyStub(it), LAMBDA c : <<caller, c>>)]
PyVisit(f, w, i) ==
  LET it == f.items[i] IN
  CASE it.k = "class" ->
         PyDeclare(f, w, i, NodeOf(it.name, IF Last(Last(it.name).w) = "servicer" /\ ~f.generated THEN "GrpcService"
                                            ELSE "ServiceClass", w.pkg, it), <<>>)
    [] it.k = "func" ->
         LET fn == PyFunc(f, i)
         IN PyDeclare(f, w, i, [NodeOf(it.name, fn.kind, w.pkg, it) EXCEPT !.sig = fn.route], fn.task)
    [] it.k = "call" \/ (it.k = "dec" /\ ~it.bare) -> PyCall(f, w, i)
    [] OTHER -> w

(* `resolve_import_dependencies`: a module is everybody's, a name taken    *)
(* from one belongs to the declarations that mention it; each target once. *)
PyDependencies(f, nodes) ==
  LET imports == InSourceOrder(OfKind(f, "import"))
      used(n, i) == f.items[i].module \/ Uses(f, n, f.items[i].ref)
      targets(n) == {i \in DOMAIN imports :
                       /\ used(n, imports[i])
                       /\ \A j \in 1..(i - 1) : used(n, imports[j]) => f.items[imports[j]].name # f.items[imports[i]].name}
  IN FlattenSeq([k \in DOMAIN nodes |->
       Mapped(InSourceOrder(targets(nodes[k])), LAMBDA i : <<k, Import(f.items[imports[i]].name)>>)])

PyIndex(f, w, nodes) ==
  [NoIndex EXCEPT !.nodes = nodes, !.deps = PyDependencies(f, nodes), !.producers = w.producers,
                  !.consumers = w.consumers, !.calls = w.calls]
PyWhole(f, w) == NodeOf(f.stem, "ServiceClass", w.pkg, [lo |-> 1, hi |-> Lines(f.items)])
PyWalked(f, w) == PyIndex(f, w, IF w.nodes = <<>> /\ f.items # <<>> THEN <<PyWhole(f, w)>> ELSE w.nodes)
PyExtract(f) ==
  LET start == [pkg |-> ServicePackage(f.where, <<>>), nodes |-> <<>>, at |-> <<>>, module |-> 0,
                producers |-> <<>>, consumers |-> <<>>, calls |-> <<>>]
  IN PyWalked(f, FoldLeft(LAMBDA x, i : PyVisit(f, x, i), start, Positions(f)))
=============================================================================
