---- MODULE GraphQueries ----
(***************************************************************************)
(* The questions the tools ask of the contract graph: who depends on a     *)
(* name, who implements and calls an RPC, and what a change to an event    *)
(* reaches within a number of hops.  Answers are sets: the order in which  *)
(* rows are printed is left out.                                           *)
(***************************************************************************)
EXTENDS ContractGraph

CONSTANTS
  Targets,         \* names a tool is asked about
  MaxImpactDepth,  \* MAX_IMPACT_DEPTH
  ShortNames,      \* names of fewer than SUBSTRING_FALLBACK_MIN_CHARS characters
  TestFiles        \* files a tool hides

Ids(m, k) == ToSet(Bucket(m, k))
Into(g, kinds, S) == {e \in g.edges : e.kind \in kinds /\ e.to \in S}
Known(g, S) == S \cap DOMAIN g.nodes
(* By file, line and id.                                                   *)
PlaceOf(g, i) == CHOOSE k \in DOMAIN Files : Files[k] = g.nodes[i].file
Earlier(g, i, j) ==
  \/ PlaceOf(g, i) < PlaceOf(g, j)
  \/ PlaceOf(g, i) = PlaceOf(g, j) /\ g.nodes[i].lo < g.nodes[j].lo
  \/ PlaceOf(g, i) = PlaceOf(g, j) /\ g.nodes[i].lo = g.nodes[j].lo /\ i < j

----------------------------------------------------------------------------
(* `find_dependents_raw`: importers of the name or of a path below it; else *)
(* importers of the package that declares it; else what an RPC edge links;  *)
(* else imports whose text merely contains it.                              *)

Importers(g, Test(_)) == Known(g, UNION {ToSet(g.deps[t]) : t \in {u \in DOMAIN g.deps : Test(u)}})
Declaring(g, n) ==
  Ids(g.byName, n) \cup UNION {Ids(g.byFqcn, <<SubSeq(n, 1, k), SubSeq(n, k + 1, Len(n))>>) : k \in DOMAIN n}
DeclaringPackages(g, n) == {g.nodes[i].pkg : i \in Declaring(g, n)} \ {<<>>}
DependentsMatched(g, n) ==
  LET direct == Importers(g, LAMBDA t : ~t.rel /\ (t.n = n \/ (t.path /\ IsStrictPrefix(n, t.n))))
      byPackage == Importers(g, LAMBDA t : ~t.rel /\ t.n \in DeclaringPackages(g, n))
      siblings == Declaring(g, n) \cup UNION {Ids(g.byPackage, p) : p \in DeclaringPackages(g, n)}
      linked == Known(g, {e.from : e \in Into(g, {"CallsRpc", "Implements"}, siblings)})
      text == IF n \in ShortNames THEN {} ELSE Importers(g, LAMBDA t : Within(n, t.n))
  IN CASE direct # {} -> [ids |-> direct, how |-> "import"]
       [] direct = {} /\ byPackage # {} -> [ids |-> byPackage, how |-> "declaring package"]
       [] direct = {} /\ byPackage = {} /\ linked # {} -> [ids |-> linked, how |-> "edge"]
       [] OTHER -> [ids |-> text, how |-> IF text = {} THEN "none" ELSE "substring"]

----------------------------------------------------------------------------
(* gRPC.  A node matches a target as a symbol (its name, in any case, bare  *)
(* or qualified), or only because its name or package contains it; the      *)
(* latter count only when nothing matches as a symbol, or as methods of a   *)
(* service that does.                                                       *)

ExactName(n, t) == n.name = t \/ (n.pkg # <<>> /\ n.pkg \o n.name = t)
SymbolMatch(n, t) == ExactName(n, t) \/ EqIgnoreCase(n.name, t) \/ BareMatch(n.name, t)
GrpcNodes(g) == {i \in DOMAIN g.nodes : g.nodes[i].kind \in {"GrpcService", "GrpcMethod"}}
Symbols(g, t) == {i \in GrpcNodes(g) : SymbolMatch(g.nodes[i], t)}
Mentions(g, t) == {i \in GrpcNodes(g) : Within(t, g.nodes[i].pkg) \/ Within(t, g.nodes[i].name)}
MethodsOf(g, S) ==
  {i \in GrpcNodes(g) : /\ g.nodes[i].kind = "GrpcMethod"
                        /\ \E s \in S : /\ g.nodes[s].kind = "GrpcService"
                                        /\ g.nodes[s].file = g.nodes[i].file
                                        /\ IsStrictPrefix(g.nodes[s].name, g.nodes[i].name)}
AnchorMatches(g, t) ==
  IF Symbols(g, t) = {} THEN Mentions(g, t)
  ELSE Symbols(g, t) \cup (Mentions(g, t) \cap MethodsOf(g, Symbols(g, t)))
Anchors(g, t) == {i \in AnchorMatches(g, t) : IsProto(g.nodes[i]) \/ i \in Symbols(g, t)}
MatchConf(g, t, i) == IF ExactName(g.nodes[i], t) THEN "exact" ELSE "heuristic"

(* `enclosing_grpc_service`: the tightest service around a method.          *)
Around(g, i) == {s \in DOMAIN g.nodes : /\ g.nodes[s].kind = "GrpcService"
                                        /\ g.nodes[s].file = g.nodes[i].file
                                        /\ g.nodes[s].lo <= g.nodes[i].lo /\ g.nodes[s].hi >= g.nodes[i].hi}
Size(g, s) == g.nodes[s].hi - g.nodes[s].lo
EnclosingService(g, i) ==
  {s \in Around(g, i) : \A o \in Around(g, i) : Size(g, s) < Size(g, o) \/ (Size(g, s) = Size(g, o) /\ s <= o)}

(* `analyze_grpc`.                                                          *)
StubsNamed(g, t, site) ==
  {<<i, MatchConf(g, t, i)>> : i \in {j \in Anchors(g, t) : /\ ~IsProto(g.nodes[j])
                                                           /\ (g.nodes[j].site = "rpc") = site}}
Firsts(E) == {e \in E : \A d \in E : d.from = e.from => e.to <= d.to}
Ends(E) == {<<e.from, e.conf>> : e \in E}
(* An exact edge makes a handler found by its name exact; a stub keeps what *)
(* it was first found with.                                                 *)
ServerHandlers(g, t) ==
  LET edges == Into(g, {"Implements"}, Anchors(g, t))
      exact == {e.from : e \in {d \in edges : d.conf = "exact"}}
      named == StubsNamed(g, t, FALSE)
      found == named \cup {l \in Ends(Firsts(edges)) : \A s \in named : s[1] # l[1]}
  IN {<<x[1], IF x[1] \in exact THEN "exact" ELSE x[2]>> : x \in found}
ClientStubs(g, t) ==
  LET named == StubsNamed(g, t, TRUE) IN
  named \cup {l \in Ends(Firsts(Into(g, {"CallsRpc"}, Anchors(g, t)))) : \A s \in named : s[1] # l[1]}
TracedServices(g, t) ==
  UNION {EnclosingService(g, i) : i \in {j \in Anchors(g, t) : g.nodes[j].kind = "GrpcMethod"}}
(* Files whose calls through the service are recorded method by method.     *)
BoundFiles(g, services) ==
  {g.nodes[c.by].file : c \in {d \in ToSet(g.calls) : d.by \in DOMAIN g.nodes /\
     \E s \in services : \/ d.to.k = "exact" /\ Qualified(d.to.n) /\ EqIgnoreCase(PkgOf(d.to.n), g.nodes[s].name)
                         \/ d.to.k = "field" /\ EqIgnoreCase(d.to.service, g.nodes[s].name)}}
ServiceLevelClientsAll(g, t) ==
  Ends(Firsts(Into(g, {"CallsRpc"}, TracedServices(g, t))))
ServiceLevelClients(g, t) ==
  LET resolved == {g.nodes[s[1]].file : s \in ClientStubs(g, t)} \cup BoundFiles(g, TracedServices(g, t))
  IN {c \in ServiceLevelClientsAll(g, t) : g.nodes[c[1]].file \notin resolved}

----------------------------------------------------------------------------
(* Events.  `analyze_impact`: the key as written, or with its separators as *)
(* underscores when nothing has it; a topic that is the key wins over those *)
(* that contain it.                                                         *)

Keys(g) == DOMAIN g.producers \cup DOMAIN g.consumers
ImpactKey(g, t) ==
  LET key == NormalizeTopicKey(t) IN
  IF (\A k \in Keys(g) : ~Within(key, k)) /\ \E k \in Keys(g) : Within(Joined(key), k) THEN Joined(key) ELSE key
IsExact(g, key) == key \in Keys(g)
KeyMatches(g, key, k) == IF IsExact(g, key) THEN k = key ELSE Within(key, k)
(* A pattern's call site is named after its topic, under a prefix.          *)
TopicOf(n) == IF n.site \in {"produce", "consume"} THEN n.topic ELSE n.name
EventNodes(g, key, kinds) ==
  {i \in DOMAIN g.nodes :
     LET n == g.nodes[i] IN
     /\ n.kind \in kinds
     /\ IF IsExact(g, key) /\ (n.site \in {"produce", "consume"} \/ n.kind \in StreamKinds)
        THEN NormalizeTopicKey(TopicOf(n)) = key
        ELSE Within(key, Lower(TopicOf(n)))}
Registered(g, m, key) == Known(g, UNION {ToSet(m[k]) : k \in {j \in DOMAIN m : KeyMatches(g, key, j)}})
ImpactOf(g, key) ==
  [key |-> key, upstream |-> Registered(g, g.producers, key), topics |-> EventNodes(g, key, StreamKinds),
   consumers |-> Registered(g, g.consumers, key) \cup EventNodes(g, key, {"PostProcessor"}),
   sagas |-> EventNodes(g, key, {"Saga"}), onward |-> {}, unexpanded |-> {}, chainEnd |-> {}]
AnalyzeImpact(g, t) == ImpactOf(g, ImpactKey(g, t))

(* `analyze_impact_with_depth`: each hop goes from the frontier to what it, *)
(* or a producer declared in its file, publishes onto, and from those       *)
(* topics to their consumers.                                               *)
FileOf(g, i) == g.nodes[i].file
Publishers(g, S) ==
  S \cup {i \in DOMAIN g.nodes : \E j \in Known(g, S) : FileOf(g, i) = FileOf(g, j)}
EdgesOf(g, kind) == {e \in g.edges : e.kind = kind}
Hop(g, s) ==
  LET out == {e \in EdgesOf(g, "Produces") : e.from \in Publishers(g, s.frontier)}
      fresh == {e.to : e \in out} \ s.topics
      heard == Known(g, {e.to : e \in {d \in EdgesOf(g, "Consumes") : d.from \in fresh}}) \ s.seen
  IN [s EXCEPT !.expanded = @ \cup s.frontier,
               !.onward = @ \cup (Known(g, {e.from : e \in out}) \ (s.frontier \cup s.upstream)),
               !.topics = @ \cup fresh, !.seen = @ \cup heard, !.frontier = heard]
Depth(d) == IF d > MaxImpactDepth THEN MaxImpactDepth ELSE IF d < 1 THEN 1 ELSE d
Walk(g, flow, d) ==
  FoldLeft(LAMBDA s, h : IF s.frontier = {} THEN s ELSE Hop(g, s),
           [frontier |-> flow.consumers \cup flow.sagas, seen |-> flow.consumers \cup flow.sagas,
            topics |-> flow.topics, upstream |-> flow.upstream, onward |-> {}, expanded |-> {}],
           [h \in 1..(d - 1) |-> h])
Publishes(g, i) == \E e \in EdgesOf(g, "Produces") : e.from \in Publishers(g, {i})
Walked(g, flow, w) ==
  LET late == w.seen \ (flow.consumers \cup flow.sagas)
      sagas == {i \in late : g.nodes[i].kind = "Saga"}
  IN [flow EXCEPT !.topics = Known(g, w.topics), !.consumers = @ \cup (late \ sagas),
                  !.sagas = @ \cup sagas, !.onward = w.onward,
                  !.unexpanded = w.frontier,
                  !.chainEnd = {i \in w.expanded : ~Publishes(g, i)}]
WithDepth(g, flow, depth) == Walked(g, flow, Walk(g, flow, Depth(depth)))
ImpactWithDepth(g, t, depth) == WithDepth(g, AnalyzeImpact(g, t), depth)

----------------------------------------------------------------------------
(* `impact_matrix_visible`: one row per node, role and contract it is       *)
(* linked through, with the repositories that own the contract inside.      *)

Strength(c) == CASE c = "exact" -> 0 [] c = "heuristic" -> 1 [] OTHER -> 2
Weakest(a, b) == IF Strength(a) >= Strength(b) THEN a ELSE b
NoVia == 0 - 1
RoleOf(e) == IF e.kind = "Implements" THEN "handler" ELSE "client"

(* A client of a method may be bound to the method's service only: to the   *)
(* one of its .proto file, or to a service of that name in code.            *)
ServicesNamed(g, a) ==
  IF g.nodes[a].kind # "GrpcMethod" \/ ~IsProto(g.nodes[a]) \/ ~Qualified(g.nodes[a].name) THEN {}
  ELSE {s \in Ids(g.byName, PkgOf(g.nodes[a].name)) :
          /\ g.nodes[s].kind = "GrpcService"
          /\ IsProto(g.nodes[s]) => g.nodes[s].file = g.nodes[a].file}
(* Mutant: services are not linked, only methods.                          *)
LinkedMethods(g, A) ==
  {[node |-> e.from, role |-> RoleOf(e), conf |-> e.conf, via |-> e.to, anchor |-> e.to] :
     e \in Into(g, {"Implements", "CallsRpc"}, A)}
Linked(g, A) ==
  LET rpc == {e \in g.edges : e.kind \in {"Implements", "CallsRpc"} /\ e.from \in DOMAIN g.nodes}
      row(e, a, conf) == [node |-> e.from, role |-> RoleOf(e), conf |-> conf, via |-> e.to, anchor |-> a]
  IN {row(e, e.to, e.conf) : e \in {d \in rpc : d.to \in A}}
       \cup UNION {{row(e, a, Weakest(e.conf, "heuristic")) :
                      e \in {d \in rpc : d.kind = "CallsRpc" /\ d.to \in ServicesNamed(g, a)}} : a \in A}
Matched(g, t) ==
  {[node |-> i, role |-> IF g.nodes[i].site = "rpc" THEN "client" ELSE "handler",
    conf |-> MatchConf(g, t, i), via |-> NoVia, anchor |-> NoVia] :
     i \in {j \in Anchors(g, t) : ~IsProto(g.nodes[j])}}

Repos(g, S) == {g.nodes[i].repo : i \in S} \ {NoRepo}
(* The repositories of its handlers own a contract, else its own one.       *)
OwnersOf(g, links, a) ==
  LET serving == Repos(g, {r.node : r \in {x \in links : x.anchor = a /\ x.role = "handler"}})
  IN IF serving # {} THEN serving ELSE IF g.nodes[a].site = "rpc" THEN {} ELSE Repos(g, {a})
ScopeOf(g, i, owners) == IF g.nodes[i].repo \in owners \ {NoRepo} THEN "internal" ELSE "external"

Scoped(g, r, own) ==
  [node |-> r.node, role |-> r.role, conf |-> r.conf, via |-> r.via, scope |-> ScopeOf(g, r.node, own)]
LinkedRows(g, links, direct, owners) ==
  [rows |-> {Scoped(g, r, OwnersOf(g, links, r.anchor)) : r \in links} \cup {Scoped(g, r, owners) : r \in direct},
   owners |-> owners]
RowsThrough(g, A, links, matched) ==
  LinkedRows(g, links, {r \in matched : \A l \in links : l.node # r.node \/ l.role # r.role},
         (UNION {OwnersOf(g, links, a) : a \in A}) \cup Repos(g, {r.node : r \in {x \in matched : x.role = "handler"}}))
GrpcRows(g, t) == RowsThrough(g, Anchors(g, t), Linked(g, Anchors(g, t)), Matched(g, t))

(* `async_match_confidence`.                                                *)
AsyncConf(g, i, key) ==
  IF \/ i \in ToSet(Bucket(g.producers, key)) \/ i \in ToSet(Bucket(g.consumers, key))
     \/ Lower(TopicOf(g.nodes[i])) = key
  THEN TopicConf(g, i) ELSE "heuristic"
Sited(g, S, site) == {i \in S : g.nodes[i].site = site}
AsyncRows(g, flow) ==
  LET owners == IF Repos(g, flow.upstream) # {} THEN Repos(g, flow.upstream) ELSE Repos(g, flow.topics)
      role(i, r) == CASE g.nodes[i].site = "produce" -> "producer"
                      [] g.nodes[i].site = "consume" -> "consumer" [] OTHER -> r
      rows(S, r) == {[node |-> i, role |-> role(i, r), conf |-> AsyncConf(g, i, Lower(flow.key)), via |-> NoVia,
                      scope |-> ScopeOf(g, i, owners)] : i \in S}
  IN [rows |-> rows(flow.upstream \cup flow.onward, "producer") \cup rows(flow.topics, "topic")
                 \cup rows(flow.consumers, "consumer") \cup rows(flow.sagas, "saga"),
      owners |-> owners]

(* Of the rows of one key: the strongest, then the external one.            *)
Better(r, s) ==
  Strength(r.conf) < Strength(s.conf) \/ (Strength(r.conf) = Strength(s.conf) /\ r.scope = "external")
OneRow(R) ==
  {r \in R : \A s \in R : (s.node = r.node /\ s.role = r.role /\ s.via = r.via) => s = r \/ Better(r, s)}
Hides(g, i) == g.nodes[i].file \in TestFiles
Shown(g, S) == {i \in S : ~Hides(g, i)}
Rooted(g, S) == {i \in S : g.nodes[i].repo # NoRepo}
Matrix(g, t, flow, rows, owners) ==
  LET matched == flow.topics \cup flow.upstream \cup flow.consumers
  IN [rows |-> {r \in rows : ~Hides(g, r.node)},
      hidden |-> Cardinality({r \in rows : Hides(g, r.node)}),
      contracts |-> {i \in Anchors(g, t) : IsProto(g.nodes[i])},
      owners |-> owners,
      noProducer |-> matched # {} /\ Shown(g, flow.upstream \cup Sited(g, flow.topics, "produce")) = {},
      noConsumer |-> matched # {} /\ Shown(g, flow.consumers \cup Sited(g, flow.topics, "consume")) = {},
      onlyTests |-> matched # {} /\ Shown(g, Rooted(g, matched)) = {},
      fileLinked |-> flow.onward # {},
      unexpanded |-> Shown(g, flow.unexpanded), chainEnd |-> Shown(g, flow.chainEnd)]
MatrixOf(g, t, flow, grpc, async) == Matrix(g, t, flow, OneRow(grpc.rows \cup async.rows), grpc.owners \cup async.owners)
MatrixAlong(g, t, flow) == MatrixOf(g, t, flow, GrpcRows(g, t), AsyncRows(g, flow))
ImpactMatrix(g, t, depth) == MatrixAlong(g, t, ImpactWithDepth(g, t, depth))

(* `search_symbols`: an exact name, then what contains it or folds to it.   *)
SearchSymbols(g, n, fs) ==
  {i \in DOMAIN g.nodes :
     /\ g.nodes[i].kind # "Module" /\ g.nodes[i].file \in fs
     /\ i \in Ids(g.byName, n) \/ Within(Lower(n), Lower(g.nodes[i].name)) \/ BareMatch(g.nodes[i].name, n)}

----------------------------------------------------------------------------
Depths == 1..MaxImpactDepth
Nodes(R) == {x[1] : x \in R}
RowsOf(m, role) == {r.node : r \in {x \in m.rows : x.role = role}}

(* `analyze_grpc` and `analyze_impact`, which find their handlers and       *)
(* clients by two pieces of code, name the same ones: of a service around a *)
(* method, those of its .proto (a service found only in code is followed by *)
(* one tool through its lines, by the other through its name).              *)
SameAnswers(rows, handlers, stubs, declared) ==
  LET clients == RowsOf(rows, "client")
      calls(S) == {e.from : e \in Into(graph, {"CallsRpc"}, S)}
      coded == {i \in DOMAIN graph.nodes : ~IsProto(graph.nodes[i])}
  IN /\ RowsOf(rows, "handler") = handlers
     /\ stubs \cup calls(declared) \subseteq clients
     /\ clients \subseteq stubs \cup calls(declared \cup coded)
ToolsAgree ==
  \A t \in Targets :
    SameAnswers(GrpcRows(graph, t), Nodes(ServerHandlers(graph, t)), Nodes(ClientStubs(graph, t)),
                {s \in TracedServices(graph, t) : IsProto(graph.nodes[s])})

(* A file already known to call the traced method, or to record all its     *)
(* calls through the service, is never listed again as one that may.        *)
NoFileTwice ==
  \A t \in Targets :
    {FileOf(graph, i) : i \in Nodes(ServiceLevelClients(graph, t))}
      \cap {FileOf(graph, i) : i \in Nodes(ClientStubs(graph, t))} = {}

(* What a walk says of its end is true: with nothing left unexpanded one    *)
(* more hop finds nothing, everything it reached consumes what somebody it  *)
(* reached publishes, and the ends it names are ends.                       *)
TruthfulWalk(near, far) ==
  LET reached(f) == f.consumers \cup f.sagas
      out(i) == {e.to : e \in {x \in EdgesOf(graph, "Produces") : x.from \in Publishers(graph, {i})}}
      heard(i) == Known(graph, {e.to : e \in {x \in EdgesOf(graph, "Consumes") : x.from \in out(i)}})
  IN /\ reached(near) \subseteq reached(far)
     /\ near.unexpanded = {} => reached(far) = reached(near) /\ far.topics = near.topics
     /\ near.unexpanded = {} => \A i \in reached(near) : heard(i) \subseteq reached(near)
     /\ \A i \in reached(far) \ reached(near) : \E j \in near.unexpanded : i \in heard(j)
     /\ near.chainEnd \cap near.unexpanded = {}
     /\ \A i \in near.chainEnd : heard(i) = {}
WalkNotesTruthful ==
  \A t \in Targets, d \in 1..(MaxImpactDepth - 1) :
    TruthfulWalk(ImpactWithDepth(graph, t, d), ImpactWithDepth(graph, t, d + 1))

(* The notes of a matrix say of its rows what they show: no producer or     *)
(* consumer is said missing while a row shows one, and none is missing      *)
(* without a note.                                                          *)
NotesMatch(m) ==
  LET event == {r \in m.rows : r.role \in {"producer", "topic", "consumer"}}
  IN /\ event # {} => (m.noConsumer <=> RowsOf(m, "consumer") = {})
     /\ event # {} /\ ~m.fileLinked => (m.noProducer <=> RowsOf(m, "producer") = {})
     /\ m.onlyTests => m.noProducer /\ m.noConsumer
NotesMatchRows == \A t \in Targets, d \in Depths : NotesMatch(ImpactMatrix(graph, t, d))

(* A repository that serves a contract is never reported as an outside one, *)
(* whichever contracts it is reached through; one row per node, role, link. *)
HandlersOwn(m) ==
  /\ \A r \in m.rows : r.role = "handler" => r.scope = "internal" /\ graph.nodes[r.node].repo \in m.owners
  /\ \A r, s \in m.rows : (r.node = s.node /\ r.role = s.role) => (r = s \/ (r.via # s.via /\ NoVia \notin {r.via, s.via}))
HandlersInside == \A t \in Targets : HandlersOwn(ImpactMatrix(graph, t, 1))

(* `find_dependents`, which reads the imports as they are written, never    *)
(* answers "nobody" for a declaration some derived edge points at.          *)
DependedOnIsAnswered ==
  \A t \in Targets \ ShortNames :
    (\E e \in graph.edges : /\ e.kind \in {"Imports", "CallsRpc", "Implements"}
                            /\ e.to \in Ids(graph.byName, t) /\ graph.nodes[e.to].file # HubFile)
      => DependentsMatched(graph, t).ids # {}
=============================================================================
