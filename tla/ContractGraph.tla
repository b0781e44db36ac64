---- MODULE ContractGraph ----
(***************************************************************************)
(* `ContractGraph` (mesh-core contracts.rs): the nodes and facts of the    *)
(* indexed files, their indices, and the edges `reconcile_edges` derives   *)
(* from them, built in full or patched by incremental reloads.             *)
(*                                                                         *)
(* A file's extraction (`FileIndex`) is one of a few given contents: its   *)
(* nodes in order, and relations naming a node by its position.            *)
(***************************************************************************)
EXTENDS Names, FiniteSets, FiniteSetsExt, Functions, TLC

CONSTANTS
  Files,       \* the indexed paths, in the order they are crawled
  Attr,        \* [file -> [repo, proto, script]]
  Contents,    \* [file -> the contents it may have]
  Extracted,   \* [content -> its extraction]
  NoFile,      \* the content of a path that is not there
  Sorted,      \* every import target and topic key, in the order of their bytes
  Builtins,    \* names of Node.js modules
  WildcardCap, \* MAX_WILDCARD_PRODUCERS
  FirstSeen(_), \* bound: the contents a behaviour starts from
  MaxReloads,  \* bound: incremental reloads in one behaviour
  MaxBatch     \* bound: files in one reload

VARIABLES
  graph,       \* the graph of the installed snapshot
  content,     \* what each path was indexed from
  reloads      \* reloads so far

vars == <<graph, content, reloads>>

Hub == <<Word("event-bus")>>   \* the package of synthetic topic nodes
HubFile == "event-bus"
NoRepo == "no repo"            \* RepoId::MAX
StreamKinds == {"KafkaTopic", "EventStream", "Queue"}

(* Lists are lists; every content a file may have has been extracted, into *)
(* nodes and relations that name one of them; Sorted holds every topic; no *)
(* path is the one hubs are given, no root has their number.               *)
IsList(s) == s \in Seq(ToSet(s))
Named(rel) == {r[1] : r \in ToSet(rel)}
ASSUME GraphAssumption ==
  /\ IsList(Files) /\ IsList(Sorted) /\ HubFile \notin ToSet(Files)
  /\ \A i, j \in DOMAIN Files : Files[i] = Files[j] => i = j
  /\ \A f \in ToSet(Files) : Contents[f] \subseteq DOMAIN Extracted /\ Attr[f].repo # NoRepo
  /\ WildcardCap \in Nat /\ MaxReloads \in Nat
ASSUME ExtractedAssumption ==
  \A c \in DOMAIN Extracted :
    LET x == Extracted[c] IN
    /\ IsList(x.nodes) /\ IsList(x.deps) /\ IsList(x.producers) /\ IsList(x.consumers) /\ IsList(x.calls)
    /\ \A i \in DOMAIN x.nodes : {"name", "kind", "pkg"} \subseteq DOMAIN x.nodes[i]
    /\ x.heuristic \cup Named(x.deps) \cup Named(x.producers) \cup Named(x.consumers) \cup Named(x.calls)
         \subseteq DOMAIN x.nodes
    /\ \A r \in ToSet(x.producers) \cup ToSet(x.consumers) : NormalizeTopicKey(r[2]) \in ToSet(Sorted)
Rank(n) == CHOOSE i \in DOMAIN Sorted : Sorted[i] = n

(* The elements of a set in the order of a key they have no two alike.     *)
InOrder(S, Key(_)) ==
  [k \in 1..Cardinality(S) |-> CHOOSE x \in S : Cardinality({y \in S : Key(y) < Key(x)}) = k - 1]

Bucket(f, k) == IF k \in DOMAIN f THEN f[k] ELSE <<>>
Push(f, k, x) == [j \in DOMAIN f \cup {k} |-> IF j = k THEN Append(Bucket(f, k), x) ELSE f[j]]
(* `retain_bucket` under some of the keys: the ids go, and a bucket that is *)
(* empty then.                                                              *)
Without(s, ids) ==
  LET kept[i \in 0..Len(s)] ==
        IF i = 0 THEN <<>> ELSE IF s[i] \in ids THEN kept[i - 1] ELSE Append(kept[i - 1], s[i])
  IN kept[Len(s)]
Purge(f, keys, ids) ==
  [k \in {j \in DOMAIN f : j \in keys => Without(f[j], ids) # <<>>} |-> IF k \in keys THEN Without(f[k], ids) ELSE f[k]]
Retain(f, ids) == Purge(f, DOMAIN f, ids)

NoMap == [x \in {} |-> <<>>]
EmptyGraph ==
  [nodes |-> NoMap, edges |-> {}, next |-> 0,
   byName |-> NoMap, byPackage |-> NoMap, byFile |-> NoMap, byFqcn |-> NoMap,
   deps |-> NoMap, producers |-> NoMap, consumers |-> NoMap, calls |-> <<>>,
   heuristic |-> {}, rpcNames |-> NoMap]

----------------------------------------------------------------------------
(* Building and patching.                                                  *)

HasFqcn(n) == n.kind \in {"GrpcMethod", "GrpcService"} \/ n.pkg # <<>>
(* The keys of a node in each index, at most two: a stream is found under  *)
(* its lower-case name too, so that one whose name is lower case is listed *)
(* twice.                                                                  *)
NameKeys(n) == IF n.kind \in StreamKinds THEN <<n.name, Lower(n.name)>> ELSE <<n.name>>
PackageKeys(n) == IF n.pkg = <<>> THEN <<>> ELSE <<n.pkg>>
FileKeys(n) == <<n.file>>
FqcnKeys(n) == IF HasFqcn(n) THEN <<<<n.pkg, n.name>>>> ELSE <<>>

Enter(f, keys, id) ==
  LET once == IF keys = <<>> THEN f ELSE Push(f, keys[1], id)
  IN IF Len(keys) > 1 THEN Push(once, keys[2], id) ELSE once
AddNode(g, n) ==
  LET id == g.next IN
  [g EXCEPT !.next = id + 1,
            !.nodes = [i \in DOMAIN g.nodes \cup {id} |-> IF i = id THEN n ELSE g.nodes[i]],
            !.byName = Enter(@, NameKeys(n), id), !.byPackage = Enter(@, PackageKeys(n), id),
            !.byFile = Enter(@, FileKeys(n), id), !.byFqcn = Enter(@, FqcnKeys(n), id)]

(* Mutant: only the name as it is spelt is taken out of the name index.    *)
RemoveNodesByName(g, ids) ==
  [g EXCEPT !.nodes = Restrict(@, DOMAIN @ \ ids),
            !.byName = Purge(@, {g.nodes[i].name : i \in ids \cap DOMAIN g.nodes}, ids),
            !.byPackage = Retain(@, ids), !.byFqcn = Retain(@, ids), !.byFile = Retain(@, ids)]
(* `remove_nodes`: the node, and the buckets its own attributes name.      *)
RemoveNodes(g, ids) ==
  LET gone == ids \cap DOMAIN g.nodes
      names == UNION {ToSet(NameKeys(g.nodes[i])) : i \in gone}
      pkgs == UNION {ToSet(PackageKeys(g.nodes[i])) : i \in gone}
      fqcns == UNION {ToSet(FqcnKeys(g.nodes[i])) : i \in gone}
      files == UNION {ToSet(FileKeys(g.nodes[i])) : i \in gone}
  IN [g EXCEPT !.nodes = Restrict(@, DOMAIN @ \ ids),
               !.byName = Purge(@, names, ids), !.byPackage = Purge(@, pkgs, ids),
               !.byFqcn = Purge(@, fqcns, ids), !.byFile = Purge(@, files, ids)]

(* Mutant: a patch keeps the facts of the files it replaces.               *)
PatchFilesNoFacts(g, fs) ==
  LET stale == UNION {ToSet(Bucket(g.byFile, f)) : f \in fs} IN
  [RemoveNodes([g EXCEPT !.byFile = Restrict(@, DOMAIN @ \ fs)], stale)
     EXCEPT !.heuristic = @ \ stale, !.edges = {e \in @ : e.from \notin stale /\ e.to \notin stale}]
(* `patch_files`: the nodes of the files, then every fact about them.      *)
Forget(g, stale) ==
  [g EXCEPT !.deps = Retain(@, stale), !.producers = Retain(@, stale), !.consumers = Retain(@, stale),
            !.calls = Without(@, {c \in ToSet(@) : c.by \in stale}), !.heuristic = @ \ stale,
            !.edges = {e \in @ : e.from \notin stale /\ e.to \notin stale}]
PatchFiles(g, fs) ==
  LET stale == UNION {ToSet(Bucket(g.byFile, f)) : f \in fs}
      rest == [g EXCEPT !.byFile = Restrict(@, DOMAIN @ \ fs)]
  IN IF stale = {} THEN rest ELSE Forget(RemoveNodes(rest, stale), stale)

(* `FileIndex::apply`: nodes take the next ids, relations follow them.     *)
AddNodes(g, ns) ==
  LET placed[i \in 0..Len(ns)] == IF i = 0 THEN g ELSE AddNode(placed[i - 1], ns[i])
  IN placed[Len(ns)]
KeyOf(r, topical) == IF topical THEN NormalizeTopicKey(r[2]) ELSE r[2]
AddRelation(m, rel, first, topical) ==
  LET noted[i \in 0..Len(rel)] ==
        IF i = 0 THEN m ELSE Push(noted[i - 1], KeyOf(rel[i], topical), first + rel[i][1] - 1)
  IN noted[Len(rel)]
AddFacts(g, first, idx) ==
  [g EXCEPT !.deps = AddRelation(@, idx.deps, first, FALSE),
            !.producers = AddRelation(@, idx.producers, first, TRUE),
            !.consumers = AddRelation(@, idx.consumers, first, TRUE),
            !.calls = @ \o [j \in DOMAIN idx.calls |-> [by |-> first + idx.calls[j][1] - 1, to |-> idx.calls[j][2]]],
            !.heuristic = @ \cup {first + i - 1 : i \in idx.heuristic}]
Located(n, f) ==
  [x \in DOMAIN n \cup {"file", "repo"} |-> IF x = "file" THEN f ELSE IF x = "repo" THEN Attr[f].repo ELSE n[x]]
NodesOf(f, idx) == [i \in DOMAIN idx.nodes |-> Located(idx.nodes[i], f)]
Apply(g, f, idx) == AddFacts(AddNodes(g, NodesOf(f, idx)), g.next, idx)

----------------------------------------------------------------------------
(* Deriving edges.  A candidate carries the order in which the code meets  *)
(* it: of two with the same ends and kind, the first stands.               *)

Edge(from, to, kind, meta, conf, rank) ==
  [from |-> from, to |-> to, kind |-> kind, meta |-> meta, conf |-> conf, rank |-> rank]
Same(d, e) == d.from = e.from /\ d.to = e.to /\ d.kind = e.kind
FirstWins(C) == {e \in C : \A d \in C : Same(d, e) => e.rank <= d.rank}
Unranked(C) == {[from |-> e.from, to |-> e.to, kind |-> e.kind, meta |-> e.meta, conf |-> e.conf] : e \in C}

Only(ids, own) == Without(ids, ToSet(ids) \ own)
InRepo(g, repo) == {i \in DOMAIN g.nodes : g.nodes[i].repo = repo}
InPackage(g, pkg) == {i \in DOMAIN g.nodes : g.nodes[i].pkg = pkg}

(* `pick_or_ambiguous`: the only candidate, or the only one of the caller's *)
(* own repository (package); else every candidate left, as ambiguous.       *)
Pick(ids, own, conf) ==
  IF Len(ids) = 1 THEN {<<ids[1], conf>>}
  ELSE LET same == Only(ids, own) IN
       IF Len(same) = 1 THEN {<<same[1], conf>>}
       ELSE {<<i, "ambiguous">> : i \in ToSet(IF same = <<>> THEN ids ELSE same)}
PickByRepo(g, ids, repo, conf) == Pick(ids, InRepo(g, repo), conf)
PickByPackage(g, ids, pkg, conf) == Pick(ids, InPackage(g, pkg), conf)

(* `resolve_import_targets`.                                               *)
FirstOfPackage(g, n) == Only(Bucket(g.byName, BareOf(n)), InPackage(g, PkgOf(n)))
ResolveRelative(g, t, imp) ==
  LET near == Only(Bucket(g.byName, t.n),
                   {i \in InRepo(g, imp.repo) : Attr[imp.file].script => g.nodes[i].file = t.file})
  IN IF near = <<>> THEN {} ELSE PickByRepo(g, near, imp.repo, "heuristic")
ResolveName(g, n, repo) ==
  LET named == Bucket(g.byName, n)
      near == Only(named, InRepo(g, repo))
  IN IF Qualified(n) /\ FirstOfPackage(g, n) # <<>> THEN {<<FirstOfPackage(g, n)[1], "exact">>}
     ELSE IF Qualified(n) /\ <<PkgOf(n), BareOf(n)>> \in DOMAIN g.byFqcn
       THEN PickByRepo(g, g.byFqcn[<<PkgOf(n), BareOf(n)>>], repo, "exact")
     ELSE IF n \in Builtins THEN IF near = <<>> THEN {} ELSE PickByRepo(g, near, repo, "heuristic")
     ELSE IF named # <<>> THEN PickByRepo(g, named, repo, "heuristic")
     ELSE IF Qualified(n) /\ n \in DOMAIN g.byPackage THEN PickByRepo(g, g.byPackage[n], repo, "heuristic")
     ELSE {}
ResolveImportTargets(g, t, imp) ==
  IF t.rel THEN ResolveRelative(g, t, imp) ELSE ResolveName(g, t.n, imp.repo)

ImportsFrom(g, t, i) ==
  {Edge(i, r[1], "Imports", t.n, r[2], Rank(t.n)) : r \in ResolveImportTargets(g, t, g.nodes[i])}
ImportEdges(g) ==
  FirstWins(UNION {UNION {ImportsFrom(g, t, i) : i \in ToSet(g.deps[t]) \cap DOMAIN g.nodes} : t \in DOMAIN g.deps})

(* Topics: hubs no fact names any more go, the missing ones are added, in   *)
(* the order of their keys.                                                 *)
Topics(g) == DOMAIN g.producers \cup DOMAIN g.consumers
StaleHubs(g) == {i \in DOMAIN g.nodes : /\ g.nodes[i].pkg = Hub
                                        /\ g.nodes[i].kind \in StreamKinds
                                        /\ g.nodes[i].name \notin Topics(g)}
IsHub(n) == n.pkg = Hub /\ n.kind = "EventStream"
HubsOf(g, k) == Without(Bucket(g.byName, k), {i \in DOMAIN g.nodes : ~IsHub(g.nodes[i])})
HubNode(k) ==
  [name |-> k, kind |-> "EventStream", pkg |-> Hub, site |-> "none", topic |-> <<>>, sig |-> {},
   lo |-> 1, hi |-> 1, file |-> HubFile, repo |-> NoRepo]
WithHub(g, k) == IF HubsOf(g, k) = <<>> THEN AddNode(g, HubNode(k)) ELSE g
WithHubsKept(g) ==
  LET grown[i \in 0..Len(Sorted)] ==
        IF i = 0 THEN g ELSE IF Sorted[i] \in Topics(g) THEN WithHub(grown[i - 1], Sorted[i]) ELSE grown[i - 1]
  IN grown[Len(Sorted)]
WithHubs(g) == WithHubsKept(RemoveNodes(g, StaleHubs(g)))

TopicConf(g, i) == IF i \in g.heuristic THEN "heuristic" ELSE "exact"
DirectEdges(g, k) ==
  LET hub == HubsOf(g, k)[1] IN
  {Edge(i, hub, "Produces", k, TopicConf(g, i), 0) : i \in ToSet(Bucket(g.producers, k))}
    \cup {Edge(hub, i, "Consumes", k, TopicConf(g, i), 0) : i \in ToSet(Bucket(g.consumers, k))}

(* A wildcard subscription hears the producers of the subjects it matches,  *)
(* unless they subscribe to it themselves; never more than the cap.         *)
Listens(g, k) ==
  /\ IsSubjectPattern(".", k)
  /\ \E i \in ToSet(Bucket(g.consumers, k)) :
       i \in DOMAIN g.nodes => g.nodes[i].kind \notin {"KafkaTopic", "Queue"}
Heard(g, k) == {s \in DOMAIN g.producers : ~IsSubjectPattern(".", s) /\ SubjectMatches(".", k, s)}
WildcardEdgesUncapped(g, k) ==
  LET hub == HubsOf(g, k)[1]
      barred == ToSet(Bucket(g.consumers, k)) \cup ToSet(Bucket(g.producers, k))
  IN IF ~Listens(g, k) THEN {}
     ELSE FirstWins({Edge(x[2], hub, "Produces", x[1], "heuristic", 1 + Rank(x[1])) :
            x \in {y \in Heard(g, k) \X (UNION {ToSet(g.producers[s]) : s \in Heard(g, k)}) :
                      y[2] \in ToSet(g.producers[y[1]]) \ barred}})
WildcardEdges(g, k) ==
  LET at(e) == CHOOSE p \in DOMAIN g.producers[e.meta] :
                 g.producers[e.meta][p] = e.from /\ \A q \in 1..(p - 1) : g.producers[e.meta][q] # e.from
      all == WildcardEdgesUncapped(g, k)
      before(d, e) == d.rank < e.rank \/ (d.rank = e.rank /\ at(d) < at(e))
  IN {e \in all : Cardinality({d \in all : before(d, e)}) < WildcardCap}
TopicEdges(g) == UNION {DirectEdges(g, k) \cup WildcardEdges(g, k) : k \in Topics(g)}

----------------------------------------------------------------------------
(* gRPC.  What a call site recorded is a record whose "k" is its prefix:   *)
(* "plain" (none), "exact" (=), "inferred" (~), "inherited" (^), and the   *)
(* three that are not calls: "field" (#), "const" ($), "handler" (@).      *)

Recorded(g, k) == {c \in ToSet(g.calls) : c.to.k = k}
IsProto(n) == n.file # HubFile /\ Attr[n.file].proto
ProtoMethods(g) == {i \in DOMAIN g.nodes : g.nodes[i].kind = "GrpcMethod" /\ IsProto(g.nodes[i])}
Handlers(g) == {i \in DOMAIN g.nodes : /\ g.nodes[i].kind \in {"GrpcMethod", "GrpcService"}
                                       /\ ~IsProto(g.nodes[i]) /\ g.nodes[i].site = "none"}

(* A literal, or the one value a constant of that exact name has, in the    *)
(* handler's repository first.                                              *)
OnlyValue(S) == IF Cardinality(S) = 1 THEN CHOOSE v \in S : TRUE ELSE <<>>
ResolveLiteralExpr(g, e, repo) ==
  LET named == {c \in Recorded(g, "const") : c.by \in DOMAIN g.nodes /\ c.to.key = e.v}
      near == {c \in named : g.nodes[c.by].repo = repo}
  IN IF e.lit THEN e.v ELSE OnlyValue({c.to.value : c \in IF near = {} THEN named ELSE near})

(* `resolve_handler_rpc_names`: the RPC a decorator names, when exactly one  *)
(* proto method has that name (in the package that qualifies it).            *)
HandlerRpcName(g, c) ==
  LET repo == g.nodes[c.by].repo
      svc == ResolveLiteralExpr(g, c.to.svc, repo)
      mth == ResolveLiteralExpr(g, c.to.mth, repo)
      name == BareOf(svc) \o mth
      declared == {i \in ProtoMethods(g) : /\ g.nodes[i].name = name
                                           /\ Qualified(svc) => g.nodes[i].pkg = PkgOf(svc)}
  IN IF svc = <<>> \/ mth = <<>> THEN <<>>
     ELSE IF Cardinality(declared) = 1 THEN name ELSE <<>>
RpcNames(g) ==
  LET refs == {c \in Recorded(g, "handler") : c.by \in DOMAIN g.nodes /\ HandlerRpcName(g, c) # <<>>}
  IN [i \in {c.by : c \in refs} |-> HandlerRpcName(g, CHOOSE c \in refs : c.by = i)]

SignatureNames(n, bare) ==
  \E t \in n.sig : t.w = Last(bare).w \/ (IsPrefix(Last(bare).w, t.w) /\ t.s = Last(bare).s)
ImplementsConf(g, names, h, p) ==
  LET n == IF h \in DOMAIN names THEN names[h] ELSE g.nodes[h].name
      full == g.nodes[p].name
      bare == BareOf(full)
  IN IF n = full THEN "exact"
     ELSE IF \/ EqIgnoreCase(n, bare) \/ PascalName(n) = bare \/ BareMatch(n, bare)
             \/ SignatureNames(g.nodes[h], bare)
          THEN "heuristic" ELSE "none"
ImplementsEdges(g, names) ==
  {Edge(x[1], x[2], "Implements", g.nodes[x[2]].name, ImplementsConf(g, names, x[1], x[2]), 0) :
     x \in {y \in Handlers(g) \X ProtoMethods(g) : ImplementsConf(g, names, y[1], y[2]) # "none"}}

Health == <<Word("grpc"), Word("health"), Word("v1")>>
IsHealthFqcn(n) == Len(n) >= 4 /\ Lower(SubSeq(n, 1, 4)) = Append(Health, Word("health"))
IsHealthService(n) ==
  LET seg == CASE n.kind = "GrpcService" -> BareOf(n.name)
               [] n.kind = "GrpcMethod" /\ Qualified(n.name) -> BareOf(PkgOf(n.name))
               [] OTHER -> <<Word("")>>
  IN Lower(seg) = <<Word("health")>> /\ (n.pkg = Health \/ ~IsProto(n))

(* The candidates of a target, by full name and by bare method name.       *)
Ascending(S) == InOrder(S, LAMBDA i : i)
ByFqcn(g, n) ==
  Ascending({i \in ProtoMethods(g) : EqIgnoreCase(g.nodes[i].name, n)})
    \o Ascending({i \in DOMAIN g.nodes : g.nodes[i].kind = "GrpcService" /\ EqIgnoreCase(g.nodes[i].name, n)})
ByBare(g, n) ==
  Ascending({i \in ProtoMethods(g) : EqIgnoreCase(BareOf(g.nodes[i].name), BareOf(n))})
PickFor(g, caller, ids, conf, orphan) ==
  IF caller \in DOMAIN g.nodes THEN PickByPackage(g, ids, g.nodes[caller].pkg, conf)
  ELSE {<<i, orphan>> : i \in ToSet(ids)}
ResolveRpcTarget(g, caller, n) ==
  IF ByFqcn(g, n) # <<>> THEN PickFor(g, caller, ByFqcn(g, n), "exact", "exact")
  ELSE IF ByBare(g, n) # <<>> THEN PickFor(g, caller, ByBare(g, n), "heuristic", "ambiguous")
  ELSE {}
ResolveClient(g, caller, n) ==
  LET found == ResolveRpcTarget(g, caller, n)
      tried == IF found = {} /\ ~EndsInService(n) /\ LowerT(Last(n)) # Word("health")
               THEN ResolveRpcTarget(g, caller, WithService(n)) ELSE found
  IN {r \in tried : ~IsHealthService(g.nodes[r[1]])}

(* `resolve_inherited_call`: what the base class binds the field to, in the  *)
(* caller's repository first; else what the field's name suggests.  A field  *)
(* bound to no service (an application type) is not a client.                *)
Inherited(g, c) ==
  LET repo == IF c.by \in DOMAIN g.nodes THEN g.nodes[c.by].repo ELSE NoRepo
      bound == {b \in Recorded(g, "field") : /\ b.by \in DOMAIN g.nodes
                                             /\ g.nodes[b.by].name = c.to.base /\ b.to.field = c.to.field}
      near == {b \in bound : g.nodes[b.by].repo = repo}
      services == {b.to.service : b \in IF near = {} THEN bound ELSE near}
      real == services \ {<<>>}
      guess == ServiceFromField(c.to.field)
  IN CASE services # {} /\ real = {} -> [n |-> <<>>, inferred |-> FALSE]
       [] Cardinality(real) = 1 -> [n |-> OnlyValue(real) \o c.to.method, inferred |-> FALSE]
       [] OTHER -> [n |-> IF guess = <<>> THEN <<>> ELSE guess \o c.to.method, inferred |-> TRUE]

(* A guess made inside the handler of the RPC it names is delegation.       *)
Served(g, names, i) ==
  {IF i \in DOMAIN names THEN [svc |-> PkgOf(names[i]), mth |-> FoldName(names[i])]
   ELSE [svc |-> IF c.to.svc.lit THEN BareOf(c.to.svc.v) ELSE <<>>, mth |-> FoldName(c.to.mth.v)] :
     c \in {d \in Recorded(g, "handler") : d.by = i}}
Delegates(g, names, i, n) ==
  \E s \in Served(g, names, i) : /\ s.mth = FoldName(n)
                                 /\ s.svc # <<>> /\ Qualified(n)
                                 /\ EqIgnoreCase(s.svc, BareOf(PkgOf(n)))

MethodCall(g, names, c, n, inferred) ==
  IF \/ n = <<>> \/ IsHealthFqcn(n) \/ ByFqcn(g, n) = <<>>
     \/ inferred /\ Delegates(g, names, c.by, n)
  THEN {} ELSE PickFor(g, c.by, ByFqcn(g, n), IF inferred THEN "heuristic" ELSE "exact",
                       IF inferred THEN "heuristic" ELSE "exact")
CallTargets(g, names, c) ==
  CASE c.to.k = "exact" -> [n |-> c.to.n, to |-> MethodCall(g, names, c, c.to.n, FALSE)]
    [] c.to.k = "inferred" -> [n |-> c.to.n, to |-> MethodCall(g, names, c, c.to.n, TRUE)]
    [] c.to.k = "inherited" ->
         LET r == Inherited(g, c) IN [n |-> r.n, to |-> MethodCall(g, names, c, r.n, r.inferred)]
    [] c.to.k = "plain" ->
         [n |-> c.to.n, to |-> IF IsHealthFqcn(c.to.n) THEN {} ELSE ResolveClient(g, c.by, c.to.n)]
    [] OTHER -> [n |-> <<>>, to |-> {}]
CallEdges(g, names) ==
  FirstWins(UNION {LET c == g.calls[j] r == CallTargets(g, names, c) IN
                   {Edge(c.by, t[1], "CallsRpc", r.n, t[2], j) : t \in r.to} : j \in DOMAIN g.calls})

(* `reconcile_edges`: every edge again from the facts.  Imports are resolved *)
(* before the hubs are brought up to date.                                   *)
WithEdges(h, names, imports) ==
  [h EXCEPT !.edges = Unranked(imports \cup TopicEdges(h) \cup ImplementsEdges(h, names) \cup CallEdges(h, names)),
            !.rpcNames = names]
Reconciled(h, imports) == WithEdges(h, RpcNames(h), imports)
ReconcileEdges(g) == Reconciled(WithHubs(g), ImportEdges(g))

----------------------------------------------------------------------------
(* The program: a full build, then reloads of a few files each.            *)

Folded(g, fs, c) ==
  LET done[i \in 0..Len(Files)] ==
        IF i = 0 THEN g
        ELSE IF Files[i] \in fs /\ c[Files[i]] # NoFile THEN Apply(done[i - 1], Files[i], Extracted[c[Files[i]]])
        ELSE done[i - 1]
  IN done[Len(Files)]
FullBuild(c) == ReconcileEdges(Folded(EmptyGraph, ToSet(Files), c))

(* `apply_incremental`: purge what changed or went, fold what changed.     *)
ApplyIncremental(g, fs, c) == ReconcileEdges(Folded(PatchFiles(g, fs), fs, c))

Inhabited == {c \in [ToSet(Files) -> (UNION {Contents[f] : f \in ToSet(Files)}) \cup {NoFile}] :
                \A f \in ToSet(Files) : c[f] \in Contents[f] \cup {NoFile}}

Rebuilt == [c \in Inhabited |-> FullBuild(c)]

Init ==
  /\ content \in {c \in Inhabited : FirstSeen(c)}
  /\ graph = Rebuilt[content]
  /\ reloads = 0

Reload(fs) ==
  /\ reloads < MaxReloads
  /\ reloads' = reloads + 1
  /\ content' \in {c \in Inhabited : \A f \in ToSet(Files) : (c[f] # content[f]) <=> (f \in fs)}
  /\ graph' = ApplyIncremental(graph, fs, content')

Next == \E fs \in SUBSET ToSet(Files) : fs # {} /\ Cardinality(fs) <= MaxBatch /\ Reload(fs)

Spec == Init /\ [][Next]_vars

----------------------------------------------------------------------------
TypeOK ==
  /\ content \in Inhabited
  /\ reloads \in 0..MaxReloads
  /\ DOMAIN graph.nodes \subseteq 0..(graph.next - 1)
  /\ \A e \in graph.edges : e.kind \in {"Imports", "Produces", "Consumes", "Implements", "CallsRpc"}
                            /\ e.conf \in {"exact", "heuristic", "ambiguous"}

(* What an index lists under a key: the nodes that have the key, in the    *)
(* order they were added, as often as they have it.                        *)
Entry(keys, i, k) ==
  IF i \notin DOMAIN keys THEN <<>>
  ELSE LET has(n) == n \in DOMAIN keys[i] /\ keys[i][n] = k
       IN IF has(1) /\ has(2) THEN <<i, i>> ELSE IF has(1) \/ has(2) THEN <<i>> ELSE <<>>
Listed(keys, n, k) ==
  LET listed[i \in 0..n] == IF i = 0 THEN <<>> ELSE listed[i - 1] \o Entry(keys, i - 1, k)
  IN listed[n]
NamesIn(g) == [i \in DOMAIN g.nodes |-> NameKeys(g.nodes[i])]
PackagesIn(g) == [i \in DOMAIN g.nodes |-> PackageKeys(g.nodes[i])]
FilesIn(g) == [i \in DOMAIN g.nodes |-> FileKeys(g.nodes[i])]
FqcnsIn(g) == [i \in DOMAIN g.nodes |-> FqcnKeys(g.nodes[i])]
KeysIn(keys) == UNION {ToSet(keys[i]) : i \in DOMAIN keys}
Lists(f, keys, n) ==
  /\ \A k \in DOMAIN f : f[k] # <<>>
  /\ \A k \in DOMAIN f \cup KeysIn(keys) : Bucket(f, k) = Listed(keys, n, k)

(* After any reloads each index lists exactly the nodes it should, in the   *)
(* order they were added: the purge of `remove_nodes`, which visits only    *)
(* the keys the removed nodes name, leaves no dead id and no empty bucket   *)
(* behind.                                                                  *)
IndicesDescribeNodes ==
  /\ Lists(graph.byName, NamesIn(graph), graph.next) /\ Lists(graph.byPackage, PackagesIn(graph), graph.next)
  /\ Lists(graph.byFile, FilesIn(graph), graph.next) /\ Lists(graph.byFqcn, FqcnsIn(graph), graph.next)

(* What is in the graph of each file is what its content was extracted to: *)
(* its nodes, in their order, and the facts about them; and nothing else   *)
(* is, but hubs.                                                           *)
FileHeld(g, f, x) ==
  LET ids == Bucket(g.byFile, f) IN
  IF x = NoFile THEN ids = <<>>
  ELSE /\ Len(ids) = Len(Extracted[x].nodes)
       /\ \A i \in DOMAIN ids : ids[i] \in DOMAIN g.nodes /\ g.nodes[ids[i]] = NodesOf(f, Extracted[x])[i]
PairsOf(m) == UNION {{<<k, i>> : i \in ToSet(m[k])} : k \in DOMAIN m}
There(c) == {f \in ToSet(Files) : c[f] # NoFile}
Told(g, f, rel, topical) == {<<KeyOf(r, topical), Bucket(g.byFile, f)[r[1]]>> : r \in ToSet(rel)}
FactsHeld(g, c) ==
  /\ PairsOf(g.deps) = UNION {Told(g, f, Extracted[c[f]].deps, FALSE) : f \in There(c)}
  /\ PairsOf(g.producers) = UNION {Told(g, f, Extracted[c[f]].producers, TRUE) : f \in There(c)}
  /\ PairsOf(g.consumers) = UNION {Told(g, f, Extracted[c[f]].consumers, TRUE) : f \in There(c)}
  /\ {<<d.to, d.by>> : d \in ToSet(g.calls)} = UNION {Told(g, f, Extracted[c[f]].calls, FALSE) : f \in There(c)}
  /\ g.heuristic = UNION {{Bucket(g.byFile, f)[i] : i \in Extracted[c[f]].heuristic} : f \in There(c)}
ContentsHeld ==
  /\ \A f \in ToSet(Files) : FileHeld(graph, f, content[f])
  /\ \A i \in DOMAIN graph.nodes : graph.nodes[i].file \in ToSet(Files) \cup {HubFile}
  /\ FactsHeld(graph, content)

(* Every topic a fact names has one hub, and no other hub is left: a topic  *)
(* whose last producer or consumer goes with a reload takes its hub along.  *)
HubIds(g) == {i \in DOMAIN g.nodes : g.nodes[i].file = HubFile}
OneHubPerTopic ==
  /\ {graph.nodes[i].name : i \in HubIds(graph)} = Topics(graph)
  /\ \A i, j \in HubIds(graph) : graph.nodes[i].name = graph.nodes[j].name => i = j

(* The package of the hubs is theirs: no file declares a stream in it.     *)
HubsReserved ==
  \A c \in DOMAIN Extracted : \A i \in DOMAIN Extracted[c].nodes :
    LET n == Extracted[c].nodes[i] IN ~(n.pkg = Hub /\ n.kind \in StreamKinds)

(* The graph follows its files: whatever was reloaded before, it holds the *)
(* nodes and facts of the contents as they are, each node once and found   *)
(* under its keys, and one hub for each topic (`patch_files`, `apply` and  *)
(* `reconcile_edges` together).                                            *)
GraphFollowsFiles == IndicesDescribeNodes /\ ContentsHeld /\ OneHubPerTopic

(* The graph, whatever its ids.                                            *)
EdgeKey(g, e) == [e EXCEPT !.from = IF @ \in DOMAIN g.nodes THEN g.nodes[@] ELSE NoFile,
                           !.to = IF @ \in DOMAIN g.nodes THEN g.nodes[@] ELSE NoFile]
FactKeys(g, m) == UNION {{<<k, g.nodes[i]>> : i \in ToSet(m[k]) \cap DOMAIN g.nodes} : k \in DOMAIN m}
FactsOf(g) ==
  [nodes |-> Range(g.nodes), deps |-> FactKeys(g, g.deps),
   producers |-> FactKeys(g, g.producers), consumers |-> FactKeys(g, g.consumers),
   calls |-> {[by |-> g.nodes[c.by], to |-> c.to] : c \in {d \in ToSet(g.calls) : d.by \in DOMAIN g.nodes}},
   heuristic |-> {g.nodes[i] : i \in g.heuristic \cap DOMAIN g.nodes}]
Canonical(g, E) ==
  [facts |-> FactsOf(g), count |-> Cardinality(DOMAIN g.nodes), edges |-> {EdgeKey(g, e) : e \in E}]

(* The nodes and facts are those a full rebuild would find (invariant I2,   *)
(* before any edge is derived).                                             *)
FactsConverge == FactsOf(graph) = FactsOf(Rebuilt[content])

(* An incremental reload gives the graph a full rebuild would give          *)
(* (invariant I2 of docs/development.md and of `reconcile_edges`).          *)
IncrementalEqualsRebuild ==
  LET full == Rebuilt[content] IN Canonical(graph, graph.edges) = Canonical(full, full.edges)

(* What the order of ids can change: an import answered among hubs (the     *)
(* hub of a topic is there only from the second derivation on; one that     *)
(* goes with this derivation still was a candidate), or one of two nodes of *)
(* the same package and name, and which producers a full wildcard keeps.    *)
AmongHubs == Topics(graph) \cup {e.meta : e \in {d \in graph.edges : d.kind = "Imports" /\ d.to \notin DOMAIN graph.nodes}}
OpenImport(g, e) ==
  /\ e.kind = "Imports"
  /\ e.meta \in AmongHubs \/ (Qualified(e.meta) /\ Len(FirstOfPackage(g, e.meta)) > 1)
Crowded(g, e) ==
  /\ e.kind = "Produces" /\ e.to \in DOMAIN g.nodes /\ e.meta # g.nodes[e.to].name
  /\ Cardinality(WildcardEdgesUncapped(g, g.nodes[e.to].name)) > WildcardCap
Settled(g) == {e \in g.edges : ~OpenImport(g, e) /\ ~Crowded(g, e)}

(* Everything else of the graph is independent of the reloads that led to   *)
(* it: nodes, facts, hubs, topic, gRPC and import edges with their          *)
(* confidence, whichever files were reloaded together.                      *)
SettledForm(g) == Canonical(g, Settled(g))
ReloadsConverge == SettledForm(graph) = SettledForm(Rebuilt[content])

(* A full wildcard links as many producers as in a rebuild, whichever.      *)
Links(g, k) == {e \in g.edges : e.kind = "Produces" /\ e.to = HubsOf(g, k)[1] /\ e.meta # k}
WildcardsAlike ==
  \A k \in Topics(graph) : Cardinality(Links(graph, k)) = Cardinality(Links(Rebuilt[content], k))

(* Wildcard links keep to their cap; each is of a producer the pattern      *)
(* hears, and no relay is linked to the pattern it subscribes to.           *)
WildcardsBounded ==
  \A k \in Topics(graph) :
    /\ Cardinality(Links(graph, k)) <= WildcardCap
    /\ \A e \in Links(graph, k) : /\ SubjectMatches(".", k, e.meta)
                                   /\ e.from \notin ToSet(Bucket(graph.consumers, k))

(* No import is spelt like a hub: none names their package, and no package *)
(* an import may name is a topic as well.                                  *)
TopicKeys ==
  UNION {{NormalizeTopicKey(r[2]) : r \in ToSet(Extracted[c].producers) \cup ToSet(Extracted[c].consumers)} :
           c \in DOMAIN Extracted}
PackageNames == UNION {{n.pkg : n \in ToSet(Extracted[c].nodes)} : c \in DOMAIN Extracted}
ImportsApart ==
  \A c \in DOMAIN Extracted : \A r \in ToSet(Extracted[c].deps) :
    LET n == r[2].n IN
    ~r[2].rel /\ Qualified(n) => PkgOf(n) # Hub /\ ~(n \in TopicKeys /\ n \in PackageNames)

(* Deriving again changes nothing but the imports answered among hubs       *)
(* (invariant I3).                                                          *)
SameDerived(again) ==
  LET Rest(g) == {e \in g.edges : e.kind = "Imports" => e.meta \notin AmongHubs}
  IN again.nodes = graph.nodes /\ Rest(again) = Rest(graph) /\ again.rpcNames = graph.rpcNames
DerivedTwiceSettles == SameDerived(ReconcileEdges(graph))

(* An import is answered from its importer's own repository when something  *)
(* of that name is there: the answer never leaves it for a homonym          *)
(* elsewhere, unless the name is fully qualified.                           *)
ImportsStayHome ==
  \A e \in graph.edges :
    (e.kind = "Imports" /\ ~Qualified(e.meta) /\ e.to \in DOMAIN graph.nodes) =>
      \/ graph.nodes[e.to].repo = graph.nodes[e.from].repo
      \/ \A i \in ToSet(Bucket(graph.byName, e.meta)) : graph.nodes[i].repo # graph.nodes[e.from].repo

(* The derived edges keep their bounds after every build and patch: ids in *)
(* range, wildcards within their cap, imports at home.                     *)
GraphExact == TypeOK /\ WildcardsBounded /\ ImportsStayHome

(* The derived edges depend on the facts, not on the way to them: neither  *)
(* on the reloads before nor on how often they were derived.               *)
DerivationsConverge == ReloadsConverge /\ WildcardsAlike /\ DerivedTwiceSettles
=============================================================================
