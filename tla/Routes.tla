---- MODULE Routes ----
(***************************************************************************)
(* HTTP routes (mesh-core routes.rs, and the route target of              *)
(* `analyze_impact`): what a route node declares, the prefix its root is   *)
(* served under, how a route is shown, and which routes a question finds.  *)
(*                                                                         *)
(* A path is its segments and whether it begins with a slash.  A segment   *)
(* is a literal, a parameter in any of its spellings, or an optional one   *)
(* (`:id?`), whose `?` reads as the start of a query string.               *)
(***************************************************************************)
EXTENDS GraphQueries

CONSTANTS
  PrefixConfig,    \* `http_prefix`, and the keys of `[workspace.http_prefixes]`
  RouteQuestions,  \* what analyze_impact is asked of routes
  MaxRouteEntries, \* MAX_ROUTE_ENTRIES
  MaxNearest       \* routes offered when none matches

Literal(t) == [k |-> "lit", t |-> t]
Param == [k |-> "param", t |-> Word("")]
Optional == [k |-> "optional", t |-> Word("")]
Path(slash, segs) == [slash |-> slash, segs |-> segs]
NoPath == Path(FALSE, <<>>)

(* A route is a verb and a path, a path its segments in order.             *)
IsPath(p) == p = Path(p.slash, p.segs) /\ IsList(p.segs)
IsRoute(r) == r = [verb |-> r.verb, path |-> r.path] /\ IsPath(r.path)
ASSUME RoutesAssumption ==
  /\ MaxRouteEntries \in Nat
  /\ IsPath(PrefixConfig.workspace) /\ \A k \in PrefixConfig.keys : IsPath(k.path)
  /\ \A c \in DOMAIN Extracted : \A i \in DOMAIN Extracted[c].nodes :
       LET n == Extracted[c].nodes[i] IN "route" \in DOMAIN n => IsRoute(n.route) /\ "lo" \in DOMAIN n /\ n.lo \in Nat
(* A prefix is configured without a `?`.                                   *)
PlainPrefixes ==
  \A p \in {PrefixConfig.workspace} \cup {k.path : k \in PrefixConfig.keys} :
    \A i \in DOMAIN p.segs : p.segs[i].k # "optional"

(* `path_segments`: what follows a `?` is dropped; literals in lower case.  *)
PathSegments(path) ==
  LET cuts == {i \in DOMAIN path.segs : path.segs[i].k = "optional"}
      read == IF cuts = {} THEN path.segs ELSE SubSeq(path.segs, 1, Min(cuts))
  IN [i \in DOMAIN read |-> IF read[i].k = "lit" THEN Literal(LowerT(read[i].t)) ELSE Param]

(* `HttpPrefixes`: of the keys that name a root, the most specific one: an  *)
(* exact one before a glob, the longer, the first in the order of keys.     *)
Specificity(key, repo) == IF repo \in key.exact THEN 2 ELSE IF repo \in key.glob THEN 1 ELSE 0
Outranks(a, b, repo) ==
  \/ Specificity(a, repo) > Specificity(b, repo)
  \/ Specificity(a, repo) = Specificity(b, repo) /\ (a.len > b.len \/ (a.len = b.len /\ a.order < b.order))
OwnPrefix(repo) ==
  LET naming == {k \in PrefixConfig.keys : Specificity(k, repo) > 0}
  IN {k \in naming : \A o \in naming \ {k} : Outranks(k, o, repo)}
(* A root's own prefix, even an empty one, replaces the workspace's.        *)
ForRepo(repo) ==
  IF OwnPrefix(repo) = {} THEN PrefixConfig.workspace ELSE (CHOOSE k \in OwnPrefix(repo) : TRUE).path

(* `node_route`: an endpoint whose signature or name is no `VERB /path` (an *)
(* operation of GraphQL, a handler found by its decorator) has none.        *)
RouteNodes(g) == {i \in DOMAIN g.nodes : g.nodes[i].kind = "HttpEndpoint" /\ "route" \in DOMAIN g.nodes[i]}
NodeRoute(n) == [verb |-> n.route.verb, segs |-> PathSegments(n.route.path)]

(* `display_label`: the path under its prefix, unless it carries it.        *)
DisplayLabel(label, prefix) ==
  LET pre == PathSegments(prefix) IN
  IF prefix.segs = <<>> \/ (pre # <<>> /\ IsPrefix(pre, PathSegments(label.path))) THEN label
  ELSE [label EXCEPT !.path = Path(TRUE, prefix.segs \o label.path.segs)]

(* `RouteQuery::parse`: a question that is no `/path` is about a symbol;    *)
(* `parse_target` wants the verb too.                                       *)
IsTarget(q) == q.path.slash /\ q.verb # "any"
Parse(q) == [verb |-> q.verb, segs |-> PathSegments(q.path)]

(* Mutant: parameters fit only a parameter of the same name.               *)
SegFitsByName(route, query, loose) == route = query
SegFits(route, query, loose) ==
  CASE route.k = "param" -> query.k = "param" \/ loose
    [] route.k = "lit" -> route = query
EqSegs(route, query, loose) ==
  Len(route) = Len(query) /\ \A i \in DOMAIN route : SegFits(route[i], query[i], loose)
StartsSegs(route, query) ==
  Len(query) <= Len(route) /\ \A i \in DOMAIN query : SegFits(route[i], query[i], FALSE)
ContainsSegs(route, query) ==
  \E i \in 0..(Len(route) - Len(query)) : StartsSegs(SubSeq(route, i + 1, Len(route)), query)

(* `match_route`: 0 exact, 1 by value, 2 leading, 3 fragment, 4 none.       *)
Variants(route, prefix) ==
  {route, prefix \o route}
    \cup (IF StartsSegs(route, prefix) THEN {SubSeq(route, Len(prefix) + 1, Len(route))} ELSE {})
FitsAs(rank, v, query) ==
  \/ rank = 0 /\ EqSegs(v, query, FALSE)
  \/ rank = 1 /\ EqSegs(v, query, TRUE)
  \/ rank = 2 /\ query # <<>> /\ StartsSegs(v, query)
  \/ rank = 3 /\ query # <<>> /\ ContainsSegs(v, query)
NoRank == 4
MatchRoute(query, route, prefix) ==
  IF query.verb \notin {"any", route.verb} THEN NoRank
  ELSE Min({NoRank} \cup {r \in 0..3 : \E v \in Variants(route.segs, prefix) : FitsAs(r, v, query.segs)})

RankOf(g, i, q) == MatchRoute(Parse(q), NodeRoute(g.nodes[i]), PathSegments(ForRepo(g.nodes[i].repo)))
(* `find_routes`: those at least as good as the worst rank wanted, and how  *)
(* many of them are in tests.                                               *)
FindRoutes(g, q, tests, worst) ==
  LET matching == {i \in RouteNodes(g) : RankOf(g, i, q) <= worst}
      hits == {i \in matching : tests \/ ~Hides(g, i)}
  IN [hits |-> hits, hidden |-> Cardinality(matching \ hits)]

(* `nearest_routes`: by the segments they share, then by the verb.          *)
SharedSegs(route, query) ==
  Max({n \in 0..Min({Len(route), Len(query)}) : \A i \in 1..n : SegFits(route[i], query[i], TRUE)})
NearestRoutes(g, q, tests) ==
  LET query == Parse(q)
      shown == {i \in RouteNodes(g) : tests \/ ~Hides(g, i)}
      segs(i) == NodeRoute(g.nodes[i]).segs
      shared(i) == Max({SharedSegs(segs(i), query.segs),
                        SharedSegs(PathSegments(ForRepo(g.nodes[i].repo)) \o segs(i), query.segs)})
      verb(i) == query.verb \in {"any", NodeRoute(g.nodes[i]).verb}
      near == {i \in shown : shared(i) > 0 \/ verb(i)}
      before(i, j) == \/ shared(i) > shared(j)
                      \/ shared(i) = shared(j) /\ verb(i) /\ ~verb(j)
                      \/ shared(i) = shared(j) /\ verb(i) = verb(j) /\ Earlier(g, i, j)
  IN {i \in near : Cardinality({j \in near : before(j, i)}) < MaxNearest}

(* `route_impact`: the handlers of a route with what links them to others   *)
(* (imports aside), or the routes nearest to it.                            *)
EdgesOn(g, i) ==
  {<<IF e.from = i THEN "->" ELSE "<-", e.kind, IF e.from = i THEN e.to ELSE e.from, e.conf>> :
     e \in {d \in g.edges : d.kind # "Imports" /\ i \in {d.from, d.to} /\ {d.from, d.to} \subseteq DOMAIN g.nodes}}
FoundRoutes(g, q, tests, found) ==
  LET before(i, j) == RankOf(g, i, q) < RankOf(g, j, q) \/ (RankOf(g, i, q) = RankOf(g, j, q) /\ Earlier(g, i, j))
      first(i) == Cardinality({j \in found.hits : before(j, i)}) < MaxRouteEntries
  IN [entries |-> {[node |-> i, route |-> DisplayLabel(g.nodes[i].route, ForRepo(g.nodes[i].repo)),
                    edges |-> EdgesOn(g, i)] : i \in {j \in found.hits : first(j)}},
      total |-> Cardinality(found.hits), hidden |-> found.hidden,
      nearest |-> IF found.hits = {} THEN NearestRoutes(g, q, tests) ELSE {}]
RouteImpact(g, q, tests) == FoundRoutes(g, q, tests, FindRoutes(g, q, tests, 1))

----------------------------------------------------------------------------
(* A route that some tool shows, asked for as it is shown (with the slash   *)
(* a Swift or Scala route is written without), is found, as the declared    *)
(* one: what is shown and what is matched are prefixed by two pieces of     *)
(* code (`display_label`, `match_route`), root by root.                     *)
ShownRouteIsFound ==
  \A i \in RouteNodes(graph) :
    LET shown == DisplayLabel(graph.nodes[i].route, ForRepo(graph.nodes[i].repo))
        asked == [shown EXCEPT !.path.slash = TRUE]
    IN i \in FindRoutes(graph, asked, TRUE, 0).hits

(* Where a route is served: under the prefix of its root, or as it stands   *)
(* when it is written with it.  A request is served by the routes of its    *)
(* verb that have as many segments, each the same or a parameter.           *)
ServedAt(n) ==
  LET route == NodeRoute(n).segs
      prefix == PathSegments(ForRepo(n.repo))
  IN IF IsPrefix(prefix, route) THEN route ELSE prefix \o route
Serves(n, q) ==
  LET at == ServedAt(n)
      request == PathSegments(q.path)
  IN /\ n.route.verb = q.verb /\ Len(at) = Len(request)
     /\ \A k \in DOMAIN at : at[k] \in {Param, request[k]}
(* Asked what a request reaches, the tool lists every handler that serves   *)
(* it, and says how many it left out because they are in tests or because   *)
(* the list is full; it offers other routes only when there is none.        *)
FindsHandlers(r, serving) ==
  LET listed == {e.node : e \in r.entries}
  IN /\ Cardinality(listed) = Min({r.total, MaxRouteEntries})
     /\ r.total <= MaxRouteEntries => Shown(graph, serving) \subseteq listed
     /\ Cardinality({i \in serving : Hides(graph, i)}) <= r.hidden
     /\ r.nearest # {} => Shown(graph, serving) = {}
RequestFindsItsHandlers ==
  \A q \in RouteQuestions : IsTarget(q) =>
    FindsHandlers(RouteImpact(graph, q, FALSE), {i \in RouteNodes(graph) : Serves(graph.nodes[i], q)})

(* Whatever was shown can be asked for, and whoever serves a request is    *)
(* found by it.                                                            *)
RoutesAnswered == ShownRouteIsFound /\ RequestFindsItsHandlers
=============================================================================
