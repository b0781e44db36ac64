---- MODULE Topology ----
(***************************************************************************)
(* `visualize_mesh`: the contract graph folded into services and topics,   *)
(* with one weighted link per pair and kind; the best connected are drawn, *)
(* the rest is folded into one "other" box per kind, and the view shrinks  *)
(* until it fits.  A service may be opened into its contracts.             *)
(***************************************************************************)
EXTENDS Routes

CONSTANTS
  GroupOrder,   \* names of services and topics, in the order of their bytes
  MaxGroups,    \* services and topics drawn at first,
  MaxContracts  \* and contracts of the service that is opened

NoFocus == <<>>
IsTopicHub(n) == n.repo = NoRepo /\ n.kind \in StreamKinds
(* With one root the services are packages, else roots.                     *)
ByRoot(g) ==
  Cardinality({g.nodes[i].repo : i \in {j \in DOMAIN g.nodes : ~IsTopicHub(g.nodes[j])}} \ {NoRepo}) > 1
ServiceName(byRoot, n) ==
  IF byRoot /\ n.repo # NoRepo THEN <<Word(n.repo)>> ELSE IF n.pkg = <<>> THEN <<Word("shared")>> ELSE n.pkg
GroupOf(n, i, byRoot, focus) ==
  CASE IsTopicHub(n) -> [kind |-> "Topic", name |-> n.name, id |-> 0]
    [] ~IsTopicHub(n) /\ ServiceName(byRoot, n) = focus -> [kind |-> "Contract", name |-> n.name, id |-> i]
    [] OTHER -> [kind |-> "Service", name |-> ServiceName(byRoot, n), id |-> 0]
Services(g) ==
  LET byRoot == ByRoot(g)
  IN {ServiceName(byRoot, g.nodes[i]) : i \in {j \in DOMAIN g.nodes : ~IsTopicHub(g.nodes[j])}}
NameRank(n) == CHOOSE k \in DOMAIN GroupOrder : GroupOrder[k] = n
(* The service a name means: that one, or the first that differs in case.   *)
FocusOf(g, asked) ==
  LET near == {s \in Services(g) : EqIgnoreCase(s, asked)} IN
  IF asked \in Services(g) THEN {asked} ELSE {s \in near : \A o \in near : NameRank(s) <= NameRank(o)}

(* `rank_cmp`: the best connected, the largest, services before topics, by  *)
(* name; contracts of one rank are told apart by their ids.                 *)
RankKey(x, degree, size) ==
  <<0 - degree, 0 - size, IF x.kind = "Service" THEN 0 ELSE IF x.kind = "Topic" THEN 1 ELSE 3,
    IF x.kind = "Contract" THEN x.id ELSE NameRank(x.name)>>
Less(a, b) == \E p \in DOMAIN a : a[p] < b[p] /\ \A q \in 1..(p - 1) : a[q] = b[q]

(* `Aggregate::build`.  The candidates of an ambiguous edge that lie in the *)
(* caller's own group are inside it; the others count as one link when they *)
(* agree on the group, else as none.                                        *)
Total(L) == FoldSet(LAMBDA l, n : n + l.count, 0, L)
Doubt(e) == <<e.from, e.kind, e.meta>>
SettledOn(targets) == Cardinality(targets) = 1
Aggregate(g, focus) ==
  LET byRoot == ByRoot(g)
      grp == [i \in DOMAIN g.nodes |-> GroupOf(g.nodes[i], i, byRoot, focus)]
      crossing == {e \in g.edges : /\ {e.from, e.to} \subseteq DOMAIN g.nodes
                                   /\ grp[e.from] # grp[e.to]}
      open == {e \in crossing : e.conf = "ambiguous"}
      doubts == {Doubt(e) : e \in open}
      targets(d) == {grp[e.to] : e \in {x \in open : Doubt(x) = d}}
      sure == {[k |-> <<grp[e.from], grp[e.to], e.kind>>, conf |-> e.conf, of |-> Doubt(e), to |-> {e.to}] :
                 e \in crossing \ open}
      guessed == {[k |-> <<grp[d[1]], CHOOSE t \in targets(d) : TRUE, d[2]>>, conf |-> "heuristic", of |-> d, to |-> {}] :
                    d \in {x \in doubts : SettledOn(targets(x))}}
      all == sure \cup guessed
      weight(k) == Cardinality({x \in all : x.k = k})
      weakest(k) == IF \E x \in all : x.k = k /\ x.conf = "heuristic" THEN "heuristic" ELSE "exact"
      links == {[from |-> k[1], to |-> k[2], kind |-> k[3], count |-> weight(k), weakest |-> weakest(k)] :
                  k \in {x.k : x \in all}}
      of(x) == {l \in links : x \in {l.from, l.to}}
      size(x) == Cardinality({i \in DOMAIN grp : grp[i] = x})
      near(x) == {l \in of(x) : x.kind # "Contract" /\ "Contract" \in {l.from.kind, l.to.kind}}
      routes == {i \in RouteNodes(g) : grp[i].kind = "Contract"}
  IN [groups |-> {[box |-> x, contracts |-> size(x), rank |-> RankKey(x, Total(of(x)), size(x)),
                   focusWeight |-> Total(near(x))] : x \in {grp[i] : i \in DOMAIN grp}},
      links |-> links, omitted |-> Cardinality({d \in doubts : ~SettledOn(targets(d))}),
      routes |-> Shown(g, routes), routesInTests |-> Cardinality({i \in routes : Hides(g, i)})]

(* `Aggregate::select`.  The neighbours of an opened service are those it   *)
(* has most to do with.                                                     *)
FirstOf(S, n, Before(_, _)) == {x \in S : Cardinality({y \in S : Before(y, x)}) < n}
OtherOf(x) == [kind |-> "Other", name |-> <<Word(x.kind)>>, id |-> 0]
(* Mutant: links to what is not drawn are dropped.                         *)
SelectDrawnOnly(agg, focus, groups, contracts) ==
  LET drawn == FirstOf(agg.groups, groups, LAMBDA x, y : Less(x.rank, y.rank))
      shown == {x.box : x \in drawn}
  IN [boxes |-> {[box |-> IF x \in drawn THEN x.box ELSE OtherOf(x.box), contracts |-> x.contracts] : x \in agg.groups},
      hidden |-> agg.groups \ drawn,
      links |-> {l \in agg.links : {l.from, l.to} \subseteq shown}]
Select(agg, focus, groups, contracts) ==
  LET before(x, y) == Less(x.rank, y.rank)
      near(x, y) == \/ x.focusWeight > y.focusWeight
                    \/ x.focusWeight = y.focusWeight /\ before(x, y)
      drawn == IF focus = NoFocus THEN FirstOf(agg.groups, groups, before)
               ELSE FirstOf({x \in agg.groups : x.box.kind = "Contract"}, contracts, before)
                      \cup FirstOf({x \in agg.groups : x.focusWeight > 0}, groups, near)
      shown == {x.box : x \in drawn}
      index(b) == IF b \in shown THEN b ELSE OtherOf(b)
      folded == {[from |-> index(l.from), to |-> index(l.to), kind |-> l.kind, link |-> l] : l \in agg.links}
      under(k) == {f.link : f \in {x \in folded : x.from = k[1] /\ x.to = k[2] /\ x.kind = k[3]}}
      size(b) == FoldSet(LAMBDA x, n : n + x.contracts, 0, {x \in agg.groups : index(x.box) = b})
  IN [boxes |-> {[box |-> b, contracts |-> size(b)] : b \in {index(x.box) : x \in agg.groups}},
      hidden |-> agg.groups \ drawn,
      links |-> {[from |-> k[1], to |-> k[2], kind |-> k[3], count |-> Total(under(k)),
                  weakest |-> IF \E l \in under(k) : l.weakest = "heuristic" THEN "heuristic" ELSE "exact"] :
                   k \in {<<f.from, f.to, f.kind>> : f \in {x \in folded : x.from # x.to}}}]

(* `VisualizeMeshTool::run`: both bounds are halved until the page fits,    *)
(* which depends on its text.                                               *)
Halved(n, k) == Max({n \div 2^k, 1})
Views == {[groups |-> Halved(MaxGroups, k), contracts |-> Halved(MaxContracts, k)] : k \in 0..2}

----------------------------------------------------------------------------
(* The edges of the graph that join a group to another.                     *)
Crosses(g, focus, x) ==
  LET byRoot == ByRoot(g)
      inside(i) == GroupOf(g.nodes[i], i, byRoot, focus) = x
  IN {e \in g.edges : {e.from, e.to} \subseteq DOMAIN g.nodes /\ inside(e.from) # inside(e.to)}

(* However far a view shrinks, nothing of what is drawn is lost: the boxes  *)
(* account for every contract, and the links of a drawn service or topic    *)
(* weigh as much as the edges that leave or enter it in the graph, those of *)
(* an ambiguity apart.                                                      *)
KeepsLinks(focus, agg, view) ==
  LET real == {b.box : b \in view.boxes} \cap {x.box : x \in agg.groups}
      joins(x) == {l \in view.links : x \in {l.from, l.to}}
  IN /\ FoldSet(LAMBDA b, n : n + b.contracts, 0, view.boxes) = Cardinality(DOMAIN graph.nodes)
     /\ \A x \in real :
          LET edges == Crosses(graph, focus, x)
              open == {e \in edges : e.conf = "ambiguous"}
          IN /\ Total(joins(x)) >= Cardinality(edges \ open)
             /\ Total(joins(x)) <= Cardinality(edges \ open) + Cardinality({Doubt(e) : e \in open})
EveryView(focus, agg) ==
  \A size \in Views : KeepsLinks(focus, agg, Select(agg, focus, size.groups, size.contracts))
DrawnKeepsItsLinks ==
  \A focus \in {NoFocus} \cup Services(graph) : EveryView(focus, Aggregate(graph, focus))

(* A link between two services is no guess among several: some edge of the  *)
(* graph makes it, and if none does that is sure, every candidate of some   *)
(* ambiguous one outside the caller's own service is in the other.          *)
LinksAreBacked ==
  \A focus \in {NoFocus} \cup Services(graph) : \A l \in Aggregate(graph, focus).links :
    LET byRoot == ByRoot(graph)
        at(i) == GroupOf(graph.nodes[i], i, byRoot, focus)
        between == {e \in graph.edges : /\ {e.from, e.to} \subseteq DOMAIN graph.nodes /\ e.kind = l.kind
                                        /\ at(e.from) = l.from /\ at(e.to) = l.to}
    IN \E e \in between :
         e.conf = "ambiguous" => \A d \in graph.edges :
           (Doubt(d) = Doubt(e) /\ d.conf = "ambiguous" /\ d.to \in DOMAIN graph.nodes) => at(d.to) \in {l.from, l.to}

(* Opened, a service shows the links it has closed: for every kind its      *)
(* contracts exchange with another service or topic as much as the overview *)
(* says the service does, as far as no ambiguity is involved.               *)
ZoomAgrees(focus, whole, zoomed) ==
  LET me == [kind |-> "Service", name |-> focus, id |-> 0]
      overview(x) == Total({l \in whole.links : {l.from, l.to} = {me, x}})
      opened(x) == Total({l \in zoomed.links : x \in {l.from, l.to} /\ "Contract" \in {l.from.kind, l.to.kind}})
  IN \A x \in {y.box : y \in whole.groups} \ {me} :
       /\ opened(x) <= overview(x)
       /\ (~\E e \in graph.edges : e.conf = "ambiguous") => opened(x) = overview(x)
ZoomAgreesWithOverview ==
  \A focus \in Services(graph) : ZoomAgrees(focus, Aggregate(graph, NoFocus), Aggregate(graph, focus))

(* The diagram shows the dependencies of the graph, and no others, at      *)
(* every level it folds or shrinks to.                                     *)
DiagramFaithful == DrawnKeepsItsLinks /\ LinksAreBacked /\ ZoomAgreesWithOverview
=============================================================================
