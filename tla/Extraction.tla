---- MODULE Extraction ----
(***************************************************************************)
(* What the language extractors share: the shape of a source file, and of  *)
(* what is extracted from it (`FileIndex`).                                *)
(*                                                                         *)
(* A file is its syntax nodes in the order a walk meets them, each with    *)
(* its depth; which identifiers its lines mention; and where it lies.      *)
(* Names, topics and packages are those of Names.                          *)
(***************************************************************************)
EXTENDS Names, FiniteSets, FiniteSetsExt, Functions, TLC

(* The lines of a file: a node begins a new line unless it says otherwise, *)
(* and ends with the last node inside it.                                  *)
Inside(items, i, j) == i < j /\ \A k \in (i + 1)..j : items[k].d > items[i].d
Laid(items) ==
  LET line(i) == Cardinality({k \in 1..i : items[k].nl})
      last(i) == Max({i} \cup {j \in DOMAIN items : Inside(items, i, j)})
  IN [i \in DOMAIN items |-> items[i] @@ [lo |-> line(i), hi |-> line(last(i))]]
Lines(items) == Max({1} \cup {items[i].hi : i \in DOMAIN items})
Above(f, i) == {j \in DOMAIN f.items : Inside(f.items, j, i)}
Below(f, i) == {j \in DOMAIN f.items : Inside(f.items, i, j)}
Children(f, i) == {j \in Below(f, i) : f.items[j].d = f.items[i].d + 1}

(* The items of one kind that stand right before an item, at its depth.    *)
Attached(f, i, k) ==
  {j \in 1..(i - 1) : \A n \in j..(i - 1) : f.items[n].k = k /\ f.items[n].d = f.items[i].d}

Positions(f) == [i \in DOMAIN f.items |-> i]
OfKind(f, k) == {i \in DOMAIN f.items : f.items[i].k = k}
InSourceOrder(S) == [n \in 1..Cardinality(S) |-> CHOOSE i \in S : Cardinality({j \in S : j < i}) = n - 1]
Mapped(s, Op(_)) == [i \in DOMAIN s |-> Op(s[i])]
Gather(s, Op(_)) == FlattenSeq(Mapped(s, Op))

----------------------------------------------------------------------------
(* Nodes and facts.                                                        *)

NodeOf(name, kind, pkg, span) ==
  [name |-> name, kind |-> kind, pkg |-> pkg, site |-> "none", topic |-> <<>>, sig |-> {},
   lo |-> span.lo, hi |-> span.hi]
NoIndex ==
  [nodes |-> <<>>, deps |-> <<>>, producers |-> <<>>, consumers |-> <<>>, calls |-> <<>>, heuristic |-> {}]

(* `FileIndex::merge`: the positions of the second follow the first's.     *)
Merge(a, b) ==
  LET shift(rel) == Mapped(rel, LAMBDA r : <<r[1] + Len(a.nodes), r[2]>>)
  IN [nodes |-> a.nodes \o b.nodes, deps |-> a.deps \o shift(b.deps),
      producers |-> a.producers \o shift(b.producers), consumers |-> a.consumers \o shift(b.consumers),
      calls |-> a.calls \o shift(b.calls),
      heuristic |-> a.heuristic \cup {i + Len(a.nodes) : i \in b.heuristic}]

(* The smallest declaration around a span, the first of two alike; 0 when  *)
(* none encloses it.                                                       *)
Encloses(n, s) == n.lo <= s.lo /\ n.hi >= s.hi
Extent(n) == n.hi - n.lo
Smallest(nodes, D) ==
  IF D = {} THEN 0
  ELSE CHOOSE i \in D : \A j \in D : Extent(nodes[i]) < Extent(nodes[j])
                                     \/ (Extent(nodes[i]) = Extent(nodes[j]) /\ i <= j)
Enclosing(nodes, s) == Smallest(nodes, {i \in DOMAIN nodes : Encloses(nodes[i], s)})

Uses(f, n, ident) == \E u \in f.uses : u[1] >= n.lo /\ u[1] <= n.hi /\ u[2] = ident
Import(name) == [rel |-> FALSE, path |-> TRUE, n |-> name, file |-> "no file"]
PlainCall(service) == [k |-> "plain", n |-> service]
Pascal(w) == Tok(w, "pascal")
Camel(w) == Tok(w, "camel")
(* The text `METHOD /path`, and a prefixed one.                            *)
Label(verb, path) == <<Word(verb)>> \o path
Prefixed(p, n) == <<Tok(<<p>> \o n[1].w, n[1].s)>> \o Tail(n)

(* What an expression is, when it is a string: a literal, or a constant    *)
(* the file defines; <<>> when its value is not known.                     *)
Value(consts, e) ==
  CASE e.e = "lit" -> e.v
    [] e.e = "ref" /\ BareOf(e.v) \in DOMAIN consts -> consts[BareOf(e.v)]
    [] OTHER -> <<>>
Literals(e) ==
  CASE e.e = "lit" -> <<e.v>>
    [] e.e = "list" -> Gather(e.v, LAMBDA x : IF x.e = "lit" THEN <<x.v>> ELSE <<>>)
    [] OTHER -> <<>>

----------------------------------------------------------------------------
(* `detect_service_package`: a declared package that says something; else  *)
(* the nearest manifest; else the directory under a container of services; *)
(* else the nearest directory that is not a technical one.                 *)
(* A directory, nearest first, is [name, manifest (the name it declares,   *)
(* its presence), role].                                                   *)
Shared == <<Word("shared")>>
Main == <<Word("main")>>
FirstIn(s, Test(_)) == SelectSeq(s, Test)
ServicePackage(where, declared) ==
  LET manifests == FirstIn(where, LAMBDA x : x.manifest)
      services == {i \in 1..(Len(where) - 1) : where[i + 1].role = "container"}
      plain == FirstIn(where, LAMBDA x : x.role # "technical")
  IN CASE declared \notin {<<>>, Main} -> declared
       [] declared \in {<<>>, Main} /\ manifests # <<>> ->
            IF manifests[1].declares # <<>> THEN manifests[1].declares ELSE manifests[1].name
       [] declared \in {<<>>, Main} /\ manifests = <<>> /\ services # {} -> where[Min(services)].name
       [] OTHER -> IF plain = <<>> THEN Shared ELSE plain[1].name
=============================================================================
