---- MODULE Dependents ----
(***************************************************************************)
(* The `find_dependents` tool: what the graph answers, listed by           *)
(* declaration, by file or by package, without tests unless they are asked *)
(* for.                                                                    *)
(***************************************************************************)
EXTENDS GraphQueries

CONSTANTS
  GeneratedFiles,      \* files that look machine-made
  MaxRepresentatives   \* MAX_REPRESENTATIVES

Granularities == {"symbol", "file", "package"}
Package(g, i) == <<g.nodes[i].repo, g.nodes[i].pkg>>

(* The units a listing counts: `dedup_by_file`, `group_by_package`.         *)
Units(g, S, granularity) ==
  CASE granularity = "symbol" -> S
    [] granularity = "file" -> {g.nodes[i].file : i \in S}
    [] granularity = "package" -> {Package(g, i) : i \in S}
(* `resolve`: what is listed, and how many more are only in tests, in the   *)
(* unit of the listing.                                                     *)
HiddenUnits(g, tests, listed, granularity) ==
  Cardinality(Units(g, tests, granularity) \ (IF granularity = "package" THEN listed ELSE {}))
Listing(g, all, kept, granularity) ==
  [nodes |-> kept, listed |-> Units(g, kept, granularity),
   hidden |-> HiddenUnits(g, all \ kept, Units(g, kept, granularity), granularity)]
ListingOf(g, all, tests, granularity) == Listing(g, all, IF tests THEN all ELSE Shown(g, all), granularity)
Resolve(g, t, tests, granularity) == ListingOf(g, DependentsMatched(g, t).ids, tests, granularity)

(* `group_by_package`, and the locations `pick_representatives` chooses:    *)
(* not a test, not generated, a declaration, the most referred to, then in  *)
(* the order of files, lines and names; each in another file.               *)
Referenced(g, i) == Cardinality({e \in g.edges : e.to = i})
RepBefore(g, i, j) ==
  LET rank(k) == <<Hides(g, k), g.nodes[k].file \in GeneratedFiles, g.nodes[k].kind = "Module">>
      differ == {p \in 1..3 : rank(i)[p] # rank(j)[p]}
  IN IF differ # {} THEN ~rank(i)[Min(differ)]
     ELSE \/ Referenced(g, i) > Referenced(g, j)
          \/ Referenced(g, i) = Referenced(g, j) /\ Earlier(g, i, j)
Representatives(g, S) ==
  LET firsts == {i \in S : \A j \in S : g.nodes[j].file = g.nodes[i].file => ~RepBefore(g, j, i)}
  IN {i \in firsts : Cardinality({j \in firsts : RepBefore(g, j, i)}) < MaxRepresentatives}
Groups(g, S) ==
  {LET own == {i \in S : Package(g, i) = p} IN
   [package |-> p, files |-> Cardinality(Units(g, own, "file")),
    symbols |-> Cardinality({i \in own : g.nodes[i].kind # "Module"}), reps |-> Representatives(g, own)] :
     p \in Units(g, S, "package")}

----------------------------------------------------------------------------
(* What a listing leaves out is what it says it leaves out, in its own      *)
(* unit: with the tests it would list that many more, whichever way the     *)
(* dependents are grouped.  (An earlier version counted declarations under  *)
(* a listing of files.)                                                     *)
LeavesOut(r, whole) == Cardinality(whole.listed) - Cardinality(r.listed) = r.hidden
LeftOutIsCounted ==
  \A t \in Targets, granularity \in Granularities :
    LeavesOut(Resolve(graph, t, FALSE, granularity), Resolve(graph, t, TRUE, granularity))

(* The packages of a listing account for every dependent: their             *)
(* declarations add up, and the locations shown and the files said to       *)
(* follow ("... and n more file(s)") are the files of the package.          *)
AddsUp(kept, groups) ==
  /\ FoldSet(LAMBDA x, n : n + x.symbols, 0, groups) = Cardinality({i \in kept : graph.nodes[i].kind # "Module"})
  /\ \A x \in groups :
       /\ Cardinality({graph.nodes[i].file : i \in x.reps}) = Cardinality(x.reps)
       /\ Cardinality(x.reps) = Min({x.files, MaxRepresentatives})
Grouped(kept) == AddsUp(kept, Groups(graph, kept))
PackagesAddUp == \A t \in Targets, tests \in BOOLEAN : Grouped(Resolve(graph, t, tests, "package").nodes)

(* The tools, which answer by separate code over one graph, agree with     *)
(* each other, with their own notes and with their own counts.             *)
AnswersAgree ==
  /\ ToolsAgree /\ HandlersInside /\ DependedOnIsAnswered
  /\ NoFileTwice /\ NotesMatchRows /\ WalkNotesTruthful
  /\ LeftOutIsCounted /\ PackagesAddUp
=============================================================================
