---- MODULE Readers ----
(***************************************************************************)
(* The readers at work: a source file that grows under its author's hands  *)
(* and is read again each time it is saved; files whose module aliases are *)
(* asked for in any order; a `.proto` file revised as long as the revision *)
(* checks raise no breaking finding.                                       *)
(*                                                                         *)
(* A fragment is what an author adds at a time: items, with depths from 0, *)
(* and the kinds of item it may stand in ("top" for none).  An item also   *)
(* says what a reader of the code would say of it: m, the identifiers on   *)
(* its line; says, the topics it sends or receives ([role, x]: x the       *)
(* expressions that give them, whatever the extractors make of them).      *)
(***************************************************************************)
EXTENDS Polyglot, ScriptAliases, SchemaRevisions

CONSTANTS Blank,          \* an empty file of each language
          Fragments,      \* what may be written in each
          MaxFragments,
          Config,         \* the extraction settings
          Patterns,       \* the declarative patterns
          Openers         \* the kinds of item others may stand in

VARIABLES doc,      \* the file being written: its language and its fragments
          file,     \* the file as it lies on the disk
          out       \* what the last read of it said
vars == <<doc, file, out, aliasVars, history>>

----------------------------------------------------------------------------
(* The file that fragments make.                                           *)

Shifted(p) == [i \in DOMAIN p.items |-> [p.items[i] EXCEPT !.d = @ + p.at]]
Text(ps) == FlattenSeq(Mapped(ps, Shifted))
Mentions(items) == UNION {{<<items[i].lo, n>> : n \in IF "m" \in DOMAIN items[i] THEN items[i].m ELSE {}} : i \in DOMAIN items}
Filled(lang, shown, items) ==
  [shown EXCEPT !.items = items, !.uses = Mentions(items), !.tsx.items = IF lang = "flow" THEN items ELSE <<>>]
Shown(lang, shown, ps) == Filled(lang, shown, IF IsSfc(shown) THEN ComponentItems(shown) ELSE Laid(Text(ps)))
Written(lang, ps) == Shown(lang, [Blank[lang] EXCEPT !.blocks = Mapped(ps, LAMBDA p : p.block)], ps)

(* Where the next fragment may stand: its depth, and the kind of item it   *)
(* is then in.                                                             *)
ParentKind(items, at) ==
  IF at = 0 THEN "top"
  ELSE items[Max({i \in DOMAIN items : items[i].d = at - 1 /\ \A j \in i..Len(items) : items[j].d >= at - 1})].k
Depths(items) ==
  IF items = <<>> THEN {0} ELSE 0..(Last(items).d + IF Last(items).k \in Openers THEN 1 ELSE 0)
Fits(items, fragment, at) == at \in fragment.depths /\ ParentKind(items, at) \in fragment.under

NoDoc == [lang |-> "none", pieces |-> <<>>]
NoFile == [items |-> <<>>]
NothingRead == [idx |-> NoIndex, failed |-> FALSE]
Init ==
  /\ doc \in {NoDoc} \cup {[lang |-> l, pieces |-> <<>>] : l \in DOMAIN Blank}
  /\ file = IF doc = NoDoc THEN NoFile ELSE Blank[doc.lang]
  /\ out = NothingRead
  /\ AliasInit
  /\ RevisionsInit

(* The author adds a fragment and saves; the file is read again.           *)
Write(fragment, at) ==
  LET pieces == Append(doc.pieces, [items |-> fragment.items, block |-> fragment.block, at |-> at])
      new == Written(doc.lang, pieces)
  IN /\ doc # NoDoc /\ Len(doc.pieces) < MaxFragments
     /\ Fits(file.items, fragment, at)
     /\ doc' = [doc EXCEPT !.pieces = pieces]
     /\ file' = new
     /\ out' = Fragment(new, Config, Patterns)
     /\ UNCHANGED <<aliasVars, history>>

(* The alias lookups of a scan.                                            *)
LookUp(w) ==
  /\ doc = NoDoc /\ Len(history) = 1
  /\ Asking(w) \/ LookingUp(w)
  /\ UNCHANGED <<doc, file, out, history>>

(* A revision of the schema.                                               *)
Revise(op, it) ==
  /\ doc = NoDoc /\ AliasInit
  /\ Revision(op, it)
  /\ UNCHANGED <<doc, file, out, aliasVars>>

Next ==
  \/ \E fragment \in IF doc = NoDoc THEN {} ELSE Fragments[doc.lang] : \E at \in Depths(file.items) : Write(fragment, at)
  \/ \E w \in Scanners : LookUp(w)
  \/ \E op \in Ops : \E it \in SchemaItems : Revise(op, it)
Spec == Init /\ [][Next]_vars

----------------------------------------------------------------------------
(* What is right of a reading.                                             *)

Indices(rel) == {rel[i][1] : i \in DOMAIN rel}
(* `FileIndex::apply` indexes the nodes of the file by    *)
(* the positions its facts carry, and `smart_search` slices the file by    *)
(* the lines its nodes carry: a position or a line outside is a panic.     *)
FactsInRange ==
  LET x == out.idx
      n == 1..Len(x.nodes)
      lines == IF doc = NoDoc THEN 1 ELSE Lines(file.items)
  IN /\ out.failed \in BOOLEAN
     /\ Indices(x.deps) \cup Indices(x.producers) \cup Indices(x.consumers) \cup Indices(x.calls) \cup x.heuristic \subseteq n
     /\ \A i \in n : x.nodes[i].lo \in 1..lines /\ x.nodes[i].hi \in x.nodes[i].lo .. lines
     /\ Len(asked) <= MaxAsked /\ Len(history) <= MaxRevisions

(* What an expression means where it stands: a name is what the innermost  *)
(* declaration around it makes of it, and a parameter is not known.        *)
Visible(j, i) == file.items[j].d = 0 \/ \E p \in Above(file, i) : j \in Children(file, p)
Worth(val) ==
  IF val.e = "call" THEN {file.items[j].returns : j \in {k \in OfKind(file, "func") : "returns" \in DOMAIN file.items[k] /\ file.items[k].name = val.v}}
  ELSE {val.v}
Meant(i, x) ==
  LET named == {j \in DOMAIN file.items : /\ "val" \in DOMAIN file.items[j] /\ "name" \in DOMAIN file.items[j]
                                          /\ BareOf(file.items[j].name) = x.v /\ Visible(j, i)}
      depth == Max({-1} \cup {file.items[j].d : j \in named})
      hidden == \E p \in Above(file, i) : /\ "params" \in DOMAIN file.items[p]
                                          /\ Contains(file.items[p].params, Last(x.v)) /\ file.items[p].d + 1 > depth
  IN CASE x.e \in {"lit", "maybe"} -> {x.v}
       [] x.e = "ref" -> IF hidden THEN {} ELSE UNION {Worth(file.items[j].val) : j \in {k \in named : file.items[k].d = depth}}
Sites(role) == {i \in DOMAIN file.items : "says" \in DOMAIN file.items[i] /\ file.items[i].says.role = role}
MeantAt(i) == UNION {Meant(i, file.items[i].says.x[n]) : n \in DOMAIN file.items[i].says.x}
FactsOf(role) == ToSet(IF role = "produce" THEN out.idx.producers ELSE out.idx.consumers)

(* A listener whose annotation gives its topics by a constant.  The Java   *)
(* and Kotlin readers do not look the constant up: the method's own name   *)
(* stands for the topic, or the string quoted in another parameter of the  *)
(* annotation (`extract_annotation_param`).                                *)
QuotedIn(it) == UNION {ToSet(Gather(it.annos[a].params, LAMBDA p : Literals(p.e))) : a \in DOMAIN it.annos}
ListensByConstant(i) ==
  /\ file.lang \in {"Java", "Kotlin"} /\ file.items[i].k = "method"
  /\ \A n \in DOMAIN file.items[i].says.x : file.items[i].says.x[n].e = "ref"
StandIn(it) == IF QuotedIn(it) = {} THEN {it.name} ELSE QuotedIn(it)

(* Whatever a node is recorded to send or receive is what some line of it  *)
(* means to send or receive, a name being read as the innermost            *)
(* declaration around it says (`Names::resolve_inner`, and the owners of   *)
(* every extractor); a Python event outside every declaration is the first *)
(* node's.  One topic is invented: the stand-in of a listener by constant, *)
(* which is recorded of that method only.  The facts of patterns (node.site*)
(* is the role) are the patterns' own, and a YAML document has no sites.   *)
TopicsAreMeant ==
  \A role \in {"produce", "consume"} : \A fact \in FactsOf(role) :
    LET node == out.idx.nodes[fact[1]] IN
    \/ node.site = role /\ node.topic = fact[2]
    \/ file.lang = "Yaml"
    \/ \E i \in Sites(role) : /\ fact[2] \in MeantAt(i)
                              /\ Encloses(node, file.items[i]) \/ (file.lang = "Python" /\ fact[1] = 1)
    \/ \E i \in Sites(role) : ListensByConstant(i) /\ SameLines(node, file.items[i]) /\ fact[2] \in StandIn(file.items[i])

IsScript == doc # NoDoc /\ file.lang \in {"TypeScript", "Tsx", "JavaScript"} /\ ~IsSfc(file)

(* What a line inside a declaration sends or receives by a literal is      *)
(* recorded, and of the innermost declaration around it, not of one        *)
(* further out (`smallest_enclosing`, `resolve_events`, `wire_ts_events`). *)
(* Two readers stop at the first: of the sends of a Java method and of the *)
(* subscriptions of a Rust function only the first is sure to be recorded. *)
(* What Python sends outside every declaration is the first node's, and    *)
(* lost when no declaration or call stands before it in the file (there is *)
(* no node yet).  YAML documents are left out.                             *)
HasNode(j, Kind(_)) ==
  \E n \in DOMAIN out.idx.nodes :
    LET node == out.idx.nodes[n] IN node.site = "none" /\ SameLines(node, file.items[j]) /\ Kind(node.kind)
DeclaringAt(i) ==
  LET declared == {j \in Above(file, i) \cup {i} : HasNode(j, LAMBDA k : ~StreamKind(k) \/ (file.items[j].k = "method" /\ (j = i \/ ~IsScript)))}
  IN IF declared = {} THEN {j \in {i} : HasNode(i, StreamKind)} ELSE declared
Repeated(i) ==
  \E j \in Sites(file.items[i].says.role) : j < i /\ file.items[j].k = file.items[i].k /\ DeclaringAt(i) \subseteq DeclaringAt(j)
OnlyFirst(i) == <<file.lang, file.items[i].says.role>> \in {<<"Java", "produce">>, <<"Rust", "consume">>}
ModuleLevelPython(i) == file.lang = "Python" /\ file.items[i].k = "call" /\ file.items[i].d = 0
Recorded(role, i, Owner(_)) ==
  LET x == file.items[i].says.x IN
  \A n \in DOMAIN x : x[n].e = "lit" => \E fact \in FactsOf(role) : fact[2] = x[n].v /\ Owner(fact[1])
SendsOwned ==
  \A role \in {"produce", "consume"} : \A i \in Sites(role) :
    LET D == DeclaringAt(i) IN
    IF ModuleLevelPython(i)
    THEN (\E j \in 1..(i - 1) : file.items[j].k \in {"class", "func", "call"}) => Recorded(role, i, LAMBDA n : n = 1)
    ELSE (D # {} /\ file.lang # "Yaml" /\ ~(OnlyFirst(i) /\ Repeated(i))) =>
           Recorded(role, i, LAMBDA n : SameLines(out.idx.nodes[n], file.items[Max(D)]))

(* `mentions_broker` lets a file be skipped without being looked at: it    *)
(* must never skip one in which a rule would have found an event.          *)
Overlooked(f) == ~MentionsBroker(f) /\ \E i \in DOMAIN f.items : SiteEvents(f, i) # <<>>
PrefilterHidesNothing == IsScript => ~Overlooked(InContext(file))

(* In a file that builds clients of a library, a method of the same name   *)
(* on something else is not an event of it (`receiver_is_client`).         *)
ForeignTo(f, libs, key) == Tracked(libs) /\ IsClient(f, libs, key) = "no"
OnlyForeign(f, rules, key) ==
  /\ \E r \in rules : ImportsAny(f, r.libs)
  /\ \A r \in rules : ImportsAny(f, r.libs) => ForeignTo(f, r.libs, key)
ForeignReceiver(f, it, key) ==
  /\ OnlyForeign(f, {CallRules[n] : n \in {m \in DOMAIN CallRules : it.name \in CallRules[m].methods}}, key)
  /\ ~LikeAny(key, {"producer", "consumer", "kafka", "redpanda", "client", "proxy"})
SilentAt(it) == ~\E n \in DOMAIN out.idx.nodes : StreamKind(out.idx.nodes[n].kind) /\ SameLines(out.idx.nodes[n], it)
ForeignSilentIn(f) ==
  \A i \in OfKind(f, "call") :
    (f.items[i].on # Nothing /\ ForeignReceiver(f, f.items[i], ReceiverKey(f.items[i].on))) => SilentAt(f.items[i])
ForeignReceiversSilent == IsScript => ForeignSilentIn(InContext(file))

(* The prefixes of a router do not depend on which routes were looked at   *)
(* before it: the memo of `mounted_prefixes` gives what a search without   *)
(* one gives, in files whose routers have at most MaxPrefixes mounts.      *)
MemoAgrees(f, i, memo) == DetectRoutes(f, i, memo).routes = DetectRoutes(f, i, NoMemo).routes
MemoAfter(f, calls) == FoldLeft(LAMBDA memo, i : DetectRoutes(f, i, memo).memo, NoMemo, calls)
PrefixMemosOf(f, calls) == \A n \in DOMAIN calls : MemoAgrees(f, calls[n], MemoAfter(f, SubSeq(calls, 1, n - 1)))
PrefixMemoAgrees == IsScript => PrefixMemosOf(InContext(file), InSourceOrder(OfKind(file, "call")))

(* A gRPC client bound to a variable of the module is called by those who  *)
(* use the variable: by each of them, and never by the variable itself     *)
(* (`resolve_rpc_calls`, typescript.rs).                                   *)
ModuleClients ==
  {i \in OfKind(file, "var") : file.items[i].d = 0 /\ Built(file, i) # <<>> /\ ClientConstructed(file, file.items[i].val) # <<>>}
ModuleClientIsItsUsers ==
  (IsScript /\ ~out.failed) => \A i \in ModuleClients :
    LET it == file.items[i]
        to == PlainCall(ClientConstructed(file, it.val))
        callers == {c[1] : c \in {x \in ToSet(out.idx.calls) : x[2] = to}}
    IN /\ \A j \in callers : out.idx.nodes[j].name # it.name
       /\ \A u \in {x \in file.uses : x[2] = it.name} :
            \A f \in {j \in OfKind(file, "func") : file.items[j].d = 0 /\ file.items[j].lo <= u[1] /\ u[1] <= file.items[j].hi} :
              \E j \in callers : Encloses(file.items[f], out.idx.nodes[j])

(* An endpoint of an OpenAPI document is on a line of its own path: not    *)
(* before the path's line, and before that of every later path written     *)
(* plainly (`extract_yaml_contracts`, pass 2).                             *)
PathItems == {j \in OfKind(file, "key") : file.items[j].d = 1 /\ \E p \in SpecRoots(file, Word("paths")) : j \in Children(file, p)}
EndpointsUnderTheirPath ==
  (doc # NoDoc /\ file.lang = "Yaml") =>
    \A n \in DOMAIN out.idx.nodes : \A j \in PathItems :
      LET node == out.idx.nodes[n]
          own == file.items[j].name = Last(node.name)
          once == \A k \in PathItems \ {j} : file.items[k].name # file.items[j].name
      IN (node.kind = "HttpEndpoint" /\ own /\ once /\ file.items[j].plain) =>
           /\ node.lo >= file.items[j].lo
           /\ \A k \in PathItems : (k > j /\ file.items[k].plain) => node.lo < file.items[k].lo

(* What a component's script declares is where it stands in the component, *)
(* not in its script (`script_view` keeps the lines of what it blanks).    *)
ComponentLinesAreTheFiles ==
  (doc # NoDoc /\ IsSfc(file)) =>
    \A n \in ScriptBlocks(file) : \A k \in DOMAIN file.blocks[n].items :
      LET it == file.items[BlockStart(file, n) + k] IN
      (it.k = "func" /\ it.d = 0) =>
        \E i \in DOMAIN out.idx.nodes : out.idx.nodes[i].name = it.name /\ SameLines(out.idx.nodes[i], it)

----------------------------------------------------------------------------
(* What is read of events is what the file says, each at its declaration,  *)
(* but for the exceptions each part names: the stand-in topics of JVM      *)
(* listeners are invented; a second send in a Java method, a second        *)
(* subscription in a Rust function, and what a Python file sends before    *)
(* its first declaration are overlooked.                                   *)
EventsAreTheFiles ==
  FactsInRange /\ TopicsAreMeant /\ SendsOwned /\ PrefilterHidesNothing /\ ForeignReceiversSilent

(* Calls, endpoints and embedded scripts are placed where they stand, and  *)
(* what is remembered between two lookups of a prefix or an alias leads to *)
(* the same place.                                                         *)
PlacesAreTheFiles ==
  /\ ModuleClientIsItsUsers /\ EndpointsUnderTheirPath /\ ComponentLinesAreTheFiles
  /\ PrefixMemoAgrees /\ RewriteLeadsToTarget
=============================================================================
