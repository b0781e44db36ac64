---- MODULE Polyglot ----
(***************************************************************************)
(* `PolyglotIndexer` (languages/mod.rs): which reader a file goes to, what *)
(* a failed parse leaves, single-file components (sfc.rs), AsyncAPI and    *)
(* OpenAPI documents (spec_shape.rs) and the user's own patterns.          *)
(*                                                                         *)
(* A file also has: lang; parse ("whole", "errors", "failed") and, for     *)
(* JavaScript, tsx, what the TSX grammar reads instead ([parse, items]).   *)
(* The entries of a YAML file are its items: "key" name, plain (written on *)
(* its line as the key is), "entry" name (of a list) and "text" name (a    *)
(* line of a block scalar that looks like that key).                       *)
(* A component has blocks: [tag, lang, void, closed, items], tag being     *)
(* "frontmatter", "script", "style", "comment" or "other".                 *)
(***************************************************************************)
EXTENDS GoExtractor, JvmExtractors, WebExtractors, PythonExtractor, RustExtractor, NativeExtractors, ProtoSchema,
        TypeScriptExtractor

CONSTANT MaxMisses    \* Seeker::MAX_MISSES, 8

Extracted(idx) == [idx |-> idx, failed |-> FALSE]
ParseFailed == [idx |-> NoIndex, failed |-> TRUE]

----------------------------------------------------------------------------
(* API documents.  The parser keeps no positions: the line of an entry is  *)
(* searched for in the text.                                               *)

(* `KeyList`, `StrList`, `NestedKeyList`: the names under the last root    *)
(* entry so called; nothing, when it has another shape.                    *)
SpecRoots(f, name) == {i \in OfKind(f, "key") : f.items[i].d = 0 /\ f.items[i].name = name}
NamesUnder(f, i, kind) == Mapped(InSourceOrder({j \in Children(f, i) : f.items[j].k = kind}), LAMBDA j : f.items[j].name)
SpecView(f, name, kind) == IF SpecRoots(f, name) = {} THEN <<>> ELSE NamesUnder(f, Max(SpecRoots(f, name)), kind)
SpecPaths(f) ==
  IF SpecRoots(f, Word("paths")) = {} THEN <<>>
  ELSE Mapped(InSourceOrder({j \in Children(f, Max(SpecRoots(f, Word("paths")))) : f.items[j].k = "key"}), LAMBDA j :
         [path |-> f.items[j].name, methods |-> NamesUnder(f, j, "key")])

(* `key_line`, `item_line`: 0 when no line in [from, until) has it.        *)
NoUntil == 1000
LooksLike(it, name, kind) ==
  it.name = name /\ it.nl /\ ((it.k = kind /\ it.plain) \/ (it.k = "text" /\ kind = "key"))
FindLine(f, name, kind, from, until) ==
  LET hits == {i \in DOMAIN f.items : LooksLike(f.items[i], name, kind) /\ f.items[i].lo >= from /\ f.items[i].lo < until}
  IN IF hits = {} THEN 0 ELSE f.items[Min(hits)].lo
(* A `Seeker` over names in document order: it resumes after a hit, a miss *)
(* leaves it where it was, and after MaxMisses it gives up.                *)
SeekOn(s, line) == IF line = 0 THEN [s EXCEPT !.misses = @ - 1] ELSE [s EXCEPT !.cursor = line + 1]
Sought(s, line) == [SeekOn(s, line) EXCEPT !.out = Append(@, line)]
SeekLines(f, names, kind, section, until) ==
  FoldLeft(LAMBDA s, n : IF s.misses = 0 THEN [s EXCEPT !.out = Append(@, 0)]
                         ELSE Sought(s, FindLine(f, n, kind, s.cursor, until)),
           [cursor |-> section + 1, misses |-> MaxMisses, out |-> <<>>], names).out
OrFirst(line) == IF line = 0 THEN 1 ELSE line
At1(line) == [lo |-> line, hi |-> line]

(* A spec is one by its configured name, else by what it looks like.       *)
IsSpec(f, listed, kind) == IF listed = {} THEN kind \in f.looks ELSE f.file \in listed
AsyncApi == <<Word("asyncapi")>>
OpenApi == <<Word("openapi")>>
WithLines(names, lines) == [n \in DOMAIN names |-> [name |-> <<names[n]>>, line |-> OrFirst(lines[n])]]
SectionOf(f, root) == FindLine(f, Word(root), "key", 1, NoUntil)
SeekIn(f, root, names, kind) == WithLines(names, SeekLines(f, names, kind, SectionOf(f, root), NoUntil))
AsyncApiNames(f, cfg) ==
  SeekIn(f, "channels", SpecView(f, Word("channels"), "key"), "key")
    \o (IF cfg.inferTopics THEN SeekIn(f, "topics", SpecView(f, Word("topics"), "entry"), "entry") ELSE <<>>)
StreamIndex(found) ==
  [NoIndex EXCEPT !.nodes = Mapped(found, LAMBDA x : NodeOf(x.name, "EventStream", AsyncApi, At1(x.line))),
                  !.producers = [n \in DOMAIN found |-> <<n, found[n].name>>]]
AsyncApiIndex(f, cfg) == StreamIndex(AsyncApiNames(f, cfg))
(* The lines of the paths first; a method is searched for up to the next   *)
(* path found, and takes its path's line when it is not.                   *)
NextPath(lines, n) ==
  LET after == {m \in (n + 1)..Len(lines) : lines[m] # 0} IN IF after = {} THEN NoUntil ELSE lines[Min(after)]
Endpoints(p, line, found) ==
  [m \in DOMAIN p.methods |->
     NodeOf(<<p.methods[m], p.path>>, "HttpEndpoint", OpenApi, At1(IF found[m] # 0 THEN found[m] ELSE OrFirst(line)))]
PathEndpoints(f, paths, lines) ==
  [n \in DOMAIN paths |->
     Endpoints(paths[n], lines[n], IF lines[n] = 0 THEN [m \in DOMAIN paths[n].methods |-> 0]
                                   ELSE SeekLines(f, paths[n].methods, "key", lines[n], NextPath(lines, n)))]
OpenApiPaths(f, paths) ==
  PathEndpoints(f, paths, SeekLines(f, Mapped(paths, LAMBDA p : p.path), "key", SectionOf(f, "paths"), NoUntil))
OpenApiIndex(f) == [NoIndex EXCEPT !.nodes = FlattenSeq(OpenApiPaths(f, SpecPaths(f)))]
YamlExtract(f, cfg) ==
  Merge(IF IsSpec(f, cfg.asyncapi, "asyncapi") /\ f.parse = "whole" THEN AsyncApiIndex(f, cfg) ELSE NoIndex,
        IF IsSpec(f, cfg.openapi, "openapi") /\ f.parse = "whole" THEN OpenApiIndex(f) ELSE NoIndex)

----------------------------------------------------------------------------
(* `extract_as`.                                                           *)

(* `allows_proto_path`.                                                    *)
AllowsProto(f, cfg) == cfg.protoDirs = {} \/ cfg.protoDirs \cap {f.where[i].name : i \in DOMAIN f.where} # {}
(* A JavaScript file with syntax errors is read by the TSX grammar if that *)
(* reads it whole, and fails if that one fails.                            *)
ScriptReading(f, lang) ==
  IF lang # "JavaScript" \/ f.parse # "errors" \/ f.tsx.parse = "errors" THEN f
  ELSE [f EXCEPT !.parse = f.tsx.parse, !.items = f.tsx.items]
ExtractReading(read, cfg) == IF read.parse = "failed" THEN ParseFailed ELSE Extracted(TsExtract(read, cfg))
ExtractScript(f, cfg, lang) == ExtractReading(ScriptReading(f, lang), cfg)
ExtractAs(f, cfg, lang) ==
  LET parsed(Op(_)) == IF f.parse = "failed" THEN ParseFailed ELSE Extracted(Op(f)) IN
  CASE lang \in {"TypeScript", "Tsx", "JavaScript"} -> ExtractScript(f, cfg, lang)
    [] lang = "Protobuf" -> IF AllowsProto(f, cfg) THEN parsed(LAMBDA x : ProtoExtract(x, cfg.canonical)) ELSE Extracted(NoIndex)
    [] lang = "Java" -> parsed(JavaExtract)
    [] lang = "Kotlin" -> parsed(KotlinExtract)
    [] lang = "Scala" -> parsed(ScalaExtract)
    [] lang = "Go" -> parsed(GoExtract)
    [] lang = "Python" -> parsed(PyExtract)
    [] lang = "Rust" -> parsed(LAMBDA x : Merge(NoIndex, RustExtract(x)))
    [] lang = "Cpp" -> parsed(LAMBDA x : Merge(NoIndex, CppExtract(x)))
    [] lang = "CSharp" -> parsed(CsExtract)
    [] lang = "Ruby" -> parsed(RubyExtract)
    [] lang = "Php" -> parsed(PhpExtract)
    [] lang = "Swift" -> parsed(SwiftExtract)
    [] lang = "Yaml" -> Extracted(YamlExtract(f, cfg))
    [] OTHER -> Extracted(NoIndex)

----------------------------------------------------------------------------
(* Components.  The lines of every block are kept, so that a line of the   *)
(* script is a line of the file.                                           *)

Tag(b) == [k |-> "tag", d |-> 0, nl |-> TRUE]
BlockItems(b) == <<Tag(b)>> \o b.items
BlockStart(f, n) == Len(FlattenSeq(Mapped(SubSeq(f.blocks, 1, n - 1), BlockItems))) + 1
ComponentItems(f) == Laid(FlattenSeq(Mapped(f.blocks, BlockItems)))
(* `script_blocks`, `astro_frontmatter`: an element that does not end is   *)
(* the last one looked at.                                                 *)
Looked(f) == {n \in DOMAIN f.blocks : \A m \in 1..n : f.blocks[m].closed \/ f.blocks[m].tag = "frontmatter"}
ScriptBlocks(f) ==
  {n \in Looked(f) : LET b == f.blocks[n] IN
                     CASE b.tag = "script" -> ~b.void /\ b.lang # "none"
                       [] b.tag = "frontmatter" -> n = 1 /\ b.closed /\ f.ext = "astro"
                       [] OTHER -> FALSE}
ScriptLang(f) ==
  LET langs == {f.blocks[n].lang : n \in ScriptBlocks(f)}
  IN IF "Tsx" \in langs THEN "Tsx" ELSE IF "TypeScript" \in langs THEN "TypeScript" ELSE "JavaScript"
(* `script_view`.                                                          *)
ScriptItems(f) ==
  LET all == ComponentItems(f)
      own(n) == (BlockStart(f, n) + 1)..(BlockStart(f, n) + Len(f.blocks[n].items))
  IN Mapped(InSourceOrder(UNION {own(n) : n \in ScriptBlocks(f)}), LAMBDA i : all[i])
OnlyItems(f, items) ==
  [f EXCEPT !.items = items, !.uses = {u \in @ : \E i \in DOMAIN items : u[1] \in items[i].lo .. items[i].hi}]
ScriptView(f) == OnlyItems(f, ScriptItems(f))

(* `extract_component`: the component itself, which has all the imports,   *)
(* and the page it is by its place.                                        *)
Component(f, out) ==
  LET targets == {out.deps[i][2] : i \in DOMAIN out.deps}
      lone == Len(out.nodes) = 1 /\ out.nodes[1].kind = "Module"
      kept == IF lone THEN [out EXCEPT !.nodes = <<>>, !.deps = <<>>] ELSE out
      node == NodeOf(f.symbol, "ServiceClass", ServicePackage(f.where, <<>>), [lo |-> 1, hi |-> Lines(ComponentItems(f))])
  IN IF f.stem.sigil \/ \E i \in DOMAIN out.nodes : out.nodes[i].name = f.symbol THEN out
     ELSE [kept EXCEPT !.nodes = Append(@, node),
                       !.deps = @ \o Mapped(Listed(targets), LAMBDA t : <<Len(kept.nodes) + 1, t>>)]
PageNode(f, r) ==
  NodeOf(Label(r.method, r.path), "HttpEndpoint", ServicePackage(f.where, <<>>), [lo |-> 1, hi |-> Lines(ComponentItems(f))])
WithPage(f, idx) == [idx EXCEPT !.nodes = @ \o Mapped(Listed(SfcRoute(f)), LAMBDA r : PageNode(f, r))]
ExtractComponent(f, out) == [out EXCEPT !.idx = WithPage(f, Component(f, @))]

(* `extract_with_config`.                                                  *)
IsSfc(f) == f.ext \in {"vue", "svelte", "astro"}
ScriptOf(f) == IF IsSfc(f) THEN ScriptView(f) ELSE f
LangOf(f) == IF IsSfc(f) THEN ScriptLang(f) ELSE f.lang
Scriptless(f) == IsSfc(f) /\ (ScriptBlocks(f) = {} \/ f.deep)
InComponent(f, out) == IF IsSfc(f) THEN ExtractComponent(f, out) ELSE out
ExtractWithConfig(f, cfg) ==
  InComponent(f, IF Scriptless(f) THEN Extracted(NoIndex) ELSE ExtractAs(ScriptOf(f), cfg, LangOf(f)))

----------------------------------------------------------------------------
(* Declarative patterns.  A pattern is [id, kind, files, exact, valid]; a  *)
(* file has, for each, what its regex matches in order: [line, target,     *)
(* consumer], the target <<>> when its group is empty.                     *)

Compiled(patterns) == SelectSeq(patterns, LAMBDA p : p.valid)
PatternNode(f, p, m) ==
  LET node(name, kind) == NodeOf(name, kind, ServicePackage(f.where, <<>>), At1(m.line)) IN
  CASE p.kind = "producer" -> [node(Prefixed("produce:", m.target), "EventStream") EXCEPT !.site = "produce", !.topic = m.target]
    [] p.kind = "consumer" -> [node(IF m.consumer # m.target THEN m.consumer ELSE Prefixed("consume:", m.target), "PostProcessor")
                               EXCEPT !.site = "consume", !.topic = m.target]
    [] p.kind = "saga" -> node(m.target, "Saga")
    [] p.kind = "rpc" -> [node(Prefixed("rpc:", m.target), "GrpcMethod") EXCEPT !.site = "rpc", !.topic = m.target]
PatternMatch(f, out, p, m) ==
  LET at == Len(out.nodes) + 1
      fact(kind) == IF p.kind = kind THEN <<<<at, m.target>>>> ELSE <<>>
  IN [out EXCEPT !.nodes = Append(@, PatternNode(f, p, m)),
                 !.producers = @ \o fact("producer"), !.consumers = @ \o fact("consumer"),
                 !.calls = IF p.kind = "rpc" THEN Append(@, <<at, PlainCall(m.target)>>) ELSE @,
                 !.heuristic = IF p.kind \in {"producer", "consumer"} /\ ~p.exact THEN @ \cup {at} ELSE @]
ExtractCustomPatterns(f, patterns) ==
  FoldLeft(LAMBDA out, p :
             IF p.files # {} /\ f.file \notin p.files THEN out
             ELSE FoldLeft(LAMBDA o, m : IF m.target = <<>> THEN o ELSE PatternMatch(f, o, p, m), out, f.found[p.id]),
           NoIndex, Compiled(patterns))

(* The fragment of a file (`mesh-server` indexer.rs): what its language    *)
(* says, then what the patterns say.                                       *)
Extend(out, found) == [out EXCEPT !.idx = Merge(@, found)]
Fragment(f, cfg, patterns) == Extend(ExtractWithConfig(f, cfg), ExtractCustomPatterns(f, patterns))
=============================================================================
