---- MODULE FileRoutes ----
(***************************************************************************)
(* Routes that a file's location declares (js_frameworks/file_routes.rs):  *)
(* Next.js, Remix, SvelteKit, Nuxt and Astro, each also asking for a sign  *)
(* in the file.  A script has dirs and a stem; a segment is [n, k, up]: a  *)
(* name, what its brackets make of it ("plain", "param", "rest",           *)
(* "optional", "optional rest", "group"), and how far an intercepting      *)
(* marker goes up (Root: all the way).  More syntax nodes:                 *)
(*   "export" names, default, calls    "route" name, path, children        *)
(* where a default export may call a handler, or a list of "route" calls.  *)
(***************************************************************************)
EXTENDS ScriptRoutes

Root == 99
FileVerbs == <<"GET", "POST", "PUT", "PATCH", "DELETE", "HEAD", "OPTIONS">>
Scripts == {"ts", "tsx", "js", "jsx", "mjs", "cjs", "mts", "cts"}

(* `exported_names`: a name, and the statement that exports it last.       *)
Exporting(f) == {i \in OfKind(f, "export") : f.items[i].d = 0}
Exports(f, n) == {i \in Exporting(f) : n \in f.items[i].names}
ExportLines(f, n) == LET it == f.items[Max(Exports(f, n))] IN [lo |-> it.lo, hi |-> it.hi]
DefaultCalls(f) == UNION {f.items[i].calls : i \in Exports(f, "default")}

(* `dynamic_segment`, `route_of`.                                          *)
SegmentTok(s) ==
  CASE s.k = "plain" -> Word(s.n)
    [] s.k = "param" -> Tok(<<":", s.n>>, "lower")
    [] s.k = "rest" -> Tok(<<"*", s.n>>, "lower")
    [] s.k = "optional" -> Tok(<<":", s.n, "?">>, "lower")
    [] s.k = "optional rest" -> Tok(<<"*", s.n, "?">>, "lower")
RouteOf(segs) ==
  <<Slash>> \o FoldLeft(LAMBDA p, s :
                 LET kept == SubSeq(p, 1, Max({0, Len(p) - s.up})) IN
                 IF s.k = "group" THEN kept ELSE Append(kept, SegmentTok(s)), <<>>, segs)
(* `remix_route`: the dotted parts of a flat file; "index" and pathless    *)
(* parts leave nothing.                                                    *)
RemixRoute(parts) == RouteOf(SelectSeq(parts, LAMBDA s : s.k \notin {"index", "pathless"}))

(* The directories after the first marker, or after the first pair.        *)
Marked(dirs, i, n) == dirs[i].k = "plain" /\ dirs[i].n = n
After(dirs, marker) == {i \in DOMAIN dirs : Marked(dirs, i, marker)}
AfterPair(dirs, parent, marker) == {i \in 2..Len(dirs) : Marked(dirs, i, marker) /\ Marked(dirs, i - 1, parent)}
Rest(dirs, at) == SubSeq(dirs, Min(at) + 1, Len(dirs))

FileFact(method, path, lines) == [method |-> method, path |-> path, lo |-> lines.lo, hi |-> lines.hi]
VerbsAt(f, route) ==
  Mapped(SelectSeq(FileVerbs, LAMBDA v : Exports(f, v) # {}), LAMBDA v : FileFact(v, route, ExportLines(f, v)))
Given(f, name, method, route) ==
  IF Exports(f, name) = {} THEN <<>> ELSE <<FileFact(method, route, ExportLines(f, name))>>
Leaf(f) == IF f.stem.n = "index" THEN <<>> ELSE <<f.stem>>

NitroHandlers == {"defineEventHandler", "eventHandler", "defineNuxtRouteHandler", "defineCachedEventHandler",
                  "defineWebSocketHandler", "defineLazyEventHandler", "cachedEventHandler"}
Nitro(f, prefix, at) ==
  IF at = {} \/ DefaultCalls(f) \cap NitroHandlers = {} THEN <<>>
  ELSE Given(f, "default", IF f.verb = "none" THEN "ALL" ELSE f.verb, RouteOf(prefix \o Rest(f.dirs, at) \o Leaf(f)))
PlainSegment(n) == [n |-> n, k |-> "plain", up |-> 0]

SvelteKit(f) ==
  LET at == AfterPair(f.dirs, "src", "routes")
      route == RouteOf(Rest(f.dirs, at))
  IN IF f.stem.n = "+server" THEN VerbsAt(f, route)
     ELSE IF f.stem.n \in {"+page", "+page.server"} THEN Given(f, "actions", "POST", route) ELSE <<>>
NextApp(f) ==
  LET at == After(f.dirs, "app")
      rest == IF at = {} THEN <<>> ELSE Rest(f.dirs, at)
  IN CASE at = {} \/ \E i \in DOMAIN rest : rest[i].private -> <<>>
       [] at # {} /\ f.stem.n = "route" /\ ~\E i \in DOMAIN rest : rest[i].private -> VerbsAt(f, RouteOf(rest))
       [] at # {} /\ f.stem.n = "page" /\ ~\E i \in DOMAIN rest : rest[i].private ->
            IF ReferencesAny(f, {<<"next">>}) THEN Given(f, "default", "PAGE", RouteOf(rest)) ELSE <<>>
       [] OTHER -> <<>>
(* A flat file, or one folder with a `route` or `index` in it; a pathless  *)
(* layout is no route.                                                     *)
RemixParts(f, rest) ==
  IF rest = <<>> THEN {f.parts}
  ELSE IF Len(rest) = 1 /\ f.stem.n \in {"route", "index"} THEN {rest[1].parts} ELSE {}
Remix(f) ==
  LET at == AfterPair(f.dirs, "app", "routes")
      parts == IF at = {} THEN {} ELSE {p \in RemixParts(f, Rest(f.dirs, at)) : Last(p).k # "pathless"}
      route == RemixRoute(CHOOSE p \in parts : TRUE)
  IN IF parts = {} \/ ~ReferencesAny(f, {<<"@remix-run">>, <<"react-router">>, <<"@react-router">>}) THEN <<>>
     ELSE Given(f, "loader", "GET", route) \o Given(f, "action", "POST", route) \o Given(f, "default", "PAGE", route)
Pages(f) ==
  LET at == After(f.dirs, "pages")
      astro == AfterPair(f.dirs, "src", "pages")
      rest == Rest(f.dirs, at)
      verbs == VerbsAt(f, RouteOf(Rest(f.dirs, IF astro = {} THEN at ELSE astro) \o Leaf(f)))
      method == IF rest # <<>> /\ Marked(rest, 1, "api") THEN "ALL" ELSE "PAGE"
  IN IF at = {} THEN <<>>
     ELSE IF verbs # <<>> /\ ReferencesAny(f, {<<"astro">>}) THEN verbs
     ELSE IF ReferencesAny(f, {<<"next">>}) /\ ~f.stem.private /\ f.stem.n # "middleware"
     THEN Given(f, "default", method, RouteOf(rest \o Leaf(f))) ELSE <<>>

(* `react_router_config`: a list of calls, nested under the prefix each    *)
(* adds; the first route of a path counts.                                 *)
RECURSIVE ConfigRoutes(_, _, _)
ConfigRoutes(f, list, prefix) ==
  Gather(list, LAMBDA i :
    LET it == f.items[i]
        children == InSourceOrder({j \in Children(f, i) : f.items[j].k = "route"})
        page(p) == <<FileFact("PAGE", p, it)>>
        under(p) == ConfigRoutes(f, children, p)
    IN CASE it.name = "index" -> page(Join(prefix, <<>>))
         [] it.name = "route" /\ it.path # <<>> -> page(Join(prefix, it.path)) \o under(Join(prefix, it.path))
         [] it.name = "layout" \/ (it.name = "route" /\ it.path = <<>>) -> under(prefix)
         [] it.name = "prefix" -> under(Join(prefix, it.path)))
OncePerPath(facts) ==
  FoldLeft(LAMBDA out, x : IF \E i \in DOMAIN out : out[i].path = x.path THEN out ELSE Append(out, x), <<>>, facts)
ReactRouterConfig(f) ==
  OncePerPath(ConfigRoutes(f, InSourceOrder({i \in OfKind(f, "route") : f.items[i].d = 1}), <<>>))

(* `path_may_route`, `detect_file_routes`, `file_routes`: the first        *)
(* convention that says anything.                                          *)
PathMayRoute(f) == f.stem.sigil \/ \E m \in {"app", "pages", "routes", "api"} : After(f.dirs, m) # {}
FirstSaid(answers) == LET said == SelectSeq(answers, LAMBDA a : a # <<>>) IN IF said = <<>> THEN <<>> ELSE said[1]
DetectFileRoutes(f) ==
  CASE ~PathMayRoute(f) -> <<>>
    [] PathMayRoute(f) /\ f.stem.n = "routes" /\ ReferencesAny(f, {<<"@react-router", "dev", "routes">>}) -> ReactRouterConfig(f)
    [] OTHER ->
         IF Exporting(f) = {} \/ f.ext \notin Scripts THEN <<>>
         ELSE IF f.stem.sigil /\ AfterPair(f.dirs, "src", "routes") # {} THEN SvelteKit(f)
         ELSE FirstSaid(<<NextApp(f),
                          Nitro(f, <<PlainSegment("api")>>, AfterPair(f.dirs, "server", "api")),
                          Nitro(f, <<>>, AfterPair(f.dirs, "server", "routes")),
                          Remix(f), Pages(f)>>)

(* `sfc_route`: the page a component is, by its place alone.               *)
SfcRoute(f) ==
  LET svelte == AfterPair(f.dirs, "src", "routes")
      astro == AfterPair(f.dirs, "src", "pages")
  IN CASE f.ext = "svelte" /\ f.stem.n = "+page" /\ svelte # {} -> {RouteFact("PAGE", RouteOf(Rest(f.dirs, svelte)))}
       [] f.ext = "astro" /\ astro # {} /\ ~f.stem.private /\ ~\E i \in DOMAIN Rest(f.dirs, astro) : Rest(f.dirs, astro)[i].private ->
            {RouteFact("PAGE", RouteOf(Rest(f.dirs, astro) \o Leaf(f)))}
       [] OTHER -> {}
=============================================================================
