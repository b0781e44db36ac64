---- MODULE ScriptRoutes ----
(***************************************************************************)
(* HTTP routes (js_frameworks/http.rs) and typed API layers (api.rs) as    *)
(* JavaScript declares them: registrations on an app or a router, with the *)
(* prefixes of groups, plugins and mounts; decorated controllers; tRPC     *)
(* procedures and GraphQL resolvers.  More syntax nodes:                   *)
(*   "pair" key, val: a property, inside the value of a "var" or a "pair". *)
(* A path is its segments, after a Slash when it begins with one.  The     *)
(* receiver `a.b().c()` is the path a.b.c with the arguments of b.         *)
(***************************************************************************)
EXTENDS ScriptEvents

CONSTANTS MaxPrefixes,          \* 4
          MaxMountsPerRouter    \* 64

HttpFamilies ==
  {{<<"express">>}, {<<"fastify">>}, {<<"@koa", "router">>, <<"koa-router">>}, {<<"hono">>}, {<<"elysia">>}, {<<"h3">>},
   {<<"restify">>}, {<<"polka">>}, {<<"itty-router">>}, {<<"@hapi", "hapi">>, <<"hapi">>}}
HttpClients == {<<"axios">>, <<"got">>, <<"ky">>, <<"superagent">>, <<"supertest">>, <<"node-fetch">>, <<"undici">>, <<"ofetch">>,
                <<"needle">>, <<"request">>, <<"@angular", "common", "http">>}
RouteVerbs == [get |-> "get", post |-> "post", put |-> "put", patch |-> "patch", delete |-> "delete", del |-> "delete",
               head |-> "head", options |-> "options", all |-> "all", any |-> "all"]
Methods == {"get", "post", "put", "patch", "delete", "head", "options", "all"}
RouteFact(method, path) == [method |-> method, path |-> path]
LooksLikeRouter(key) ==
  Last(key.w) \in {"app", "router", "routers", "route", "routes", "server", "fastify", "hono", "elysia", "koa"}

(* `join`: `/users/` and `/users` are one route.                           *)
Star == Word("*")
TrimEnd(p) == IF p # <<>> /\ Last(p) = Slash THEN Front(p) ELSE p
TrimStart(p) == IF p # <<>> /\ p[1] = Slash THEN Tail(p) ELSE p
PathLike(p) == p # <<>> /\ p[1] \in {Slash, Star}
Absolute(p) == IF PathLike(p) THEN p ELSE <<Slash>> \o p
Unended(p) == IF Len(p) > 1 THEN TrimEnd(p) ELSE p
Join(prefix, path) == Unended(Absolute(TrimEnd(prefix) \o TrimStart(path)))
IsHandler(x) == x.e \in {"fn", "ref", "call"}
(* `route_paths` lets an empty path through as well, which `resolve_inner` *)
(* never gives.                                                            *)
RoutePaths(f, at, x) == SelectSeq(ResolveAll(f, at, x), LAMBDA p : PathLike(p) \/ p = <<>>)
MethodsOf(f, at, x) ==
  Gather(ResolveAll(f, at, x), LAMBDA n :
    IF n = <<Star>> THEN <<"all">> ELSE IF Len(n) = 1 /\ n[1].w[1] \in Methods THEN <<n[1].w[1]>> ELSE <<>>)

----------------------------------------------------------------------------
(* `enclosing_scopes`: the `group` and `register` callbacks around a call. *)
Parent(f, i) == Max({0} \cup {j \in Above(f, i) : f.items[j].d = f.items[i].d - 1})
PrefixExpression(call) ==
  CASE call.k = "call" /\ call.name = "group" -> Arg(call, 1)
    [] call.k = "call" /\ call.name = "register" -> ObjectValue(Arg(call, 2), "prefix")
    [] OTHER -> Nothing
ScopePrefix(f, j) == Resolve(f, j, PrefixExpression(f.items[j]))
Scopes(f, i) ==
  SelectSeq(InSourceOrder({j \in Above(f, i) : f.items[j].k = "fn"}), LAMBDA j :
    Parent(f, j) # 0 /\ ScopePrefix(f, Parent(f, j)) # <<>>)
FunctionScope(f, i) == Max({0} \cup {j \in Above(f, i) : f.items[j].k \in {"func", "fn", "method"}})

(* `collect_mounts`: where a router of the file is mounted, on what, and   *)
(* in which function.  A mount without a parent has <<>> for one.          *)
MountWritten(it) ==
  LET mount(router, prefix, parent) == <<[router |-> router, prefix |-> prefix, parent |-> parent]>>
  IN CASE it.k = "var" /\ it.val.e = "new" -> mount(Last(it.name), ObjectValue(Arg(it.val, 1), "prefix"), <<>>)
       [] it.k = "var" /\ it.val.e = "call" /\ Last(it.val.v) = Camel(<<"base", "path">>) ->
            mount(Last(it.name), Arg(it.val, 1), <<Last(Front(it.val.v))>>)
       [] it.k = "call" /\ it.name \in {"use", "route"} /\ it.on # Nothing /\ Len(it.args) >= 2 /\ Last(it.args).e = "ref" ->
            mount(ReceiverKey(Last(it.args)), it.args[1], <<ReceiverKey(it.on)>>)
       [] OTHER -> <<>>
MountAt(f, i) ==
  SelectSeq(Mapped(MountWritten(f.items[i]), LAMBDA m : [scope |-> FunctionScope(f, i)] @@ [m EXCEPT !.prefix = Resolve(f, i, @)]),
            LAMBDA m : m.prefix # <<>>)
Mounts(f) == Once(Gather(Positions(f), LAMBDA i : MountAt(f, i)))
MountsOf(mounts, router) ==
  LET all == SelectSeq(mounts, LAMBDA m : m.router = router) IN SubSeq(all, 1, Min({Len(all), MaxMountsPerRouter}))

(* `mounted_prefixes`: through nested mounts, memoised per router and      *)
(* scope unless a cycle cut it; the mounts of the use's own function       *)
(* first.  AnyScope stands for no scope.                                   *)
AnyScope == -1
Whole == [out |-> <<<<>>>>, cut |-> FALSE]
(* Mutant: prefixes found inside a cycle are remembered too.               *)
MemoisedAlways(cache, key, r) == (key :> r.out) @@ cache
Memoised(cache, key, r) == IF r.cut THEN cache ELSE (key :> r.out) @@ cache
AddPrefix(out, p) == IF Len(out) >= MaxPrefixes \/ Contains(out, p) THEN out ELSE Append(out, p)
UnderMount(a, m, up) ==
  [out |-> FoldLeft(LAMBDA out, p : AddPrefix(out, Join(p, m.prefix)), a.out, up.out), cut |-> a.cut \/ up.cut, cache |-> up.cache]
MountsSeen(entries, scope) ==
  LET here == SelectSeq(entries, LAMBDA m : scope = AnyScope \/ m.scope = scope) IN IF here = <<>> THEN entries ELSE here
Remember(key, r) == [r EXCEPT !.cache = Memoised(@, key, r)]
RECURSIVE PrefixesFrom(_, _, _, _, _)
PrefixesFrom(mounts, cache, router, scope, path) ==
  CASE <<router, scope>> \in DOMAIN cache -> [out |-> cache[<<router, scope>>], cut |-> FALSE, cache |-> cache]
    [] <<router, scope>> \notin DOMAIN cache /\ MountsOf(mounts, router) = <<>> -> Whole @@ [cache |-> cache]
    [] <<router, scope>> \notin DOMAIN cache /\ MountsOf(mounts, router) # <<>> /\ Contains(path, router) ->
         [out |-> <<<<>>>>, cut |-> TRUE, cache |-> cache]
    [] OTHER ->
         Remember(<<router, scope>>,
           FoldLeft(LAMBDA a, m :
                      IF Len(a.out) >= MaxPrefixes THEN a
                      ELSE UnderMount(a, m, IF m.parent = <<>> THEN Whole @@ [cache |-> a.cache]
                                            ELSE PrefixesFrom(mounts, a.cache, m.parent[1], AnyScope, Append(path, router))),
                    [out |-> <<>>, cut |-> FALSE, cache |-> cache], MountsSeen(MountsOf(mounts, router), scope)))
NoMemo == [k \in {} |-> <<>>]

----------------------------------------------------------------------------
(* `chain_base_path`: the `route('/p')` under `route('/p').get(h)`.        *)
RouteWord == Word("route")
ChainedRoute(on) ==
  /\ on.e = "call" /\ Len(on.v) > 1 /\ on.args # <<>>
  /\ \E k \in 2..Len(on.v) : /\ on.v[k] = RouteWord
                            /\ \A n \in (k + 1)..Len(on.v) : Len(on.v[n].w) = 1 /\ on.v[n].w[1] \in DOMAIN RouteVerbs
WhenPath(path) == IF PathLike(path) THEN path ELSE <<>>
ChainBase(f, i, on) == IF ChainedRoute(on) THEN WhenPath(Resolve(f, i, on.args[1])) ELSE <<>>
BaseReceiver(on) == [e |-> "ref", v |-> SubSeq(on.v, 1, (CHOOSE k \in DOMAIN on.v : on.v[k] = RouteWord) - 1)]

FrameworkCtor(f, x, libs) == x.e \in {"call", "new"} /\ ValueOf(f, x.v[1], libs)
HttpImported(f) == {libs \in HttpFamilies : ReferencesAny(f, libs)}
(* Whether a call is made on an app or a router.                           *)
SaidRouter(key, verdicts) == "yes" \in verdicts \/ (verdicts = {"unsaid"} /\ LooksLikeRouter(key))
IsRouter(f, scopes, receiver) ==
  LET key == ReceiverKey(receiver)
  IN /\ ~ValueOf(f, key, HttpClients)
     /\ \/ \E n \in DOMAIN scopes : f.items[scopes[n]].params # <<>> /\ f.items[scopes[n]].params[1] = key
        \/ FrameworkCtor(f, receiver, UNION HttpImported(f))
        \/ SaidRouter(key, {IsClient(f, libs, key) : libs \in HttpImported(f)})

(* `detect_routes`: what is registered, before its prefixes.               *)
FirstGiven(x, y) == IF x = Nothing THEN y ELSE x
RouteObject(f, i, o) ==
  Gather(SelectSeq(<<Resolve(f, i, FirstGiven(ObjectValue(o, "url"), ObjectValue(o, "path")))>>, PathLike), LAMBDA path :
    Mapped(IF ObjectValue(o, "method") = Nothing THEN <<"all">> ELSE MethodsOf(f, i, ObjectValue(o, "method")),
           LAMBDA m : RouteFact(m, path)))
(* `get(path, handler)` or `get(name, path, handler)`.                     *)
NamedPaths(f, i, args, first) ==
  IF first = <<>> /\ Len(args) >= 3 /\ Resolve(f, i, args[1]) # <<>> THEN RoutePaths(f, i, args[2]) ELSE first
VerbPaths(f, i, args, base) ==
  IF base # <<>> THEN <<base>> ELSE IF Len(args) < 2 THEN <<>> ELSE NamedPaths(f, i, args, RoutePaths(f, i, args[1]))
Registered(f, i, base) ==
  LET it == f.items[i]
      args == it.args
      handled == args # <<>> /\ IsHandler(Last(args))
  IN CASE it.name \in DOMAIN RouteVerbs ->
            IF handled THEN Mapped(VerbPaths(f, i, args, base), LAMBDA p : RouteFact(RouteVerbs[it.name], p)) ELSE <<>>
       [] it.name = "route" /\ args # <<>> ->
            Gather(IF args[1].e = "list" THEN args[1].v ELSE <<args[1]>>, LAMBDA o : RouteObject(f, i, o))
       [] it.name = "on" /\ Len(args) >= 3 /\ handled ->
            Gather(RoutePaths(f, i, args[2]), LAMBDA p : Mapped(MethodsOf(f, i, args[1]), LAMBDA m : RouteFact(m, p)))
       [] OTHER -> <<>>
(* The prefixes of the callbacks around a call, and of the constructor it  *)
(* is chained on.                                                          *)
OwnPrefixes(f, i, receiver, scopes) ==
  Known(<<IF receiver.e = "new" /\ FrameworkCtor(f, receiver, UNION HttpImported(f))
          THEN Resolve(f, i, ObjectValue(Arg(receiver, 1), "prefix")) ELSE <<>>>>)
    \o Mapped(scopes, LAMBDA j : ScopePrefix(f, Parent(f, j)))
(* The routes of a call, and the memo after it.                            *)
RoutesUnder(registered, up, own) ==
  [routes |-> Once(Gather(registered, LAMBDA r : Mapped(up.out, LAMBDA p : RouteFact(r.method, Join(FoldLeft(Join, p, own), r.path))))),
   memo |-> up.cache]
RoutesOn(f, i, memo, base, receiver, scopes) ==
  IF ~IsRouter(f, scopes, receiver) THEN [routes |-> <<>>, memo |-> memo]
  ELSE RoutesUnder(Registered(f, i, base),
                   PrefixesFrom(Mounts(f), memo, ReceiverKey(receiver), FunctionScope(f, i), <<>>),
                   OwnPrefixes(f, i, receiver, scopes))
RoutesAbove(f, i, memo, base) ==
  RoutesOn(f, i, memo, base, IF base # <<>> THEN BaseReceiver(f.items[i].on) ELSE f.items[i].on, Scopes(f, i))
DetectRoutes(f, i, memo) ==
  IF \/ f.items[i].on = Nothing \/ f.items[i].name \notin DOMAIN RouteVerbs \cup {"route", "on"} \/ HttpImported(f) = {}
  THEN [routes |-> <<>>, memo |-> memo]
  ELSE RoutesAbove(f, i, memo, ChainBase(f, i, f.items[i].on))

----------------------------------------------------------------------------
(* `decorator_route`.                                                      *)
VerbDecorators ==
  [d \in {Pascal(<<v>>) : v \in Methods} \cup {Camel(<<"http", v>>) : v \in Methods} |-> Last(d.w)]
DecoratorLibs == {<<"@nestjs", "common">>, <<"routing-controllers">>, <<"tsoa">>, <<"inversify-express-utils">>, <<"@tsed", "schema">>,
                  <<"@tsed", "common">>, <<"@overnightjs", "core">>, <<"@decorators", "express">>, <<"@midwayjs", "core">>,
                  <<"@midwayjs", "decorator">>}
ControllerDecorators == {Pascal(<<"controller">>), Pascal(<<"json", "controller">>), Pascal(<<"route">>), Word("controller")}
Decs(f, i) == InSourceOrder(Attached(f, i, "dec"))
(* {} when the path is not known.                                          *)
DecoratorPath(f, j) ==
  LET arg == Arg(f.items[j], 1)
  IN IF arg = Nothing THEN {<<>>}
     ELSE IF arg.e = "obj" THEN {Resolve(f, j, ObjectValue(arg, "path"))}
     ELSE ToSet(FirstOf(ResolveAll(f, j, arg)))
Only(paths) == IF paths = {} THEN <<>> ELSE CHOOSE p \in paths : TRUE
ControllerPrefix(f, i) ==
  LET classes == {j \in Above(f, i) : f.items[j].k = "class"}
      decs == SelectSeq(Decs(f, Max(classes)), LAMBDA j : f.items[j].name \in ControllerDecorators)
  IN IF classes = {} \/ decs = <<>> THEN <<>> ELSE Only(DecoratorPath(f, decs[1]))
Foreign == RouteFact("foreign", <<>>)
DecoratorRoute(f, i) ==
  LET verbs == Reverse(SelectSeq(Decs(f, i), LAMBDA j : f.items[j].name \in DOMAIN VerbDecorators))
      name == f.items[verbs[1]].name
  IN IF verbs = <<>> THEN {}
     ELSE IF IsValue(f, name) /\ ~ValueOf(f, name, DecoratorLibs) THEN {Foreign}
     ELSE {RouteFact(VerbDecorators[name], Join(ControllerPrefix(f, i), p)) : p \in DecoratorPath(f, verbs[1])}

----------------------------------------------------------------------------
(* tRPC: the keys of the routers around a procedure, inline or through     *)
(* variables of the file.                                                  *)
Operations == {Pascal(<<"query">>), Pascal(<<"mutation">>), Pascal(<<"subscription">>)}
HasWordT(t, w) == w \in ToSet(t.w)
IsProcedure(f, it) ==
  /\ it.k = "pair" /\ it.val.e = "call" /\ Last(it.val.v) \in {Word("query"), Word("mutation"), Word("subscription")}
  /\ HasWordT(it.val.v[1], "procedure") \/ (Len(it.val.v) > 1 /\ HasWordT(it.val.v[2], "procedure"))
  /\ \E u \in f.uses : HasWordT(u[2][1], "trpc")
(* The items whose `router({...})` call holds an item, innermost last.     *)
RouterAbove(f, i) == LET p == Parent(f, i) IN p # 0 /\ f.items[p].k \in {"pair", "var"} /\ f.items[p].val.e = "call"
RECURSIVE RouterKeys(_, _)
RouterKeys(f, i) ==
  IF ~RouterAbove(f, i) THEN [keys |-> <<>>, var |-> <<>>]
  ELSE LET p == Parent(f, i)
           up == RouterKeys(f, p)
       IN IF f.items[p].k = "var" THEN [keys |-> <<>>, var |-> f.items[p].name]
          ELSE [up EXCEPT !.keys = Append(@, f.items[p].key)]
RouterMount(f, var) ==
  {i \in OfKind(f, "pair") : f.items[i].val.e = "ref" /\ f.items[i].val.v = var /\ RouterAbove(f, i)}
RECURSIVE OuterKeys(_, _, _)
OuterKeys(f, var, seen) ==
  IF var = <<>> \/ var \in seen \/ Cardinality(seen) >= 8 \/ RouterMount(f, var) = {} THEN <<>>
  ELSE LET i == Min(RouterMount(f, var))
           p == f.items[Parent(f, i)]
       IN OuterKeys(f, IF p.k = "var" THEN p.name ELSE <<>>, seen \cup {var}) \o <<f.items[i].key>>
TrpcProcedure(f, i) ==
  LET it == f.items[i] r == RouterKeys(f, i) IN
  IF ~IsProcedure(f, it) THEN {}
  ELSE {[op |-> Last(it.val.v), path |-> OuterKeys(f, r.var, {}) \o r.keys \o <<it.key>>]}

(* GraphQL: the fields of a `resolvers` map, and decorated methods.        *)
GraphqlDecoratorLibs == {<<"@nestjs", "graphql">>, <<"type-graphql">>}
GraphqlLibs == {<<"graphql">>, <<"graphql-tag">>, <<"@apollo", "server">>, <<"@apollo", "subgraph">>, <<"apollo-server">>,
                <<"apollo-server-express">>, <<"apollo-server-core">>, <<"graphql-yoga">>, <<"@graphql-yoga">>, <<"@graphql-tools">>,
                <<"mercurius">>, <<"@pothos">>, <<"@nestjs", "graphql">>, <<"@nestjs", "apollo">>}
IsResolvers(f, p) ==
  CASE p # 0 /\ f.items[p].k = "var" -> f.items[p].val.e = "obj" /\ \E w \in {"resolver", "resolvers"} : HasWordT(f.items[p].name[1], w)
    [] p # 0 /\ f.items[p].k = "pair" -> f.items[p].val.e = "obj" /\ f.items[p].key = Word("resolvers")
    [] OTHER -> FALSE
GraphqlMapFields(f, i, budget) ==
  LET it == f.items[i]
      fields == InSourceOrder({j \in Children(f, i) : f.items[j].k \in {"pair", "method"}})
      key(j) == IF f.items[j].k = "pair" THEN f.items[j].key ELSE Last(f.items[j].name)
  IN IF \/ it.k # "pair" \/ it.val.e # "obj" \/ it.key \notin Operations \/ ~IsResolvers(f, Parent(f, i))
        \/ ~ReferencesAny(f, GraphqlLibs) THEN <<>>
     ELSE Mapped(SubSeq(fields, 1, Min({budget, Len(fields)})), LAMBDA j :
            [op |-> it.key, path |-> <<key(j)>>, lo |-> f.items[j].lo, hi |-> f.items[j].hi])
GraphqlDecorator(f, i) ==
  LET telling == Reverse(SelectSeq(Decs(f, i), LAMBDA j :
                   /\ ValueOf(f, f.items[j].name, GraphqlDecoratorLibs) /\ f.locals[f.items[j].name].imported \in Operations))
      d == f.items[telling[1]]
      optional == Known(Mapped(d.args, LAMBDA x : Resolve(f, i, ObjectValue(x, "name"))))
      literal == IF d.args # <<>> /\ d.args[1].e = "lit" THEN <<d.args[1].v>> ELSE <<>>
  IN IF telling = <<>> THEN {}
     ELSE {[op |-> f.locals[d.name].imported, path |-> (optional \o literal \o <<f.items[i].name>>)[1]]}
=============================================================================
