---- MODULE MCReaders ----
(***************************************************************************)
(* Files of every language the readers know, of up to four fragments; a    *)
(* small script project with nested configs; a schema of one message.      *)
(***************************************************************************)
EXTENDS Readers

Silent == [role |-> "none", x |-> <<>>]
It(k) == [k |-> k, d |-> 0, nl |-> TRUE, m |-> {}, says |-> Silent]
Sends(role, x) == [role |-> role, x |-> x]
Deeper(it) == [it EXCEPT !.d = @ + 1]
Frag(under, items) == [items |-> items, under |-> under, depths |-> 0..9, block |-> 0]
PathFrag(items) == [Frag({"key"}, items) EXCEPT !.depths = {1}]
Lit(n) == [e |-> "lit", v |-> n]
Ref(n) == [e |-> "ref", v |-> n]
Other == [e |-> "other", v |-> <<>>]

Orders == <<Word("orders")>>
Bills == <<Word("bills")>>
Refunds == <<Word("refunds")>>
Legacy == <<Word("legacy")>>
Stores == <<Pascal(<<"store">>)>>
User == Pascal(<<"user">>)
TOPIC == <<Tok(<<"topic">>, "const")>>

----------------------------------------------------------------------------
GoFunc(n, recv) == It("func") @@ [name |-> n, recv |-> recv, http |-> FALSE, getenv |-> FALSE, returns |-> <<>>]
GoCall(on, n, args) == It("call") @@ [on |-> on, name |-> n, args |-> args]
GoLit(n) == Lit(n) @@ [path |-> FALSE]
GoFragments ==
  {Frag({"top"}, <<It("package") @@ [name |-> <<Word("shop")>>], [It("import") EXCEPT !.m = {}] @@ [name |-> <<Word("kafka")>>, ref |-> <<Word("kafka")>>, blank |-> FALSE]>>),
   Frag({"top"}, <<It("spec") @@ [name |-> TOPIC, val |-> Lit(Orders)]>>),
   Frag({"top"}, <<It("spec") @@ [name |-> TOPIC, val |-> [e |-> "call", v |-> <<Camel(<<"get", "topic">>)>>]],
                   [GoFunc(<<Camel(<<"get", "topic">>)>>, <<>>) EXCEPT !.getenv = TRUE, !.returns = Orders]>>),
   Frag({"top"}, <<It("type") @@ [name |-> Stores, iface |-> FALSE]>>),
   Frag({"top", "func"}, <<GoFunc(<<Word("run")>>, <<>>)>>),
   Frag({"top"}, <<GoFunc(<<Word("serve")>>, Stores)>>),
   Frag({"top", "func"}, <<[GoCall(Word("w"), Pascal(<<"write", "messages">>), <<GoLit(Bills)>>)
                              EXCEPT !.says = Sends("produce", <<Lit(Bills)>>)]>>),
   Frag({"top", "func"}, <<[GoCall(Word("r"), Pascal(<<"subscribe", "topics">>), <<[e |-> "list", v |-> <<Lit(Orders), Lit(Bills)>>]>>)
                              EXCEPT !.says = Sends("consume", <<Lit(Orders), Lit(Bills)>>)]>>),
   Frag({"top", "func"}, <<[It("struct") EXCEPT !.says = Sends("produce", <<Ref(TOPIC)>>)]
                             @@ [name |-> Pascal(<<"writer", "config">>), topic |-> Ref(TOPIC), inner |-> [e |-> "none", v |-> <<>>]]>>),
   Frag({"func"}, <<GoCall(Word("pb"), Pascal(<<"new", "user", "client">>), <<>>)>>),
   Frag({"func"}, <<GoCall(Word("pb"), Pascal(<<"register", "user", "server">>), <<Other, [e |-> "struct", v |-> Stores]>>)>>),
   Frag({"func"}, <<GoCall(Word("r"), Pascal(<<"get">>), <<Lit(Orders) @@ [path |-> TRUE], Other>>)>>)}

----------------------------------------------------------------------------
Anno(n, params) == [name |-> n, params |-> params]
Param(p, e) == [p |-> p, e |-> e]
Class(n) == It("class") @@ [name |-> n, iface |-> FALSE, base |-> <<>>, annos |-> <<>>]
Method(n, annos) == It("method") @@ [name |-> n, mods |-> annos # <<>>, annos |-> annos]
JvmCall(on, n, args) == It("call") @@ [on |-> on, name |-> n, args |-> args, block |-> FALSE]
KafkaTemplate == Camel(<<"kafka", "template">>)
JavaFragments ==
  {Frag({"top"}, <<It("package") @@ [name |-> <<Word("shop")>>],
                   It("import") @@ [name |-> <<Word("util")>> \o Stores, style |-> "plain"],
                   It("import") @@ [name |-> <<Word("util")>> \o Stores \o Orders, style |-> "static"]>>),
   Frag({"top", "class"}, <<[Class(Stores) EXCEPT !.m = {Stores}]>>),
   Frag({"top"}, <<[Class(<<User>>) EXCEPT !.base = <<Pascal(<<"user", "grpc">>), Pascal(<<"user", "impl", "base">>)>>],
                   Deeper(It("ctor")),
                   [JvmCall(Pascal(<<"user", "grpc">>), Camel(<<"new", "stub">>), <<>>) EXCEPT !.d = 2]>>),
   Frag({"class"}, <<[Method(<<Word("listen")>>, <<Anno("KafkaListener", <<Param("topics", Lit(Orders)), Param("groupId", Lit(Legacy))>>)>>)
                        EXCEPT !.says = Sends("consume", <<Lit(Orders)>>)]>>),
   Frag({"class"}, <<[Method(<<Word("hear")>>, <<Anno("KafkaListener", <<Param("topics", Ref(TOPIC))>>)>>)
                        EXCEPT !.says = Sends("consume", <<Ref(TOPIC)>>)]>>),
   Frag({"class"}, <<[Method(<<Word("heed")>>, <<Anno("KafkaListener", <<Param("topics", Ref(TOPIC)), Param("groupId", Lit(Legacy))>>)>>)
                        EXCEPT !.says = Sends("consume", <<Ref(TOPIC)>>)]>>),
   Frag({"class"}, <<Method(<<Word("run")>>, <<>>)>>),
   Frag({"class"}, <<Method(<<Word("list")>>, <<Anno("GetMapping", <<>>)>>)>>),
   Frag({"method"}, <<[JvmCall(KafkaTemplate, Word("send"), <<Lit(Bills)>>) EXCEPT !.says = Sends("produce", <<Lit(Bills)>>)]>>),
   Frag({"method"}, <<[JvmCall(KafkaTemplate, Word("send"), <<Lit(Refunds)>>) EXCEPT !.says = Sends("produce", <<Lit(Refunds)>>)]>>),
   Frag({"method"}, <<[JvmCall(Word("mailer"), Word("send"), <<Lit(Legacy)>>) EXCEPT !.m = {BareOf(Stores)}]>>)}
KotlinFragments ==
  {Frag({"top"}, <<It("package") @@ [name |-> <<Word("shop")>>]>>),
   Frag({"top"}, <<Class(Stores)>>),
   Frag({"class"}, <<It("prop") @@ [name |-> TOPIC, val |-> Lit(Orders)]>>),
   Frag({"class"}, <<[Method(<<Word("listen")>>, <<Anno("KafkaListener", <<Param("topics", [e |-> "list", v |-> <<Lit(Orders)>>])>>)>>)
                        EXCEPT !.says = Sends("consume", <<Lit(Orders)>>)]>>),
   Frag({"class"}, <<[Method(<<Word("hear")>>, <<Anno("KafkaListener", <<Param("topics", [e |-> "list", v |-> <<Ref(TOPIC)>>])>>)>>)
                        EXCEPT !.says = Sends("consume", <<Ref(TOPIC)>>)]>>),
   Frag({"class", "method"}, <<Method(<<Word("run")>>, <<>>)>>),
   Frag({"class", "method"}, <<[JvmCall(KafkaTemplate, Word("send"), <<[e |-> "wrap", v |-> <<Lit(Bills), Other>>]>>)
                        EXCEPT !.says = Sends("produce", <<Lit(Bills)>>)]>>),
   Frag({"method"}, <<[JvmCall(Word("consumer"), Word("subscribe"), <<Ref(TOPIC)>>) EXCEPT !.says = Sends("consume", <<Ref(TOPIC)>>)]>>),
   Frag({"method"}, <<JvmCall(Camel(<<"mail", "box">>), Word("send"), <<Lit(Legacy)>>)>>)}
ScalaFragments ==
  {Frag({"top"}, <<Class(Stores)>>), Frag({"top"}, <<[Class(<<User>>) EXCEPT !.iface = TRUE]>>),
   Frag({"class"}, <<[JvmCall(Word(""), Word("path"), <<Lit(Orders)>>) EXCEPT !.block = TRUE]>>),
   Frag({"class", "call"}, <<JvmCall(Word(""), Word("get"), <<>>)>>),
   Frag({"call"}, <<JvmCall(Word(""), Word("post"), <<>>)>>)}

----------------------------------------------------------------------------
WebClass(n, base) == It("class") @@ [name |-> n, base |-> base]
WebMethod(n, route) == It("method") @@ [name |-> n, underscore |-> FALSE, route |-> route]
WebCall(on, n) == It("call") @@ [on |-> on, name |-> n, args |-> <<Lit(Orders)>>, statement |-> TRUE]
WebFragments ==
  {Frag({"top"}, <<WebClass(<<Pascal(<<"store", "controller">>)>>, <<>>)>>), Frag({"top", "module"}, <<WebClass(Stores, <<>>)>>),
   Frag({"top"}, <<It("module") @@ [name |-> <<User>>]>>),
   Frag({"class", "iface", "module"}, <<WebMethod(<<Word("list")>>, <<>>)>>),
   Frag({"class", "method"}, <<WebMethod(<<Camel(<<"handle", "order">>)>>, Orders)>>),
   Frag({"top", "method", "class"}, <<WebCall(Pascal(<<"route">>), Word("get"))>>),
   Frag({"top"}, <<It("iface") @@ [name |-> <<User>>], Deeper(WebCall(Word("app"), Word("resource")))>>)}

----------------------------------------------------------------------------
Kw(kw, e) == e @@ [kw |-> kw]
PyCallOn(on, n, args) == It("call") @@ [on |-> on, name |-> n, args |-> args]
PyDec(on, n, args) == It("dec") @@ [on |-> on, name |-> n, args |-> args, bare |-> FALSE]
PyDef(n) == It("func") @@ [name |-> n]
PyFragments ==
  {Frag({"top"}, <<It("import") @@ [name |-> <<Word("shop"), Word("bus")>>, ref |-> <<Word("bus")>>, module |-> FALSE]>>),
   Frag({"top"}, <<It("assign") @@ [name |-> TOPIC, val |-> Lit(Orders)]>>),
   Frag({"top", "func"}, <<It("class") @@ [name |-> <<Pascal(<<"user", "servicer">>)>>]>>),
   Frag({"top", "class", "func"}, <<PyDef(<<Word("run")>>)>>),
   Frag({"top"}, <<PyDec(<<Word("celery")>>, Word("task"), <<>>), [PyDef(<<Word("job")>>) EXCEPT !.says = Sends("consume", <<Lit(<<Word("job")>>)>>)]>>),
   Frag({"top"}, <<PyDec(<<Word("app")>>, Word("route"), <<Kw("none", Lit(Orders)), Kw("methods", [e |-> "list", v |-> <<Lit(<<Word("post")>>)>>])>>),
                   PyDef(<<Word("list")>>)>>),
   Frag({"top", "func"}, <<[PyCallOn(<<Word("bus")>>, Word("send"), <<Kw("none", Lit(Bills))>>)
                              EXCEPT !.says = Sends("produce", <<Lit(Bills)>>), !.m = {<<Word("bus")>>}]>>),
   Frag({"func"}, <<[PyCallOn(<<Word("bus")>>, Word("publish"), <<Kw("topic", Ref(TOPIC))>>) EXCEPT !.says = Sends("produce", <<Ref(TOPIC)>>)]>>),
   Frag({"func"}, <<[PyCallOn(<<Word("c")>>, Word("subscribe"), <<Kw("none", [e |-> "list", v |-> <<Lit(Orders), Lit(Refunds)>>])>>)
                       EXCEPT !.says = Sends("consume", <<Lit(Orders), Lit(Refunds)>>)]>>),
   Frag({"func"}, <<[PyCallOn(<<Word("job")>>, Word("delay"), <<>>) EXCEPT !.says = Sends("produce", <<Lit(<<Word("job")>>)>>)]>>),
   Frag({"top", "func"}, <<PyCallOn(<<Tok(<<"user", "pb2", "grpc">>, "snake")>>, Pascal(<<"user", "stub">>), <<>>)>>)}

----------------------------------------------------------------------------
RustFn(n) == It("fn") @@ [name |-> n]
Args(xs) == [args |-> xs]
RustFragments ==
  {Frag({"top"}, <<It("use") @@ [tree |-> [path |-> <<Word("shop")>>, group |-> <<[path |-> Stores, group |-> <<>>], [path |-> <<Word("self")>>, group |-> <<>>]>>]]>>),
   Frag({"top"}, <<It("struct") @@ [name |-> Stores]>>),
   Frag({"top"}, <<It("attr") @@ [verb |-> "none", tonic |-> TRUE, lits |-> <<>>],
                   It("impl") @@ [name |-> <<User>>, generic |-> FALSE]>>),
   Frag({"top"}, <<It("attr") @@ [verb |-> "get", tonic |-> FALSE, lits |-> <<Orders>>], RustFn(<<Word("list")>>)>>),
   Frag({"top", "impl", "fn"}, <<[RustFn(<<Word("run")>>) EXCEPT !.m = {Stores}]>>),
   Frag({"top"}, <<It("trait") @@ [name |-> <<User>>], It("crate") @@ [name |-> <<Word("bus")>>], It("proto") @@ [name |-> <<Word("pb")>>]>>),
   Frag({"fn"}, <<[It("subscribe") EXCEPT !.says = Sends("consume", <<Lit(Orders), Lit(Refunds)>>)] @@ Args(<<Lit(Orders), Lit(Refunds)>>)>>),
   Frag({"fn"}, <<[It("subscribe") EXCEPT !.says = Sends("consume", <<Lit(Bills)>>)] @@ Args(<<Lit(Bills)>>)>>),
   Frag({"fn"}, <<[It("record") EXCEPT !.says = Sends("produce", <<Lit(Bills)>>)] @@ Args(<<Lit(Bills)>>)>>),
   Frag({"fn"}, <<It("route") @@ [args |-> <<Other>>, verb |-> "get"]>>)}

----------------------------------------------------------------------------
Space(n) == It("namespace") @@ [name |-> n]
CppFragments ==
  {Frag({"top"}, <<It("include") @@ [name |-> Stores, local |-> TRUE]>>), Frag({"top", "namespace"}, <<Space(<<Word("shop")>>)>>),
   Frag({"top", "namespace"}, <<It("class") @@ [name |-> Stores, body |-> TRUE, base |-> <<<<Word("grpc"), Word("service")>>>>]>>),
   Frag({"top", "namespace"}, <<It("class") @@ [name |-> <<User>>, body |-> TRUE, base |-> <<>>]>>),
   Frag({"class"}, <<It("decl") @@ [method |-> TRUE, pure |-> TRUE]>>),
   Frag({"top", "namespace", "class"}, <<[It("func") EXCEPT !.m = {Stores}] @@ [name |-> <<Camel(<<"handle", "order">>)>>, of |-> Stores, special |-> FALSE, dtor |-> FALSE]>>),
   Frag({"top", "namespace"}, <<It("func") @@ [name |-> <<Camel(<<"handle", "bill">>)>>, of |-> <<>>, special |-> FALSE, dtor |-> FALSE]>>)}
CsCall(n, args) == It("call") @@ [name |-> n, args |-> args]
CsFragments ==
  {Frag({"top"}, <<Space(<<Word("shop")>>)>>),
   Frag({"top", "namespace", "class"}, <<It("class") @@ [name |-> Stores, iface |-> FALSE]>>),
   Frag({"class"}, <<It("method") @@ [name |-> <<Word("run")>>, attrs |-> {}]>>),
   Frag({"class"}, <<It("method") @@ [name |-> <<Word("list")>>, attrs |-> {"HttpGet"}]>>),
   Frag({"top", "class", "method"}, <<[CsCall(Pascal(<<"produce", "async">>), <<Lit(Bills), Other>>) EXCEPT !.says = Sends("produce", <<Lit(Bills)>>)]>>),
   Frag({"method"}, <<[CsCall(Pascal(<<"produce">>), <<[e |-> "list", v |-> <<Lit(Refunds)>>]>>) EXCEPT !.says = Sends("produce", <<Lit(Refunds)>>)]>>),
   Frag({"method"}, <<[CsCall(Pascal(<<"subscribe">>), <<Other, Lit(Orders)>>) EXCEPT !.says = Sends("consume", <<Lit(Orders)>>)]>>)}

----------------------------------------------------------------------------
Scalar(t) == [t |-> t, n |-> <<>>]
ProtoFragments ==
  {Frag({"top"}, <<It("package") @@ [name |-> <<Word("shop")>>], It("import") @@ [name |-> <<Word("types")>>]>>),
   Frag({"top"}, <<It("service") @@ [name |-> Stores]>>),
   Frag({"service"}, <<It("rpc") @@ [name |-> <<Pascal(<<"get", "order">>)>>]>>),
   Frag({"top", "message"}, <<It("message") @@ [name |-> <<User>>]>>),
   Frag({"message"}, <<It("oneof") @@ [name |-> Bills]>>)}

----------------------------------------------------------------------------
Key(n, plain) == It("key") @@ [name |-> n, plain |-> plain]
Under(it, d) == [it EXCEPT !.d = d]
OnSameLine(it) == [it EXCEPT !.nl = FALSE]
GetKey(plain) == Key(Word("get"), plain)
YamlFragments ==
  {Frag({"top"}, <<Key(Word("paths"), TRUE), Under(Key(Word("/a"), TRUE), 1), OnSameLine(Under(GetKey(FALSE), 2))>>),
   Frag({"top"}, <<Key(Word("info"), TRUE), Under(It("text"), 1) @@ [name |-> Word("get")], Key(Word("paths"), TRUE)>>),
   PathFrag(<<Key(Word("/b"), TRUE), Under(Key(Word("description"), TRUE), 1),
                   Under(It("text"), 2) @@ [name |-> Word("get")], Under(GetKey(TRUE), 1)>>),
   PathFrag(<<Key(Word("/c"), FALSE), Under(GetKey(TRUE), 1)>>),
   PathFrag(<<Key(Word("/d"), TRUE), OnSameLine(Under(GetKey(FALSE), 1)), OnSameLine(Under(Key(Word("post"), FALSE), 1))>>),
   Frag({"top"}, <<Key(Word("channels"), TRUE), Under(Key(Word("orders"), TRUE), 1), Under(Key(Word("bills"), FALSE), 1)>>),
   Frag({"top"}, <<Key(Word("topics"), TRUE), Under(It("entry"), 1) @@ [name |-> Word("refunds"), plain |-> TRUE]>>)}

----------------------------------------------------------------------------
(* Scripts.                                                                *)
Maybe(n) == [e |-> "maybe", v |-> n]
Name(imported, local) == [imported |-> imported, local |-> local, type |-> FALSE]
Importing(module, names) ==
  [It("import") EXCEPT !.m = {<<names[n].local>> : n \in DOMAIN names}] @@ [module |-> module, names |-> names, type |-> FALSE]
CallTo(path, args) == [e |-> "call", v |-> path, args |-> args, generic |-> <<>>]
New(path, args) == [e |-> "new", v |-> path, args |-> args]
Obj(key, x) == [e |-> "obj", v |-> <<[k |-> <<Word(key)>>, x |-> x]>>]
Var(n, val) ==
  [It("var") EXCEPT !.m = {n} \cup IF val.e \in {"new", "call"} THEN {<<val.v[1]>>} ELSE {}]
    @@ [name |-> n, const |-> TRUE, val |-> val, types |-> {}]
Func(n, params) == It("func") @@ [name |-> n, params |-> params]
ScriptCall(on, name, args) ==
  [It("call") EXCEPT !.m = {<<on.v[1]>>}] @@ [on |-> on, name |-> name, args |-> args, generic |-> <<>>]
Dec(n, args) == [It("dec") EXCEPT !.m = {<<n>>}] @@ [name |-> n, args |-> args]
TsClass(n) == It("class") @@ [name |-> n, base |-> <<>>, export |-> TRUE]
TsMethod(n) == It("method") @@ [name |-> n, params |-> <<>>, sigdecs |-> <<>>]
Default == Word("default")
Handler == [e |-> "fn", v |-> <<>>]
Saying(it, role, x) == [it EXCEPT !.says = Sends(role, x)]
RedisName == Pascal(<<"redis">>)
SRedis == Ref(<<Word("redis")>>)
Events ==
  {Frag({"top"}, <<Importing(<<"ioredis">>, <<Name(Default, RedisName)>>), Var(<<Word("redis")>>, New(<<RedisName>>, <<>>))>>),
   Frag({"top", "func"}, <<Var(TOPIC, Lit(Orders))>>),
   Frag({"func"}, <<Var(TOPIC, Lit(Refunds))>>),
   Frag({"top"}, <<Func(<<Word("run")>>, <<>>)>>),
   Frag({"top", "func"}, <<Func(<<Word("emit")>>, <<TOPIC[1]>>)>>),
   Frag({"func"}, <<Saying(ScriptCall(SRedis, "publish", <<Ref(TOPIC)>>), "produce", <<Ref(TOPIC)>>)>>),
   Frag({"func"}, <<Saying(ScriptCall(Ref(<<Word("bus")>>), "publish", <<Lit(Bills)>>), "produce", <<Maybe(Bills)>>)>>),
   Frag({"func"}, <<Saying(ScriptCall(Ref(<<Word("producer")>>), "send", <<Obj("topic", Lit(Bills))>>), "produce", <<Lit(Bills)>>)>>),
   Frag({"top", "func"}, <<Saying(Var(<<Word("w")>>, New(<<WorkerClass>>, <<Lit(Orders)>>)), "consume", <<Lit(Orders)>>)>>)}
Decorated ==
  {Frag({"top"}, <<Importing(<<"@nestjs", "bull">>, <<Name(Pascal(<<"processor">>), Pascal(<<"processor">>))>>),
                   Dec(Pascal(<<"processor">>), <<Lit(Orders)>>), Saying(TsClass(Stores), "consume", <<Lit(Orders)>>)>>),
   Frag({"top"}, <<TsClass(<<User>>)>>),
   Frag({"class"}, <<Dec(Pattern("event"), <<Lit(Bills)>>), Saying(TsMethod(<<Word("paid")>>), "consume", <<Lit(Bills)>>)>>),
   Frag({"class"}, <<Dec(Pascal(<<"grpc", "method">>), <<Lit(<<User>>), Lit(<<Pascal(<<"find">>)>>)>>), TsMethod(<<Word("find")>>)>>),
   Frag({"top"}, <<Importing(<<"@nestjs", "common">>, <<Name(Pascal(<<"get">>), Pascal(<<"get">>))>>),
                   Dec(Pascal(<<"controller">>), <<Lit(<<Slash>> \o Orders)>>), TsClass(<<Pascal(<<"desk">>)>>)>>),
   Frag({"class"}, <<Dec(Pascal(<<"get">>), <<Lit(<<Slash>> \o Bills)>>), TsMethod(<<Word("one")>>)>>),
   Frag({"method"}, <<Saying(ScriptCall(Ref(<<Word("producer")>>), "send", <<Obj("topic", Lit(Refunds))>>), "produce", <<Lit(Refunds)>>)>>),
   Frag({"top"}, <<It("enum") @@ [name |-> Bills, members |-> <<[k |-> TOPIC, x |-> Lit(Orders)]>>],
                   It("iface") @@ [name |-> Refunds], It("type") @@ [name |-> Legacy, client |-> <<>>],
                   It("sig") @@ [name |-> Orders, ambient |-> TRUE]>>)}
AppWord == Word("app")
RouterWord == Word("router")
Mounted(on, at, router) == ScriptCall(Ref(<<on>>), "use", <<Lit(<<Slash>> \o at), Ref(<<router>>)>>)
Registration(on, at) == ScriptCall(Ref(<<on>>), "get", <<Lit(<<Slash>> \o at), Handler>>)
RouteFragments ==
  {Frag({"top"}, <<Importing(<<"express">>, <<Name(Default, Word("express"))>>), Var(<<AppWord>>, CallTo(<<Word("express")>>, <<>>)),
                   Var(<<RouterWord>>, CallTo(<<Word("express"), Pascal(<<"router">>)>>, <<>>)),
                   Mounted(AppWord, Orders, RouterWord), Mounted(RouterWord, Bills, AppWord)>>),
   Frag({"top"}, <<Importing(<<"express">>, <<Name(Default, Word("express"))>>), Var(<<AppWord>>, CallTo(<<Word("express")>>, <<>>)),
                   Mounted(AppWord, Legacy, RouterWord)>>),
   Frag({"top", "func"}, <<Registration(AppWord, Refunds)>>),
   Frag({"top", "func"}, <<Registration(RouterWord, Refunds)>>),
   Frag({"top", "func"}, <<Mounted(AppWord, Orders, RouterWord)>>),
   Frag({"top"}, <<Func(<<Word("run")>>, <<>>)>>),
   Frag({"top"}, <<ScriptCall(Ref(<<AppWord>>), "group", <<Lit(<<Slash>> \o Orders)>>), Deeper(It("fn") @@ [params |-> <<RouterWord>>]),
                   [Registration(RouterWord, Bills) EXCEPT !.d = 2]>>),
   Frag({"top"}, <<[Var(<<RouterWord>>, CallTo(<<RouterWord>>, <<>>)) EXCEPT !.m = {<<Word("trpc")>>}],
                   Deeper(It("pair") @@ [key |-> Word("list"), val |-> CallTo(<<Word("procedure"), Word("query")>>, <<>>)])>>),
   Frag({"top"}, <<Importing(<<"graphql">>, <<>>), Var(<<Word("resolvers")>>, [e |-> "obj", v |-> <<>>]),
                   Deeper(It("pair") @@ [key |-> Pascal(<<"query">>), val |-> [e |-> "obj", v |-> <<>>]]),
                   Under(It("pair") @@ [key |-> Word("list"), val |-> Handler], 2)>>)}
UserClient == Pascal(<<"user", "client">>)
ClientWord == Word("client")
Clients ==
  {Frag({"top"}, <<Importing(<<"pb">>, <<Name(UserClient, UserClient)>>), Var(<<ClientWord>>, New(<<UserClient>>, <<>>))>>),
   Frag({"top"}, <<Func(<<Word("run")>>, <<>>)>>), Frag({"top"}, <<Func(<<Word("stop")>>, <<>>)>>),
   Frag({"top", "func", "method"}, <<ScriptCall(Ref(<<ClientWord>>), "find", <<>>)>>),
   Frag({"func"}, <<Var(<<Word("own")>>, New(<<UserClient>>, <<>>))>>),
   Frag({"top"}, <<TsClass(Stores), Deeper(It("field") @@ [name |-> <<Camel(<<"user", "client">>)>>, static |-> FALSE, val |-> Nothing, types |-> {},
                                                         inject |-> FALSE, client |-> <<UserClient>>, typed |-> TRUE, open |-> TRUE])>>),
   Frag({"top"}, <<[TsClass(<<User>>) EXCEPT !.base = Stores]>>),
   Frag({"class"}, <<TsMethod(<<Word("find")>>), Deeper(ScriptCall(Ref(<<This, Camel(<<"user", "client">>)>>), "find", <<>>))>>),
   Frag({"method"}, <<[It("assign") @@ [name |-> <<This, Camel(<<"bill", "service">>)>>,
                                        val |-> CallTo(<<This, ClientWord, GetService>>, <<Lit(Bills)>>)] EXCEPT !.m = {}]>>),
   Frag({"top", "method"}, <<It("require") @@ [module |-> <<"fs">>, names |-> <<Name(Word("read"), Word("read"))>>, type |-> FALSE, dyn |-> FALSE]>>)}
Export(names) == It("export") @@ [names |-> names, default |-> "default" \in names, calls |-> {}, from |-> <<>>, declares |-> FALSE]
Located ==
  {Frag({"top"}, <<Export({"GET"}), OnSameLine(Func(<<Tok(<<"get">>, "const")>>, <<>>))>>),
   Frag({"top"}, <<Export({"POST"}), OnSameLine(Func(<<Tok(<<"post">>, "const")>>, <<>>))>>),
   Frag({"top"}, <<Importing(<<"next">>, <<>>)>>), Frag({"top"}, <<[Export({}) EXCEPT !.from = <<"lib">>]>>),
   Frag({"top"}, <<[Export({"default"}) EXCEPT !.declares = TRUE]>>),
   Frag({"top"}, <<It("cjs") @@ [targets |-> <<Bills, Orders>>, declares |-> TRUE]>>),
   Frag({"top"}, <<It("namespace") @@ [name |-> Bills, named |-> TRUE], Deeper(Func(<<Word("run")>>, <<>>)),
                   It("load") @@ [module |-> <<"fs">>, names |-> <<>>, type |-> FALSE, dyn |-> TRUE]>>)}
Block(tag, lang, void, closed, items) ==
  [items |-> <<>>, under |-> {"top"}, depths |-> {0}, block |-> [tag |-> tag, lang |-> lang, void |-> void, closed |-> closed, items |-> items]]
Blocks ==
  {Block("other", "none", FALSE, TRUE, <<It("text")>>), Block("comment", "none", FALSE, TRUE, <<Func(<<Word("old")>>, <<>>)>>),
   Block("comment", "none", FALSE, FALSE, <<It("text")>>),
   Block("script", "TypeScript", TRUE, TRUE, <<>>), Block("script", "none", FALSE, TRUE, <<It("text")>>),
   Block("script", "TypeScript", FALSE, TRUE, <<Importing(<<"lib">>, <<>>), Func(<<Word("run")>>, <<>>)>>),
   Block("script", "JavaScript", FALSE, TRUE, <<Importing(<<"other">>, <<>>)>>),
   Block("frontmatter", "TypeScript", FALSE, TRUE, <<Func(<<Word("load")>>, <<>>)>>)}

----------------------------------------------------------------------------
Segment(n) == [n |-> n, k |-> "plain", up |-> 0, private |-> FALSE, sigil |-> FALSE]
Dirs(names) == [i \in DOMAIN names |-> Segment(names[i])]
File(lang) ==
  [lang |-> lang, items |-> <<>>, uses |-> {}, blocks |-> <<>>, parse |-> "whole", tsx |-> [parse |-> "whole", items |-> <<>>],
   where |-> <<[name |-> <<Word("svc")>>, manifest |-> FALSE, declares |-> <<>>, role |-> "plain"]>>,
   file |-> <<Word("main")>>, symbol |-> <<Word("main")>>, stem |-> Segment("main"), dirs |-> <<>>, ext |-> "ts", verb |-> "none",
   parts |-> <<>>, looks |-> {"asyncapi", "openapi"}, routes |-> TRUE, generated |-> FALSE, deep |-> FALSE,
   found |-> [p \in {"bus"} |-> <<[line |-> 1, target |-> Legacy, consumer |-> Legacy]>>]]
Routed(lang, dirs, stem, ext) == [File(lang) EXCEPT !.dirs = Dirs(dirs), !.stem = Segment(stem), !.ext = ext]
Blanks ==
  [go |-> File("Go"), java |-> File("Java"), kotlin |-> File("Kotlin"), scala |-> File("Scala"), ruby |-> File("Ruby"),
   php |-> File("Php"), swift |-> File("Swift"), python |-> [File("Python") EXCEPT !.stem = <<Word("main")>>], rust |-> File("Rust"),
   cpp |-> File("Cpp"), csharp |-> File("CSharp"), proto |-> File("Protobuf"), yaml |-> File("Yaml"),
   events |-> File("TypeScript"), decorated |-> File("TypeScript"), routes |-> File("TypeScript"), clients |-> File("TypeScript"),
   located |-> Routed("Tsx", <<"app", "orders">>, "route", "ts"),
   flow |-> [File("JavaScript") EXCEPT !.parse = "errors", !.tsx.parse = "failed"],
   vue |-> Routed("Vue", <<>>, "main", "vue"),
   astro |-> Routed("Astro", <<"src", "pages", "orders">>, "index", "astro")]
AllFragments ==
  [go |-> GoFragments, java |-> JavaFragments, kotlin |-> KotlinFragments, scala |-> ScalaFragments, ruby |-> WebFragments,
   php |-> WebFragments, swift |-> WebFragments, python |-> PyFragments, rust |-> RustFragments, cpp |-> CppFragments,
   csharp |-> CsFragments, proto |-> ProtoFragments, yaml |-> YamlFragments, events |-> Events, decorated |-> Decorated,
   routes |-> RouteFragments, clients |-> Clients, located |-> Located, flow |-> Clients, vue |-> Blocks, astro |-> Blocks]
Settings ==
  [annotations |-> <<Pascal(<<"grpc", "method">>)>>, aliases |-> (<<"lib">> :> <<Word("."), Word("lib")>>), canonical |-> TRUE,
   protoDirs |-> {}, openapi |-> {}, asyncapi |-> {}, inferTopics |-> TRUE]
BusPattern == <<[id |-> "bus", kind |-> "producer", files |-> {<<Word("main")>>}, exact |-> FALSE, valid |-> TRUE]>>
OpenerKinds == {"func", "class", "method", "fn", "impl", "namespace", "service", "message", "module", "iface", "key", "call"}

----------------------------------------------------------------------------
(* A project with a config at its root, one below that inherits, one that  *)
(* inherits and takes the paths back, one that only a package.json governs,*)
(* and a root within the root whose config inherits from outside of it.    *)
ConfigFile(path, extends, base, paths, imports) ==
  path :> [extends |-> extends, base |-> base, paths |-> paths, imports |-> imports, real |-> path]
Entry(pattern, target) == [pattern |-> pattern, targets |-> <<target>>]
MCRoots == {<<"w">>, <<"w", "src", "x">>}
TopConfig == <<"w", "tsconfig.json">>
MCDisk ==
  ConfigFile(TopConfig, <<>>, <<"src">>, {<<Entry(<<"@", Wild>>, <<Wild>>), Entry(<<"@", "lib", Wild>>, <<"lib", Wild>>)>>}, <<>>)
  @@ ConfigFile(<<"w", "app", "tsconfig.json">>, <<TopConfig>>, <<"code">>, {}, <<>>)
  @@ ConfigFile(<<"w", "app", "ui", "package.json">>, <<>>, <<>>, {},
                <<Entry(<<Hash, "log">>, <<Here, "log">>), Entry(<<"@", "lib", Wild>>, <<Here, "own", Wild>>)>>)
  @@ ConfigFile(<<"w", "bare", "tsconfig.json">>, <<TopConfig>>, <<>>, {<<>>}, <<>>)
  @@ ConfigFile(<<"w", "src", "x", "tsconfig.json">>, <<TopConfig>>, <<>>, {}, <<>>)
MCAliasScripts == {<<"w", "a.ts">>, <<"w", "app", "ui", "b.ts">>, <<"w", "app", "ui", "deep", "c.ts">>, <<"w", "src", "x", "d.ts">>, <<"w", "bare", "g.ts">>, <<"out", "e.ts">>}
MCAliasSpecifiers == {<<"@", "store">>, <<"@", "lib", "log">>, <<Hash, "log">>, <<Here, "near">>}

----------------------------------------------------------------------------
FieldItem(name, number, card, t) ==
  Statement("field", 1, [name |-> name, number |-> number, card |-> card, type |-> Scalar(t), key |-> Scalar("string")])
ValueItem(name, number) == Statement("value", 1, [name |-> name, number |-> number])
MCFirstSchema ==
  [parse |-> "whole",
   items |-> <<Statement("enum", 0, [name |-> Stores]), ValueItem(Legacy, 0), ValueItem(Orders, 1),
               Statement("message", 0, [name |-> Orders]), FieldItem(Refunds, 2, "singular", "string"),
               Statement("oneof", 1, [name |-> Legacy]),
               Under(FieldItem(Bills, 1, "singular", "int32"), 2), Under(FieldItem(Legacy, 3, "singular", "bool"), 2)>>]
MCSchemaItems ==
  {FieldItem(Bills, 1, "singular", t) : t \in {"int32", "sint32", "int64"}}
  \cup {FieldItem(Bills, 1, "repeated", "int32"), FieldItem(Refunds, 1, "singular", "int64"),
        FieldItem(Bills, 2, "singular", "string"), FieldItem(Refunds, 2, "singular", "string"),
        FieldItem(Refunds, 2, "repeated", "bytes"), FieldItem(Refunds, 2, "map", "string"),
        [FieldItem(Refunds, 2, "singular", "bytes") EXCEPT !.type = [t |-> "named", n |-> Orders]],
        ValueItem(Orders, 1), ValueItem(Bills, 1), ValueItem(Bills, 2)}
=============================================================================
