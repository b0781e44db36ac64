---- MODULE MCContractGraph ----
(* Two repositories, four paths: a script, two sources and a .proto, each    *)
(* with two extractions or none.  They share topics (one by a constant, one  *)
(* by a wildcard), a homonym of one package, a name that is also a topic, a  *)
(* handler declared through a constant and a client field bound in a base    *)
(* class.  Routes are written with and without the prefix of their root, a   *)
(* slash, and parameters.                                                    *)
EXTENDS Topology, Dependents

N(w) == <<Word(w)>>
P(w) == <<Tok(w, "pascal")>>
Node(name, kind, pkg) ==
  [name |-> name, kind |-> kind, pkg |-> pkg, site |-> "none", topic |-> <<>>, sig |-> {}, lo |-> 1, hi |-> 1]
Users == Literal(Word("users"))
Posts == Literal(Word("posts"))
Ver == Literal(Word("v1"))
ApiSeg == Literal(Tok(<<"api">>, "pascal"))
Endpoint(name, verb, path, pkg) ==
  [Node(name, "HttpEndpoint", pkg) EXCEPT !.lo = 5, !.hi = 6] @@ [route |-> [verb |-> verb, path |-> path]]
Imp(n) == [rel |-> FALSE, path |-> TRUE, n |-> n, file |-> NoFile]
Rel(n, f) == [rel |-> TRUE, path |-> TRUE, n |-> n, file |-> f]
Index(nodes, deps, producers, consumers, calls, heuristic) ==
  [nodes |-> nodes, deps |-> deps, producers |-> producers, consumers |-> consumers,
   calls |-> calls, heuristic |-> heuristic]

Orders == N("orders")
OrdersCreated == Orders \o N("created")
OrdersAny == Orders \o N("*")
CreatedRef == P(<<"streams">>) \o <<Tok(<<"created">>, "const")>>
Bill == P(<<"bill">>)
Acme == N("acme")
Api == P(<<"api">>)
UserService == P(<<"user", "service">>)
SignUp == P(<<"sign", "up">>)
UserClient == Tok(<<"user", "client">>, "camel")
Key == <<Tok(<<"methods">>, "const"), Tok(<<"sign", "up">>, "const")>>
Base == P(<<"base">>)
Lit(v) == [lit |-> TRUE, v |-> v]
Ref(v) == [lit |-> FALSE, v |-> v]

a1 == Index(<<Node(Api, "ServiceClass", N("api")),
              [Node(<<Tok(<<"add">>, "camel")>>, "GrpcMethod", N("api")) EXCEPT !.lo = 3, !.hi = 4],
              Endpoint(N("created"), "GET", Path(TRUE, <<Users, Param>>), N("api"))>>,
            <<<<1, Imp(Acme \o Bill)>>, <<3, Imp(Acme \o Bill)>>, <<1, Rel(Bill, "b")>>>>, <<<<1, OrdersCreated>>>>, <<>>,
            <<<<2, [k |-> "handler", svc |-> Lit(UserService), mth |-> Ref(Key)]>>,
              <<3, [k |-> "plain", n |-> P(<<"user">>)]>>>>, {})
a2 == Index(<<Node(Api, "ServiceClass", N("api")),
              [Node(<<Tok(<<"produce:created">>, "const")>>, "EventStream", N("api"))
                 EXCEPT !.site = "produce", !.topic = CreatedRef],
              Endpoint(N("post"), "POST", Path(TRUE, <<ApiSeg, Users>>), N("api")),
              Endpoint(N("list"), "GET", Path(TRUE, <<Users>>), N("api")), Node(Bill, "Interface", N("api"))>>,
            <<<<1, Imp(Orders)>>, <<1, Imp(Bill)>>>>, <<<<2, CreatedRef>>>>, <<<<1, OrdersAny>>>>,
            <<<<1, [k |-> "inherited", base |-> Base, field |-> UserClient,
                    method |-> <<Tok(<<"sign", "up">>, "camel")>>]>>>>, {2})
b1 == Index(<<Node(Bill, "ServiceClass", Acme), Endpoint(N("get"), "GET", Path(FALSE, <<Users, Param>>), N("api"))>>,
            <<<<2, Imp(Acme \o Bill)>>>>, <<<<1, OrdersCreated>>>>, <<<<1, N("created")>>>>,
            <<<<1, [k |-> "const", key |-> Key, value |-> SignUp]>>>>, {})
b2 == Index(<<Node(Bill, "ServiceClass", Acme), Node(Base, "ServiceClass", Acme),
              Node(P(<<"orders", "saga">>), "Saga", Acme)>>, <<>>,
            <<<<1, Orders>>>>, <<<<3, OrdersCreated>>>>,
            <<<<2, [k |-> "field", field |-> UserClient, service |-> UserService]>>,
              <<1, [k |-> "exact", n |-> UserService \o SignUp]>>>>, {})
c1 == Index(<<Node(Bill, "ServiceClass", Acme), Node(Orders, "KafkaTopic", N("shop")),
              Node(N("c"), "Module", N("shop")), Endpoint(N("all"), "GET", Path(TRUE, <<Users, Optional, Posts>>), N("shop"))>>,
            <<<<3, Imp(Acme \o Bill)>>>>,
            <<<<1, Orders \o N("paid")>>>>, <<<<2, Orders>>, <<2, OrdersAny>>>>, <<>>, {})
c2 == Index(<<Node(P(<<"relay">>), "ServiceClass", N("shop")), Node(UserService, "GrpcService", N("relay")),
              [Node(SignUp, "GrpcMethod", N("shop")) EXCEPT !.site = "rpc"]>>,
            <<<<1, Imp(Acme \o Bill)>>, <<1, Imp(N("created"))>>>>, <<<<1, OrdersCreated>>>>, <<<<1, OrdersAny>>>>,
            <<<<1, [k |-> "plain", n |-> P(<<"user">>)]>>, <<1, [k |-> "plain", n |-> P(<<"health">>)]>>>>, {})
p1 == Index(<<[Node(UserService, "GrpcService", N("user")) EXCEPT !.hi = 9],
              [Node(UserService \o SignUp, "GrpcMethod", N("user")) EXCEPT !.lo = 2, !.hi = 2]>>,
            <<>>, <<>>, <<>>, <<>>, {})
p2 == Index(<<Node(UserService \o SignUp, "GrpcMethod", N("shop")),
              Node(P(<<"health">>), "GrpcService", Health)>>,
            <<>>, <<>>, <<>>, <<>>, {})

MCFiles == <<"a", "b", "c", "p">>
MCAttr == [a |-> [repo |-> "r1", proto |-> FALSE, script |-> TRUE],
           b |-> [repo |-> "r1", proto |-> FALSE, script |-> FALSE],
           c |-> [repo |-> "r2", proto |-> FALSE, script |-> FALSE],
           p |-> [repo |-> "r2", proto |-> TRUE, script |-> FALSE]]
MCContents == [a |-> {"a1", "a2"}, b |-> {"b1", "b2"}, c |-> {"c1", "c2"}, p |-> {"p1", "p2"}]
MCExtracted == [a1 |-> a1, a2 |-> a2, b1 |-> b1, b2 |-> b2, c1 |-> c1, c2 |-> c2, p1 |-> p1, p2 |-> p2]
MCFirstSeen(c) == /\ c.p = "p1" /\ c.c = "c2"
                  /\ (c.a = NoFile) = (c.b = NoFile) /\ (c.a = "a1") = (c.b = "b1")
MCTargets == {Orders, OrdersCreated, N("created"), Bill, UserService, SignUp, UserService \o SignUp}
(* /v1, but /Api in r1; a glob over both is less specific.                  *)
MCPrefixConfig ==
  [workspace |-> Path(TRUE, <<Ver>>),
   keys |-> {[exact |-> {"r1"}, glob |-> {}, len |-> 2, order |-> 1, path |-> Path(FALSE, <<ApiSeg>>)],
             [exact |-> {}, glob |-> {"r1"}, len |-> 5, order |-> 2, path |-> NoPath]}]
MCRouteQuestions ==
  {[verb |-> v, path |-> Path(TRUE, p)] :
     v \in {"GET", "POST", "any"},
     p \in {<<Users>>, <<Ver, Users, Literal(Word("42"))>>, <<ApiSeg, Users>>, <<ApiSeg, Users, Literal(Word("42"))>>}}
MCGroupOrder == <<Acme, N("api"), N("created"), Health, Orders, OrdersAny, OrdersCreated, Orders \o N("paid"),
                  N("r1"), N("r2"), N("relay"), N("shop"), N("user")>>
MCTestFiles == {"b"}
MCSorted == <<N("created"), Bill, Acme \o Bill, Orders, OrdersAny, OrdersCreated, Orders \o N("paid")>>

(* No content declares a stream in the package of the hubs, as the theorem *)
(* about GraphFollowsFiles asks, no import is spelt like a hub, as the one *)
(* about DerivedTwiceSettles does, and no prefix has a query string, as    *)
(* the one about RoutesAnswered does.                                      *)
ASSUME HubPackageKept == HubsReserved
ASSUME ImportsKeptApart == ImportsApart
ASSUME PrefixesKept == PlainPrefixes
=============================================================================
