---- MODULE ScriptEvents ----
(***************************************************************************)
(* Brokers, queues and buses as JavaScript libraries expose them           *)
(* (js_frameworks/mod.rs, messaging.rs): rules that say which module a     *)
(* file must load, which call, constructor or decorator it is, which side  *)
(* of a topic it is on, and how the name is read off the arguments.        *)
(* A site is [at, on, args]: an item, the receiver, the arguments.         *)
(***************************************************************************)
EXTENDS ScriptScope

Slash == Word("/")
Digits == {Word("0"), Word("5")}
Numeric(n) == \A i \in DOMAIN n : n[i] \in Digits
ConnectionString(n) == Word("endpoint=") \in ToSet(n)

----------------------------------------------------------------------------
(* How a rule reads names off a site.                                      *)

Arg(s, n) == IF Len(s.args) >= n THEN s.args[n] ELSE Nothing
Strings(f, s, xs) == Known(Mapped(xs, LAMBDA x : Resolve(f, s.at, x)))
NamesOf(f, s, xs) == Gather(xs, LAMBDA x : ResolveAll(f, s.at, x))
Elements(x) == IF x.e = "list" THEN x.v ELSE <<>>
TopicOfEach(x) == Mapped(Elements(x), LAMBDA o : ObjectValue(o, "topic"))
(* ioredis lists keys and then as many ids after STREAMS; node-redis gives *)
(* objects with both.                                                      *)
StreamKeys(s) ==
  Mapped(SelectSeq(Gather(s.args, LAMBDA x : IF x.e = "list" THEN x.v ELSE <<x>>), LAMBDA o : ObjectValue(o, "id") # Nothing),
         LAMBDA o : ObjectValue(o, "key"))
AfterMark(s, m) == SubSeq(s.args, m + 1, m + ((Len(s.args) - m) \div 2))
StreamReads(f, s) ==
  LET marks == {i \in DOMAIN s.args : Lower(Resolve(f, s.at, s.args[i])) = <<Word("streams")>>}
  IN IF marks = {} THEN NamesOf(f, s, StreamKeys(s)) ELSE Strings(f, s, AfterMark(s, Min(marks)))
EventBusEntries(s) ==
  Mapped(Elements(ObjectValue(Arg(s, 1), "Entries")), LAMBDA o :
    IF ObjectValue(o, "DetailType") # Nothing THEN ObjectValue(o, "DetailType") ELSE ObjectValue(o, "EventBusName"))
FirstOf(s) == SubSeq(s, 1, Min({1, Len(s)}))
(* The expressions a rule looks at, and what it makes of their names.      *)
Keyed(s, keys) == Mapped(keys, LAMBDA k : ObjectValue(Arg(s, 1), k))
Sources(s, how) ==
  CASE how \in {"first", "queue", "filters"} -> <<Arg(s, 1)>>
    [] how = "second" -> <<Arg(s, 2)>>
    [] how \in {"all", "keys"} -> s.args
    [] how = "topic" -> Keyed(s, <<"topic">>)
    [] how = "topics" -> Keyed(s, <<"topic", "topics">>)
    [] how = "batch" -> TopicOfEach(ObjectValue(Arg(s, 1), "topicMessages"))
    [] how = "messages" -> TopicOfEach(ObjectValue(Arg(s, 1), "messages"))
    [] how = "each" -> TopicOfEach(Arg(s, 1))
    [] how = "each of second" -> TopicOfEach(Arg(s, 2))
    [] how = "queue url" -> Keyed(s, <<"QueueUrl">>)
    [] how = "topic arn" -> Keyed(s, <<"TopicArn">>)
    [] how = "topic of chain" ->
         IF s.on.e = "call" /\ Last(s.on.v) = Word("topic") /\ s.on.args # <<>> THEN <<s.on.args[1]>> ELSE <<>>
    [] how = "processor" -> <<Arg(s, 1)>> \o Keyed(s, <<"name">>)
    [] how = "stream name" -> Keyed(s, <<"StreamName">>)
    [] how = "entries" -> EventBusEntries(s)
    [] how = "destination" -> Keyed(s, <<"destination">>)
ReadNames(names, s, how) ==
  CASE how = "queue" -> SelectSeq(names, LAMBDA n : Slash \notin ToSet(n))
    [] how = "keys" -> SelectSeq(names, LAMBDA n : ~Numeric(n))
    [] how = "filters" -> names \o (IF Arg(s, 1).e = "obj" THEN Mapped(Arg(s, 1).v, LAMBDA p : p.k) ELSE <<>>)
    [] how = "queue url" -> Mapped(names, BareOf)
    [] how = "topic arn" -> Mapped(SelectSeq(names, LAMBDA n : n[1] = Word("arn")), BareOf)
    [] OTHER -> names
OrElse(s, t) == IF s = <<>> THEN t ELSE s
Take(f, s, how) ==
  CASE how = "streams" -> StreamReads(f, s)
    [] how = "hub" -> FirstOf(SelectSeq(Strings(f, s, Reverse(s.args)), LAMBDA n : ~ConnectionString(n)))
    [] how = "queue of receiver" -> Known(<<QueueName(f, ReceiverKey(s.on))>>)
    [] how = "rabbit" -> OrElse(NamesOf(f, s, Keyed(s, <<"queue">>)), NamesOf(f, s, Keyed(s, <<"routingKey">>)))
    [] OTHER -> ReadNames(NamesOf(f, s, Sources(s, how)), s, how)

----------------------------------------------------------------------------
(* The libraries and the rules.                                            *)

KafkaJs == {<<"kafkajs">>, <<"@confluentinc", "kafka-javascript">>}
Nest == {NestMicroservices}
KafkaNative == {<<"node-rdkafka">>, <<"@confluentinc", "kafka-javascript">>, <<"@blizzard", "rdkafka">>}
KafkaNode == {<<"kafka-node">>}
Platformatic == {<<"@platformatic", "kafka">>}
KafkaAny == KafkaJs \cup KafkaNative \cup KafkaNode \cup Platformatic
Redis == {<<"ioredis">>, <<"redis">>, <<"@redis", "client">>, <<"@upstash", "redis">>, <<"ioredis-mock">>, <<"redis-mock">>,
          <<"@nestjs-modules", "ioredis">>, <<"@liaoliaots", "nestjs-redis">>, <<"@songkeys", "nestjs-redis">>}
Nats == {<<"nats">>, <<"nats.ws">>, <<"@nats-io">>}
Mqtt == {<<"mqtt">>, <<"async-mqtt">>}
Amqp == {<<"amqplib">>, <<"amqp-connection-manager">>}
AwsV2 == {<<"aws-sdk">>}
PubSub == {<<"@google-cloud", "pubsub">>}
Pulsar == {<<"pulsar-client">>}
ServiceBus == {<<"@azure", "service-bus">>}
Stomp == {<<"@stomp", "stompjs">>, <<"@stomp", "rx-stomp">>, <<"stompjs">>, <<"stomp-client">>}
BullQueues == {<<"bull">>, <<"bee-queue">>}
BullMq == {<<"bullmq">>, <<"@nestjs", "bullmq">>}
NestBull == {<<"@nestjs", "bull">>, <<"@nestjs", "bullmq">>}
Rabbit == {<<"@golevelup", "nestjs-rabbitmq">>}

Rule(libs, methods, role, kind, how) == [libs |-> libs, methods |-> methods, role |-> role, kind |-> kind, how |-> how, when |-> "any"]
When(rule, cond) == [rule EXCEPT !.when = cond]
KafkaCalls ==
  <<When(Rule({}, {"send"}, "produce", "KafkaTopic", "topic"), "kafka"),
    When(Rule({}, {"subscribe"}, "consume", "KafkaTopic", "topics"), "kafka"),
    When(Rule({}, {"sendBatch"}, "produce", "KafkaTopic", "batch"), "kafka"),
    Rule(KafkaNative, {"produce"}, "produce", "KafkaTopic", "first"),
    Rule(KafkaNative, {"subscribe"}, "consume", "KafkaTopic", "first"),
    Rule(KafkaNode, {"send"}, "produce", "KafkaTopic", "each"),
    Rule(Platformatic, {"send"}, "produce", "KafkaTopic", "messages"),
    Rule(Platformatic, {"consume"}, "consume", "KafkaTopic", "topics"),
    Rule(BullQueues, {"process"}, "consume", "Queue", "queue of receiver"),
    When(Rule({}, {"emit", "send"}, "produce", "KafkaTopic", "first"), "nest")>>
BrokerCalls ==
  <<Rule(Redis, {"publish", "xadd", "xAdd"}, "produce", "EventStream", "first"),
    Rule(Redis, {"subscribe", "psubscribe", "pSubscribe"}, "consume", "EventStream", "all"),
    Rule(Redis, {"xread", "xRead", "xreadgroup", "xReadGroup"}, "consume", "EventStream", "streams"),
    Rule(Nats, {"publish", "request"}, "produce", "EventStream", "first"),
    Rule(Nats, {"subscribe"}, "consume", "EventStream", "first"),
    Rule(Mqtt, {"publish"}, "produce", "EventStream", "first"),
    Rule(Mqtt, {"subscribe", "subscribeAsync"}, "consume", "EventStream", "filters"),
    Rule(Amqp, {"sendToQueue"}, "produce", "Queue", "first"),
    Rule(Amqp, {"consume"}, "consume", "Queue", "first"),
    Rule(Amqp, {"publish"}, "produce", "EventStream", "first")>>
CloudCalls ==
  <<Rule(AwsV2, {"sendMessage", "sendMessageBatch"}, "produce", "Queue", "queue url"),
    Rule(AwsV2, {"receiveMessage"}, "consume", "Queue", "queue url"),
    Rule(AwsV2, {"publish"}, "produce", "EventStream", "topic arn"),
    Rule(PubSub, {"publishMessage", "publishJSON", "publish"}, "produce", "EventStream", "topic of chain"),
    Rule(PubSub, {"subscription"}, "consume", "EventStream", "topic of chain"),
    Rule(Pulsar, {"createProducer"}, "produce", "EventStream", "topics"),
    Rule(Pulsar, {"subscribe", "createReader"}, "consume", "EventStream", "topics"),
    Rule(ServiceBus, {"createSender"}, "produce", "Queue", "first"),
    Rule(ServiceBus, {"createReceiver"}, "consume", "Queue", "first")>>
ListCalls ==
  <<Rule(Redis, {"lpush", "lPush", "rpush", "rPush"}, "produce", "Queue", "first"),
    Rule(Redis, {"brpop", "bRPop", "blpop", "bLPop"}, "consume", "Queue", "keys"),
    Rule(Redis, {"rpop", "rPop", "lpop", "lPop"}, "consume", "Queue", "first"),
    Rule(Redis, {"lmove", "lMove", "blmove", "bLMove", "rpoplpush", "rPopLPush", "brpoplpush", "bRPopLPush"},
         "consume", "Queue", "first"),
    Rule(Redis, {"lmove", "lMove", "blmove", "bLMove", "rpoplpush", "rPopLPush", "brpoplpush", "bRPopLPush"},
         "produce", "Queue", "second"),
    Rule(Stomp, {"publish"}, "produce", "EventStream", "destination"),
    Rule(Stomp, {"subscribe"}, "consume", "EventStream", "first")>>
CallRules == KafkaCalls \o BrokerCalls \o CloudCalls \o ListCalls

(* A constructor's name; {} for a module's default export.                 *)
QueueClass == Pascal(<<"queue">>)
WorkerClass == Pascal(<<"worker">>)
CtorRules ==
  <<Rule(BullMq, {QueueClass}, "produce", "Queue", "queue"),
    Rule(BullMq, {WorkerClass}, "consume", "Queue", "queue"),
    Rule(BullQueues, {}, "produce", "Queue", "first"),
    Rule(KafkaNode, {Pascal(<<"consumer">>)}, "consume", "KafkaTopic", "each of second"),
    Rule(KafkaNode, {Pascal(<<"consumer", "group">>)}, "consume", "KafkaTopic", "second"),
    Rule({<<"@azure", "event-hubs">>}, {Pascal(<<"event", "hub", "producer", "client">>)}, "produce", "EventStream", "hub"),
    Rule({<<"@azure", "event-hubs">>}, {Pascal(<<"event", "hub", "consumer", "client">>)}, "consume", "EventStream", "hub"),
    Rule({<<"@aws-sdk", "client-sqs">>}, {Pascal(<<"send", "message", "command">>), Pascal(<<"send", "message", "batch", "command">>)},
         "produce", "Queue", "queue url"),
    Rule({<<"@aws-sdk", "client-sqs">>}, {Pascal(<<"receive", "message", "command">>)}, "consume", "Queue", "queue url"),
    Rule({<<"@aws-sdk", "client-sns">>}, {Pascal(<<"publish", "command">>), Pascal(<<"publish", "batch", "command">>)},
         "produce", "EventStream", "topic arn"),
    Rule({<<"@aws-sdk", "client-kinesis">>}, {Pascal(<<"put", "record", "command">>), Pascal(<<"put", "records", "command">>)},
         "produce", "EventStream", "stream name"),
    Rule({<<"@aws-sdk", "client-kinesis">>}, {Pascal(<<"get", "shard", "iterator", "command">>)}, "consume", "EventStream", "stream name"),
    Rule({<<"@aws-sdk", "client-eventbridge">>}, {Pascal(<<"put", "events", "command">>)}, "produce", "EventStream", "entries")>>
DecoratorRules ==
  <<Rule(NestBull, {Pascal(<<"processor">>)}, "consume", "Queue", "processor"),
    Rule(NestBull, {Pascal(<<"inject", "queue">>)}, "produce", "Queue", "first"),
    Rule(Rabbit, {Pascal(<<"rabbit", "subscribe">>), Pascal(<<"rabbit", "rpc">>)}, "consume", "Queue", "rabbit"),
    Rule({<<"@ssut", "nestjs-sqs">>}, {Pascal(<<"sqs", "message", "handler">>)}, "consume", "Queue", "first")>>

----------------------------------------------------------------------------
(* Whether a rule applies to a site.                                       *)

LikeAny(key, words) == ToSet(key.w) \cap words # {}
(* `nest_client`, `kafka_receiver`.                                        *)
NestClient(f, key) ==
  IsClient(f, Nest, key) = "yes" \/ (ImportsAny(f, Nest) /\ LikeAny(key, {"client", "proxy"}))
KafkaReceiver(f, s) ==
  IF ImportsAny(f, KafkaAny) THEN IsClient(f, KafkaJs, ReceiverKey(s.on)) # "no"
  ELSE s.on.e # "call" /\ LikeAny(ReceiverKey(s.on), {"producer", "consumer", "kafka", "redpanda"})
(* `receiver_is_client`: a family of which the file builds clients is      *)
(* called through one of them.                                             *)
Tracked(libs) == libs # {} /\ libs # BullQueues
ReceiverIsClient(f, libs, s) == Tracked(libs) => IsClient(f, libs, ReceiverKey(s.on)) # "no"

(* `mentions_broker`: a file whose text names no library and no shape is   *)
(* not looked at.                                                          *)
BrokerLibs == (UNION {CallRules[i].libs : i \in DOMAIN CallRules}) \cup (UNION {CtorRules[i].libs : i \in DOMAIN CtorRules})
              \cup (UNION {DecoratorRules[i].libs : i \in DOMAIN DecoratorRules}) \cup KafkaAny \cup Nest
(* The shapes: `Queue` and `Worker` with their capital, the others in any  *)
(* spelling.                                                               *)
Capitalised(t) ==
  CASE t.s = "pascal" -> ToSet(t.w)
    [] t.s = "camel" -> ToSet(Tail(t.w))
    [] t.s = "capital" -> {t.w[1]}
    [] OTHER -> {}
BrokerShape(t) ==
  ToSet(t.w) \cap {"producer", "consumer", "kafka", "redpanda"} # {} \/ Capitalised(t) \cap {"queue", "worker"} # {}
MentionsBroker(f) ==
  \/ \E u \in f.uses : \E i \in DOMAIN u[2] : BrokerShape(u[2][i])
  \/ ReferencesAny(f, BrokerLibs)

Fact(name, rule) == [name |-> name, kind |-> rule.kind, role |-> rule.role]
Once(facts) == FoldLeft(LAMBDA out, x : IF Contains(out, x) THEN out ELSE Append(out, x), <<>>, facts)
Facts(f, s, rules) == Once(Gather(rules, LAMBDA r : Mapped(Take(f, s, r.how), LAMBDA n : Fact(n, r))))

CallApplies(f, it, s, r) ==
  /\ it.name \in r.methods
  /\ r.libs # {} => ImportsAny(f, r.libs)
  /\ ReceiverIsClient(f, r.libs, s)
  /\ CASE r.when = "kafka" -> KafkaReceiver(f, s)
       [] r.when = "nest" -> NestClient(f, ReceiverKey(s.on))
       [] OTHER -> TRUE
DetectCall(f, i) ==
  LET it == f.items[i]
      s == [at |-> i, on |-> it.on, args |-> it.args]
  IN IF it.on = Nothing THEN <<>> ELSE Facts(f, s, SelectSeq(CallRules, LAMBDA r : CallApplies(f, it, s, r)))

(* `constructor_origin`: a name imported, and not hidden where it is used; *)
(* else only the bare `Queue` and `Worker` the file does not declare.      *)
CtorApplies(f, i, new, r) ==
  LET root == new.v[1]
      exported == IF Len(new.v) > 1 THEN new.v[2] ELSE f.locals[root].imported
  IN IF IsValue(f, root)
     THEN /\ Len(new.v) <= 2 /\ ~Shadowed(f, i, root) /\ ModuleIn(f.locals[root].module, r.libs)
          /\ IF r.methods = {} THEN exported \in {Word("default"), Word("*")} ELSE exported \in r.methods
     ELSE /\ Len(new.v) = 1 /\ root \in {QueueClass, WorkerClass} \cap r.methods /\ r.libs = BullMq
          /\ ~Shadowed(f, i, root) /\ root \notin DeclaredHere(f)
DetectNew(f, i, new) ==
  Facts(f, [at |-> i, on |-> Nothing, args |-> new.args], SelectSeq(CtorRules, LAMBDA r : CtorApplies(f, i, new, r)))

(* A decorator is looked at under its own name only.                       *)
DetectDecorator(f, i) ==
  LET it == f.items[i] IN
  Facts(f, [at |-> i, on |-> Nothing, args |-> it.args],
        SelectSeq(DecoratorRules, LAMBDA r : /\ IsValue(f, it.name) /\ it.name \in r.methods
                                             /\ f.locals[it.name].imported \in r.methods
                                             /\ ModuleIn(f.locals[it.name].module, r.libs)))

(* The values a file builds with `new`, wherever they stand.               *)
Built(f, i) ==
  LET it == f.items[i] IN
  CASE it.k \in {"var", "field", "assign", "new"} /\ it.val.e = "new" -> <<it.val>> [] OTHER -> <<>>
SiteEvents(f, i) ==
  CASE f.items[i].k = "call" -> DetectCall(f, i)
    [] f.items[i].k = "dec" -> DetectDecorator(f, i)
    [] OTHER -> Gather(Built(f, i), LAMBDA x : DetectNew(f, i, x))
EventsAt(f, i) == IF MentionsBroker(f) THEN SiteEvents(f, i) ELSE <<>>
=============================================================================
