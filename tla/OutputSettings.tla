--------------------------- MODULE OutputSettings ---------------------------
(***************************************************************************)
(* How outputs and queues are configured, which index, pipeline, topic,    *)
(* key and partition an event is sent to, and how long an output waits     *)
(* after a failure. They do not share state.                               *)
(***************************************************************************)
EXTENDS Integers, Sequences, SequencesExt, FiniteSets, TLC

CONSTANT None

VARIABLES call, result

-----------------------------------------------------------------------------
(***************************************************************************)
(* From the configuration of an output to its group of clients: presets,   *)
(* hosts and workers, the queue of the output (outputs/util.go, hosts.go,  *)
(* elasticsearch/config_presets.go) and the factories of the outputs.      *)
(*                                                                         *)
(* A configuration maps the flattened settings that are present to values. *)
(***************************************************************************)

Has(cfg, key) == key \in DOMAIN cfg
Get(cfg, key, default) == IF Has(cfg, key) THEN cfg[key] ELSE default
Fail == [err |-> TRUE]

QueueKeys == {"queue.mem.events", "queue.mem.enabled", "queue.disk.max_size"}
(* the values differ between the presets where the code's do *)
Preset(bulk, worker, events) == ("bulk_max_size" :> bulk) @@ ("worker" :> worker) @@ ("queue.mem.events" :> events)
presetConfigs ==
  ("" :> <<>>) @@ ("custom" :> <<>>) @@ ("balanced" :> Preset(1600, 1, 3200)) @@ ("throughput" :> Preset(1600, 4, 12800))
  @@ ("scale" :> Preset(1600, 1, 3200)) @@ ("latency" :> Preset(50, 1, 4100))

(* applyPreset: queue settings are replaced as a group *)
applyPreset(preset, cfg) ==
  LET p == presetConfigs[preset]
      queue == DOMAIN p \cap QueueKeys # {}
      kept == DOMAIN cfg \ (IF queue THEN QueueKeys ELSE {})
  IN  [cfg |-> p @@ [k \in kept |-> cfg[k]],
       overridden |-> {k \in DOMAIN cfg : (k \in QueueKeys /\ queue) \/ k \in DOMAIN p}]

NumWorkers(cfg) == IF Get(cfg, "worker", 0) # 0 THEN cfg["worker"] ELSE Get(cfg, "workers", 0)

(* ReadHostList: each host once per worker; None without hosts *)
ReadHostList(cfg) ==
  LET config == IF NumWorkers(cfg) < 1 THEN ("worker" :> 1) @@ cfg ELSE cfg
      n == NumWorkers(config)
      lst == Get(cfg, "hosts", <<>>)
  IN  IF lst = <<>> THEN None
      ELSE IF n <= 1 THEN lst
      ELSE FlattenSeq([i \in DOMAIN lst |-> [j \in 1..n |-> lst[i]]])

(* The queue that the output brings along: a namespace, of one kind only *)
QueueKinds(cfg) ==
  (IF DOMAIN cfg \cap {"queue.mem.events", "queue.mem.enabled"} # {} THEN {"mem"} ELSE {})
  \cup (IF Has(cfg, "queue.disk.max_size") THEN {"disk"} ELSE {})
QueueFactory(cfg) ==
  IF QueueKinds(cfg) = {} \/ ("mem" \in QueueKinds(cfg) /\ Get(cfg, "queue.mem.enabled", TRUE) = FALSE) THEN "none"
  ELSE CHOOSE k \in QueueKinds(cfg) : TRUE

Success(cfg, batchSize, retry, clients) ==
  [err |-> FALSE, clients |-> clients, batchSize |-> batchSize, retry |-> retry, queue |-> QueueFactory(cfg),
   events |-> Get(cfg, "queue.mem.events", 0)]

(* SuccessNet: one client per host and worker, or one that fails over *)
SuccessNet(cfg, loadbalance, batchSize, retry, hosts) ==
  Success(cfg, batchSize, retry, IF loadbalance THEN [i \in DOMAIN hosts |-> <<hosts[i]>>] ELSE <<hosts>>)

(* deadLetterIndexForPolicy: None for an error *)
deadLetterIndexForPolicy(cfg) ==
  LET policy == Get(cfg, "policy", [name |-> "drop", index |-> ""])
  IN  CASE policy.name = "drop" -> ""
        [] policy.name = "dead_letter_index" /\ policy.index # "" -> policy.index
        [] OTHER -> None

(* makeES *)
makeES(given) ==
  LET sized == IF Has(given, "bulk_max_size") THEN given ELSE ("bulk_max_size" :> 1600) @@ given
      preset == Get(sized, "preset", "")
      applied == IF preset = "" THEN [cfg |-> sized, overridden |-> {}] ELSE applyPreset(preset, sized)
      cfg == applied.cfg
      hosts == ReadHostList(cfg)
  IN  IF (preset # "" /\ preset \notin DOMAIN presetConfigs) THEN Fail
      ELSE IF Cardinality(QueueKinds(cfg)) > 1 \/ (Has(cfg, "api_key") /\ Has(cfg, "username")) THEN Fail
      ELSE IF deadLetterIndexForPolicy(cfg) = None \/ hosts = None THEN Fail
      ELSE [overridden |-> applied.overridden, cfg |-> cfg]
           @@ SuccessNet(cfg, Get(cfg, "loadbalance", TRUE), cfg["bulk_max_size"], Get(cfg, "max_retries", 3), hosts)

----------------------------------------------------------------------------
(* Kafka *)
Compressions == {"none", "no", "off", "gzip", "lz4", "snappy", "zstd"}

(* Validate of kafkaConfig *)
KafkaValid(cfg, underAgent) ==
  /\ Get(cfg, "hosts", <<>>) # <<>>
  /\ Get(cfg, "compression", "gzip") \in Compressions
  /\ (Has(cfg, "username") => Has(cfg, "password"))
  /\ (Get(cfg, "compression", "gzip") = "gzip" => Get(cfg, "compression_level", 4) \in {-1000} \cup 0..9)
  /\ (Has(cfg, "topic") \/ Has(cfg, "topics"))
  /\ (underAgent => ~Has(cfg, "topics"))
  /\ Get(cfg, "max_retries", 3) >= -1 /\ Get(cfg, "max_retries", 3) # 0
  /\ Cardinality(QueueKinds(cfg)) <= 1

(* newSaramaConfig: what the library retries, and how it authenticates *)
newSaramaConfig(cfg) ==
  [retryMax |-> IF Get(cfg, "max_retries", 3) < 0 THEN 1000 ELSE Get(cfg, "max_retries", 3),
   sasl |-> IF Get(cfg, "kerberos", FALSE) THEN "GSSAPI" ELSE IF Has(cfg, "username") THEN "user" ELSE "off",
   tls |-> Get(cfg, "ssl", FALSE)]

(* makeKafka: the pipeline retries forever or not at all *)
makeKafka(cfg, underAgent) ==
  IF ~KafkaValid(cfg, underAgent) \/ ReadHostList(cfg) = None THEN Fail
  ELSE [lib |-> newSaramaConfig(cfg)]
       @@ Success(cfg, Get(cfg, "bulk_max_size", 2048), IF Get(cfg, "max_retries", 3) < 0 THEN -1 ELSE 0, <<ReadHostList(cfg)>>)

----------------------------------------------------------------------------

(* Redis: a host is [scheme, host, pass], parts of it may be missing *)
RedisTLS(host, ssl) ==
  CASE host.scheme = "redis" -> FALSE [] host.scheme = "rediss" -> TRUE [] OTHER -> ssl

RedisHost(host, cfg) ==
  [host |-> host.host, tls |-> RedisTLS(host, Get(cfg, "ssl", FALSE)),
   pass |-> IF host.pass # "" THEN host.pass ELSE Get(cfg, "password", "")]

makeRedis(cfg) ==
  LET hosts == ReadHostList(cfg)
  IN  IF hosts = None \/ Get(cfg, "datatype", "list") \notin {"", "list", "channel"} THEN Fail
      ELSE IF \E i \in DOMAIN hosts : hosts[i].host = "" \/ hosts[i].scheme \notin {"", "redis", "rediss"} THEN Fail
      ELSE [key |-> Get(cfg, "key", Get(cfg, "index", "beat"))]
           @@ SuccessNet(cfg, Get(cfg, "loadbalance", TRUE), Get(cfg, "bulk_max_size", 2048), Get(cfg, "max_retries", 3),
                         [i \in DOMAIN hosts |-> RedisHost(hosts[i], cfg)])

(* Logstash: asynchronous clients when pipelining is enabled *)
makeLogstash(cfg) ==
  LET hosts == ReadHostList(cfg)
  IN  IF hosts = None THEN Fail
      ELSE [async |-> Get(cfg, "pipelining", 2) > 0]
           @@ SuccessNet(cfg, Get(cfg, "loadbalance", FALSE), Get(cfg, "bulk_max_size", 2048), Get(cfg, "max_retries", 3), hosts)

(* Load: the factory of the type *)
Load(name, cfg, underAgent) ==
  CASE name = "elasticsearch" -> makeES(cfg) [] name = "kafka" -> makeKafka(cfg, underAgent)
    [] name = "redis" -> makeRedis(cfg) [] name = "logstash" -> makeLogstash(cfg) [] OTHER -> Fail

----------------------------------------------------------------------------
(* The queue of the pipeline.  A queue setting is [kind, size, segment]: the
   number of events of a memory queue, or the sizes of a disk queue. *)
NoQueue == [kind |-> "", size |-> 0, segment |-> None]
SegmentHeaderSize == 1

(* Validate of memqueue's config, and of the disk queue's userConfig *)
MemValid(q) == q.size >= 32 /\ (q.segment # None => q.segment <= q.size)
DiskValid(q) ==
  /\ (q.segment # None /\ q.size # 0 => q.size >= 2 * q.segment)
  /\ (q.size # 0 => q.size >= 10)
  /\ (q.segment # None => q.segment >= 1)

(* SettingsForUserConfig of the disk queue: ten segments by default *)
SettingsForUserConfig(q) ==
  [maxBufferSize |-> q.size, maxSegmentSize |-> IF q.segment # None THEN q.segment ELSE q.size \div 10]

(* queueFactoryForUserConfig: whether the settings can be used *)
QueueUsable(q) ==
  CASE q.kind \in {"", "mem"} -> q.kind = "" \/ MemValid(q) [] q.kind = "disk" -> DiskValid(q) [] OTHER -> FALSE

OutputQueue(cfg) ==
  IF QueueKinds(cfg) = {} THEN NoQueue
  ELSE IF QueueKinds(cfg) = {"mem"} THEN [kind |-> "mem", size |-> Get(cfg, "queue.mem.events", 3200), segment |-> None]
  ELSE [kind |-> "disk", size |-> cfg["queue.disk.max_size"], segment |-> None]

(* Validate of beatConfig *)
BeatConfigValid(queue, cfg, managed) ==
  /\ Cardinality(QueueKinds(cfg)) <= 1
  /\ ~(queue.kind # "" /\ QueueKinds(cfg) # {})
  /\ (managed => queue.kind # "disk" /\ "disk" \notin QueueKinds(cfg))

(* promoteOutputQueueSettings *)
Promoted(queue, cfg) == IF QueueKinds(cfg) # {} THEN OutputQueue(cfg) ELSE queue

(* createQueueIfNeeded: the queue of the output takes precedence *)
createQueueIfNeeded(group, queue) ==
  IF group.queue # "none" THEN group.queue ELSE IF queue.kind = "" THEN "mem" ELSE queue.kind

(* What starting a Beat makes of its configuration: LoadWithSettings *)
LoadWithSettings(name, queue, cfg, managed) ==
  LET group == Load(name, cfg, managed)
      promoted == Promoted(queue, cfg)
  IN  IF ~BeatConfigValid(queue, cfg, managed) \/ group.err \/ ~QueueUsable(promoted) THEN Fail
      ELSE [running |-> createQueueIfNeeded(group, promoted)] @@ group

----------------------------------------------------------------------------
(* The calls *)
Opt(key, values) == {<<>>} \cup {(key :> v) : v \in values}
Queues == {<<>>, ("queue.mem.events" :> 64), ("queue.mem.events" :> 16), ("queue.disk.max_size" :> 20),
           ("queue.mem.events" :> 64) @@ ("queue.disk.max_size" :> 20), ("queue.mem.enabled" :> FALSE)}
Common == {b @@ w @@ v @@ l @@ h : b \in Opt("bulk_max_size", {50}), w \in Opt("worker", {0, 2}), v \in Opt("workers", {-1, 3}),
                                   l \in Opt("loadbalance", BOOLEAN), h \in Opt("hosts", {<<>>, <<"h1">>, <<"h1", "h2">>})}
ESConfigs ==
  {c @@ q @@ p : c \in Common, q \in Queues, p \in Opt("preset", {"", "custom", "balanced", "latency", "fast"})}
  \cup {("hosts" :> <<"h1">>) @@ p @@ k @@ u : u \in Opt("username", {"u"}), k \in Opt("api_key", {"k"}),
         p \in Opt("policy", [name : {"drop", "dead_letter_index", "keep"}, index : {"", "i"}])}
GlobalQueues == [kind : {"", "mem", "disk", "spool"}, size : {0, 5, 64}, segment : {None}]
Plain(c) == ~Has(c, "bulk_max_size") /\ ~Has(c, "workers") /\ Get(c, "worker", 2) = 2 /\ Get(c, "loadbalance", TRUE)

RedisHosts == [scheme : {"", "redis", "rediss", "http"}, host : {"", "h1"}, pass : {"", "p"}]
RedisConfigs ==
  {("hosts" :> <<h>>) @@ s @@ w @@ d @@ k : h \in RedisHosts, s \in Opt("ssl", BOOLEAN), w \in Opt("password", {"q"}),
                                             d \in Opt("datatype", {"", "list", "channel", "set"}), k \in Opt("worker", {2})}
KafkaConfigs ==
  {("hosts" :> <<"h1", "h2">>) @@ t @@ r @@ c @@ u @@ k : t \in {("topic" :> "t"), ("topics" :> <<"t">>), <<>>},
     r \in Opt("max_retries", {-1, 0, 5}), c \in Opt("compression", {"gzip", "lz5"}) \cup {("compression_level" :> 12)},
     u \in Opt("username", {"u"}) \cup {("username" :> "u") @@ ("password" :> "p")}, k \in Opt("kerberos", {TRUE})}

OutputCalls ==
  [name : {"elasticsearch"}, cfg : ESConfigs, queue : {NoQueue}, managed : {FALSE}]
  \cup [name : {"elasticsearch"}, cfg : {c \in ESConfigs : Plain(c)}, queue : GlobalQueues, managed : BOOLEAN]
  \cup [name : {"logstash"}, cfg : {c @@ a : c \in Common, a \in Opt("pipelining", {0, 2})}, queue : {NoQueue}, managed : {FALSE}]
  \cup [name : {"redis"}, cfg : RedisConfigs, queue : {NoQueue}, managed : {FALSE}]
  \cup [name : {"kafka"}, cfg : KafkaConfigs, queue : {NoQueue}, managed : BOOLEAN]
DiskCalls == [name : {"disk"}, size : 0..40, segment : {None} \cup 0..21]

ConfigInit == call \in OutputCalls \cup DiskCalls /\ result = None

CallLoad ==
  /\ result = None /\ call.name # "disk"
  /\ result' = LoadWithSettings(call.name, call.queue, call.cfg, call.managed)
  /\ UNCHANGED call

CallSettings ==
  /\ result = None /\ call.name = "disk"
  /\ result' = IF DiskValid(call) THEN [err |-> FALSE] @@ SettingsForUserConfig(call) ELSE Fail
  /\ UNCHANGED call

ConfigNext == CallLoad \/ CallSettings

----------------------------------------------------------------------------
Loaded == result # None /\ call.name # "disk" /\ ~result.err

(* The settings of a performance preset win as a whole (makeES, applyPreset):
   with a preset the bulk size, the number of workers per host and the queue
   are the preset's, whatever the output's other settings say, and no queue
   setting of the user is mixed with the preset's. *)
PresetWins ==
  (Loaded /\ call.name = "elasticsearch" /\ Get(call.cfg, "preset", "") \in {"balanced", "latency"}) =>
     LET p == presetConfigs[call.cfg["preset"]]
     IN  /\ result.batchSize = p["bulk_max_size"]
         /\ result.queue = "mem" /\ result.events = p["queue.mem.events"]
         /\ Len(FlattenSeq(result.clients)) = Len(call.cfg["hosts"]) * p["worker"]
         /\ DOMAIN result.cfg \cap QueueKeys = {"queue.mem.events"}

(* Every setting of the user that a preset changes is reported, so that it can
   be logged; the alias workers, which a preset hides, is not. *)
ChangesAreReported ==
  (Loaded /\ call.name = "elasticsearch") =>
     {k \in DOMAIN call.cfg : k \notin DOMAIN result.cfg \/ result.cfg[k] # call.cfg[k]} \subseteq result.overridden

(* The queue that runs is the one configured, for the Beat or for its output,
   and never two of them (beatConfig.Validate, createQueueIfNeeded).  A preset
   is a queue setting of the output that is added later and replaces the
   Beat's queue; this case is left out. *)
QueueAsConfigured ==
  (Loaded /\ Get(call.cfg, "preset", "") \in {"", "custom"}) =>
     LET kinds == (IF call.queue.kind = "" THEN {} ELSE {call.queue.kind}) \cup QueueKinds(call.cfg)
     IN  {result.running} = IF kinds = {} THEN {"mem"} ELSE kinds

(* A redis host with a scheme uses TLS as the scheme says, one without as the
   ssl settings say, and each uses its own password if it has one. *)
RedisTLSAsAsked ==
  (Loaded /\ call.name = "redis") =>
     \A i \in DOMAIN result.clients : \A j \in DOMAIN result.clients[i] :
       LET h == call.cfg["hosts"][1] IN
       /\ result.clients[i][j].tls = (h.scheme = "rediss" \/ (h.scheme = "" /\ Get(call.cfg, "ssl", FALSE)))
       /\ (h.pass # "" => result.clients[i][j].pass = h.pass)

(* "The total queue size must be at least twice as large" as a segment
   (userConfig.Validate): a disk queue with a limit has room for two of its
   segments, and a segment has room for its header and a frame. *)
SegmentsFit ==
  (result # None /\ call.name = "disk" /\ ~result.err /\ call.size # 0) =>
     2 * result.maxSegmentSize <= result.maxBufferSize /\ result.maxSegmentSize >= SegmentHeaderSize

-----------------------------------------------------------------------------
(***************************************************************************)
(* Names chosen per event: the selectors that outputs build from their     *)
(* configuration (outputs/outil), for topics, keys, pipelines and indices, *)
(* and the index and pipeline that the elasticsearch output encodes into   *)
(* an event (idxmgmt/index_support.go, outputs/elasticsearch).             *)
(*                                                                         *)
(* A text is a sequence of letters.  A format string is a constant, or the *)
(* value of the field f of the event; running it fails without the field.  *)
(***************************************************************************)

lower == ("A" :> "a") @@ ("B" :> "b")
upper == ("a" :> "A") @@ ("b" :> "B")
Mapped(t, m) == [i \in DOMAIN t |-> IF t[i] \in DOMAIN m THEN m[t[i]] ELSE t[i]]
apply(selCase, t) ==
  CASE selCase = "lower" -> Mapped(t, lower) [] selCase = "upper" -> Mapped(t, upper) [] OTHER -> t

Const(t) == [const |-> TRUE, text |-> t]
Field == [const |-> FALSE, text |-> <<>>]

(* Run of a format string: None for an error *)
Run(f, evt) == IF f.const THEN f.text ELSE IF "f" \in DOMAIN evt.fields THEN evt.fields["f"] ELSE None

----------------------------------------------------------------------------
(* Selector expressions *)
nilSelector == [sel |-> "nil"]
ConstSelectorExpr(s, selCase) == IF s = <<>> THEN nilSelector ELSE [sel |-> "const", s |-> apply(selCase, s)]
FmtSelector(f, otherwise, selCase) == [sel |-> "fmt", f |-> f, otherwise |-> otherwise, selCase |-> selCase]

FmtSelectorExpr(f, fallback, selCase) ==
  IF f.const THEN ConstSelectorExpr(IF f.text = <<>> THEN fallback ELSE f.text, selCase)
  ELSE FmtSelector(f, apply(selCase, fallback), selCase)

Entry(table, t) == IF t \in DOMAIN table THEN table[t] ELSE <<>>

(* The format string of a lookup runs without a case *)
LookupSelectorExpr(f, table, fallback, selCase) ==
  LET str == Entry(table, apply(selCase, f.text))
  IN  IF f.const THEN ConstSelectorExpr(IF str = <<>> THEN fallback ELSE str, selCase)
      ELSE [sel |-> "map", from |-> FmtSelector(f, <<>>, "keep"), to |-> table, otherwise |-> fallback]

copyTable(selCase, table) ==
  LET keys == {apply(selCase, k) : k \in DOMAIN table}
  IN  [k \in keys |-> apply(selCase, table[CHOOSE x \in DOMAIN table : apply(selCase, x) = k])]

buildSingle(rule, selCase) ==
  LET otherwise == apply(selCase, rule.default)
      sel == IF rule.mappings # <<>> THEN LookupSelectorExpr(rule.key, copyTable(selCase, rule.mappings), otherwise, selCase)
             ELSE FmtSelectorExpr(rule.key, otherwise, selCase)
  IN  IF rule.when # None /\ sel # nilSelector THEN [sel |-> "cond", s |-> sel, cond |-> rule.when] ELSE sel

MakeSelector(es) ==
  CASE Len(es) = 0 -> nilSelector [] Len(es) = 1 -> es[1] [] OTHER -> [sel |-> "list", selectors |-> es]

(* BuildSelectorFromConfig: the rules of the list, then the single setting;
   None for an error *)
BuildSelectorFromConfig(cfg, selCase, failEmpty) ==
  LET rules == IF cfg.multi = None THEN <<>> ELSE [i \in DOMAIN cfg.multi |-> buildSingle(cfg.multi[i], selCase)]
      single == IF cfg.single = None THEN <<>> ELSE <<FmtSelectorExpr(cfg.single, <<>>, selCase)>>
      found == cfg.multi # None \/ cfg.single # None
  IN  IF failEmpty /\ ~found THEN None
      ELSE MakeSelector(SelectSeq(rules \o single, LAMBDA s : s # nilSelector))

Holds(cond, evt) == cond \in DOMAIN evt.fields

RECURSIVE sel(_, _), selList(_, _)
sel(s, evt) ==
  CASE s.sel = "nil" -> <<>>
    [] s.sel = "const" -> s.s
    [] s.sel = "cond" -> IF Holds(s.cond, evt) THEN sel(s.s, evt) ELSE <<>>
    [] s.sel = "list" -> selList(s.selectors, evt)
    [] s.sel = "fmt" -> LET n == Run(s.f, evt) IN IF n = None \/ n = <<>> THEN s.otherwise ELSE apply(s.selCase, n)
    [] s.sel = "map" -> LET n == sel(s.from, evt)
                            to == Entry(s.to, n)
                        IN  IF n = <<>> \/ to = <<>> THEN s.otherwise ELSE to

selList(ss, evt) ==
  IF ss = <<>> THEN <<>> ELSE LET n == sel(Head(ss), evt) IN IF n # <<>> THEN n ELSE selList(Tail(ss), evt)

----------------------------------------------------------------------------
(* The elasticsearch output *)
DefaultIndex == <<"b", "-">>

(* BuildSelector of indexSupport: a configuration of its own, which always
   has an index *)
BuildIndexSelector(cfg) ==
  BuildSelectorFromConfig(
    [cfg EXCEPT !.single = IF @ = None \/ @ = Const(<<>>) THEN Const(DefaultIndex) ELSE @], "lower", FALSE)

(* GetMetaStringValue: None without the key; what is no text reads as the
   empty text *)
NoText == <<"number">>
GetMetaStringValue(evt, key) ==
  IF evt.meta = None \/ key \notin DOMAIN evt.meta THEN None
  ELSE IF evt.meta[key] = NoText THEN <<>> ELSE evt.meta[key]

getEventCustomIndex(evt) ==
  LET index == GetMetaStringValue(evt, "index")
      raw == GetMetaStringValue(evt, "raw_index")
  IN  CASE index # None -> apply("lower", index) [] index = None /\ raw # None -> apply("lower", raw) [] OTHER -> <<>>

SelectIndex(selector, evt) ==
  IF getEventCustomIndex(evt) # <<>> THEN getEventCustomIndex(evt) ELSE sel(selector, evt)

(* getPipeline: any metadata of the event hides the configured pipeline *)
getPipeline(evt, selector) ==
  LET own == GetMetaStringValue(evt, "pipeline")
  IN  IF evt.meta = None THEN sel(selector, evt) ELSE IF own = None THEN <<>> ELSE apply("lower", own)

(* GetOpType: a text that names no operation is no operation *)
GetOpType(evt) ==
  LET op == GetMetaStringValue(evt, "op_type") IN IF op \in {<<"create">>, <<"index">>, <<"delete">>} THEN op[1] ELSE "default"

encodeRawEvent(evt, index, pipeline) ==
  [opType |-> GetOpType(evt), index |-> SelectIndex(index, evt), pipeline |-> getPipeline(evt, pipeline),
   id |-> LET id == GetMetaStringValue(evt, "_id") IN IF id = None THEN <<>> ELSE id]

(* createEventBulkMeta: the action of the bulk request; None for an error,
   which drops the event.  A version is ten times the major plus the minor. *)
createEventBulkMeta(version, event) ==
  IF event.opType = "delete" THEN IF event.id # <<>> THEN "delete" ELSE None
  ELSE IF (event.id # <<>> \/ version >= 75) /\ event.opType # "index" THEN "create" ELSE "index"

----------------------------------------------------------------------------
(* The calls *)
Texts == {<<"a">>, <<"B">>, <<"A", "b">>}
Formats == {Const(<<>>), Const(<<"a">>), Const(<<"B">>), Field}
Tables == {<<>>, (<<"a">> :> <<"b">>), (<<"B">> :> <<"A">>) @@ (<<"a">> :> <<>>)}
Rules == [key : Formats, default : {<<>>, <<"A", "b">>}, mappings : Tables, when : {None, "f", "g"}]
SomeRules == {r \in Rules : r.default = <<>> /\ r.mappings \in {<<>>, (<<"a">> :> <<"b">>)} /\ r.when \in {None, "g"}}
Configs == [single : Formats \cup {None}, multi : {None, <<>>} \cup {<<r>> : r \in Rules}]
           \cup [single : {None, Const(<<"a">>)}, multi : {<<r, q>> : r \in Rules, q \in SomeRules}]
FieldSets == {<<>>, ("g" :> <<>>)} \cup {("f" :> t) : t \in Texts \cup {<<>>}} \cup {("f" :> <<"a">>) @@ ("g" :> <<>>)}
Metas ==
  {None, <<>>, ("pipeline" :> <<"B">>), ("pipeline" :> NoText), ("index" :> <<"B">>), ("index" :> NoText) @@ ("raw_index" :> <<"A">>),
   ("raw_index" :> <<"A">>)}
  \cup {("op_type" :> <<op>>) : op \in {"create", "index", "delete", "update"}}
  \cup {("_id" :> <<"a">>) @@ ("op_type" :> <<op>>) : op \in {"create", "index", "delete", "update"}}

SelectCalls == [fn : {"select"}, cfg : Configs, evt : [meta : {None}, fields : FieldSets], version : {80}, case : {"keep", "lower", "upper"}]
EncodeCalls ==
  [fn : {"encode"}, cfg : [single : Formats \cup {None}, multi : {None} \cup {<<r>> : r \in SomeRules}],
   evt : [meta : Metas, fields : {<<>>, ("f" :> <<"B">>)}], version : {68, 74, 75, 80}, case : {"lower"}]

SelectorInit == call \in SelectCalls \cup EncodeCalls /\ result = None

CallSelect ==
  /\ call.fn = "select" /\ result = None
  /\ LET s == BuildSelectorFromConfig(call.cfg, call.case, TRUE)
     IN  result' = [text |-> IF s = None THEN None ELSE sel(s, call.evt)]
  /\ UNCHANGED call

CallEncode ==
  /\ call.fn = "encode" /\ result = None
  /\ LET event == encodeRawEvent(call.evt, BuildIndexSelector(call.cfg), BuildSelectorFromConfig(call.cfg, "lower", FALSE))
     IN  result' = [event |-> event, action |-> createEventBulkMeta(call.version, event)]
  /\ UNCHANGED call

SelectorNext == CallSelect \/ CallEncode

----------------------------------------------------------------------------
(* What one rule says: the text of its format string, in its table and in its
   case, and its default when there is none *)
RuleName(rule) ==
  LET n == Run(rule.key, call.evt)
      entry == Entry(copyTable(call.case, rule.mappings), apply(call.case, n))
      text == IF n = None THEN <<>> ELSE IF rule.mappings = <<>> THEN n ELSE entry
  IN  IF rule.when # None /\ ~Holds(rule.when, call.evt) THEN <<>>
      ELSE apply(call.case, IF text = <<>> THEN rule.default ELSE text)

Names ==
  (IF call.cfg.multi = None THEN <<>> ELSE [i \in DOMAIN call.cfg.multi |-> RuleName(call.cfg.multi[i])])
  \o (IF call.cfg.single = None THEN <<>>
      ELSE LET n == Run(call.cfg.single, call.evt) IN <<IF n = None THEN <<>> ELSE apply(call.case, n)>>)

(* A field of the event in another case than the keys of a table, which is
   not found there *)
OtherCase ==
  /\ Run(Field, call.evt) # None /\ Run(Field, call.evt) # apply(call.case, Run(Field, call.evt))
  /\ call.cfg.multi # None /\ \E i \in DOMAIN call.cfg.multi : call.cfg.multi[i].mappings # <<>> /\ call.cfg.multi[i].key = Field

(* The first rule that gives a name wins (outil.BuildSelectorFromConfig): an
   event gets the name that the first of its rules gives it, however rules
   with constant texts were simplified when the selector was built.  Lookups
   of fields in another case than the table are left out. *)
FirstRuleWins ==
  (call.fn = "select" /\ result # None /\ ~OtherCase) =>
    result.text = IF call.cfg.multi = None /\ call.cfg.single = None THEN None
                  ELSE LET given == SelectSeq(Names, LAMBDA n : n # <<>>) IN IF given = <<>> THEN <<>> ELSE given[1]

(* "Use SelectorLowerCase or SelectorUpperCase to enforce the Selector to
   always generate lower case or upper case strings" (settings.go): whichever
   of the format, the table and the default a name comes from. *)
CaseIsEnforced ==
  (call.fn = "select" /\ result # None /\ result.text # None) => result.text = apply(call.case, result.text)

(* Every event of the elasticsearch output has an index, its own or one of
   the configuration, unless the index setting is a format string that needs
   fields of the event. *)
IndexIsNamed ==
  (call.fn = "encode" /\ result # None /\ call.cfg.single # Field) =>
     /\ result.event.index # <<>>
     /\ (getEventCustomIndex(call.evt) # <<>> => result.event.index = getEventCustomIndex(call.evt))

(* The bulk action is the one that the event asks for: only an event that asks
   to be deleted, and has an id, deletes a document, one with an id replaces a
   document only when it says so, and an event that asks for a delete never
   becomes a document. *)
ActionIsAsked ==
  (call.fn = "encode" /\ result # None) =>
     /\ (result.action = "delete" <=> result.event.opType = "delete" /\ result.event.id # <<>>)
     /\ ((result.action = "index" /\ result.event.id # <<>>) => result.event.opType = "index")
     /\ (result.event.opType = "delete" => result.action \in {"delete", None})

-----------------------------------------------------------------------------
(***************************************************************************)
(* The choice of a partition in the kafka output (outputs/kafka,           *)
(* partition.go): the strategies, with their state in the producer of one  *)
(* topic, and the partition that an event remembers when it is retried.    *)
(*                                                                         *)
(* Integers have IntBits bits instead of 32.  A key stands for the value   *)
(* that its hash has; NoKey is an event without key, or without a field    *)
(* that the hash is computed from.                                         *)
(***************************************************************************)

CONSTANTS
  Events,
  Keys,        \* hash values of the events' keys
  NoKey,
  IntBits,     \* width of the partition numbers and hashes
  Partitions,  \* partitions of the topic
  GroupSizes,  \* values of group_events
  MaxSends     \* bound: messages

VARIABLES
  strategy,  \* frozen: [kind, group, random, reachable]
  eventKey,  \* frozen: the key of each event
  producer,  \* the partitioner: [count, partition, partitions, fresh]
  leaders,   \* partitions with a leader
  cache,     \* what each event remembers; -1 for nothing
  sends      \* history: what was chosen, in order

partitionVars == <<strategy, eventKey, producer, leaders, cache, sends>>

Hashes == 0..(2 ^ IntBits - 1)
MaxInt == 2 ^ (IntBits - 1) - 1
MinInt == -(2 ^ (IntBits - 1))
Inc(i) == IF i = MaxInt THEN MinInt ELSE i + 1

Strategies ==
  [kind : {"random", "round_robin"}, group : GroupSizes, random : {TRUE}, reachable : BOOLEAN]
  \cup [kind : {"hash"}, group : {1}, random : {TRUE}, reachable : BOOLEAN]
  \cup [kind : {"fields"}, group : {1}, random : BOOLEAN, reachable : BOOLEAN]

(* makePartitioner and the constructors: counters start full, the round robin
   anywhere *)
NewProducer ==
  [count : {strategy.group}, partition : IF strategy.kind = "round_robin" THEN 0..MaxInt ELSE {0}, partitions : {0}, fresh : {0}]

PartitionInit ==
  /\ strategy \in Strategies
  /\ eventKey \in [Events -> IF strategy.kind \in {"hash", "fields"} THEN Keys \cup {NoKey} ELSE {NoKey}]
  /\ producer \in NewProducer
  /\ leaders = Partitions
  /\ cache = [e \in Events |-> -1]
  /\ sends = <<>>

(* Only reachable partitions are counted with reachable_only *)
numPartitions == IF strategy.reachable THEN leaders ELSE Partitions

hash2Partition(hash, n) == (hash % (2 ^ (IntBits - 1))) % n

(* A strategy's choices: the partition, the producer behind it, an error *)
Choice(p, partition, err) == [p |-> p, partition |-> partition, err |-> err]

randomPartition(p, n) ==
  IF p.count = strategy.group
  THEN {Choice([p EXCEPT !.count = 1, !.partition = i], i, FALSE) : i \in 0..(n - 1)}
  ELSE {Choice([p EXCEPT !.count = @ + 1], p.partition, FALSE)}

roundRobin(p, n) ==
  LET next == IF Inc(p.partition) >= n THEN 0 ELSE Inc(p.partition)
  IN  IF p.count = strategy.group
      THEN {Choice([p EXCEPT !.count = 1, !.partition = next], next, FALSE)}
      ELSE {Choice([p EXCEPT !.count = @ + 1], p.partition, FALSE)}

hashPartition(p, k, n) ==
  IF k = NoKey THEN {Choice(p, i, FALSE) : i \in 0..(n - 1)} ELSE {Choice(p, hash2Partition(k, n), FALSE)}

fieldsHashPartition(p, k, n) ==
  IF k # NoKey THEN {Choice(p, hash2Partition(k, n), FALSE)}
  ELSE IF ~strategy.random THEN {Choice(p, -1, TRUE)}
  ELSE {Choice(p, hash2Partition(h, n), FALSE) : h \in Hashes}

Choose(p, k, n) ==
  CASE strategy.kind = "random" -> randomPartition(p, n)
    [] strategy.kind = "round_robin" -> roundRobin(p, n)
    [] strategy.kind = "hash" -> hashPartition(p, k, n)
    [] strategy.kind = "fields" -> fieldsHashPartition(p, k, n)

Remembered(e, n) == n = producer.partitions /\ cache[e] \in 0..(n - 1)

Log(e, n, partition, fresh) ==
  sends' = Append(sends, [event |-> e, n |-> n, partition |-> partition, fresh |-> fresh])

(* Partition: the partition that the event was given before, or a new one.
   The error of a strategy is not reported: the message goes to partition 0. *)
Keep(e) ==
  /\ Remembered(e, numPartitions)
  /\ Log(e, numPartitions, cache[e], 0)
  /\ UNCHANGED <<producer, cache>>

Assign(e) ==
  /\ ~Remembered(e, numPartitions)
  /\ \E c \in Choose(producer, eventKey[e], numPartitions) :
       IF c.err
       THEN Log(e, numPartitions, 0, 0) /\ UNCHANGED <<producer, cache>>
       ELSE /\ producer' = [c.p EXCEPT !.partitions = numPartitions, !.fresh = @ + 1]
            /\ cache' = [cache EXCEPT ![e] = c.partition]
            /\ Log(e, numPartitions, c.partition, producer.fresh + 1)

(* Mutant: the partition that an event remembers is not looked at *)
PartitionAnew(e) ==
  /\ Len(sends) < MaxSends
  /\ \E c \in Choose(producer, eventKey[e], numPartitions) :
       /\ producer' = [c.p EXCEPT !.partitions = numPartitions, !.fresh = @ + 1]
       /\ cache' = [cache EXCEPT ![e] = c.partition]
       /\ Log(e, numPartitions, IF c.err THEN 0 ELSE c.partition, producer.fresh + 1)
  /\ UNCHANGED <<strategy, eventKey, leaders>>

Partition(e) ==
  /\ Len(sends) < MaxSends
  /\ Keep(e) \/ Assign(e)
  /\ UNCHANGED <<strategy, eventKey, leaders>>

(* A leader is lost or elected *)
LeadersChange ==
  /\ strategy.reachable
  /\ leaders' \in 1..Partitions
  /\ leaders' # leaders
  /\ Log(NoKey, 0, -1, 0)
  /\ Len(sends) < MaxSends
  /\ UNCHANGED <<strategy, eventKey, producer, cache>>

(* client.Connect makes a new producer, and with it a new partitioner *)
Reconnect ==
  /\ Len(sends) < MaxSends
  /\ producer' \in NewProducer
  /\ Log(NoKey, 0, -1, 0)
  /\ UNCHANGED <<strategy, eventKey, leaders, cache>>

PartitionNext == LeadersChange \/ Reconnect \/ \E e \in Events : Partition(e)

----------------------------------------------------------------------------
Sent == {i \in DOMAIN sends : sends[i].n > 0}
Undisturbed(i, j) == \A k \in i..j : sends[k].n = sends[i].n
Overflowed == strategy.kind = "round_robin" /\ (producer.partition < 0 \/ \E i \in Sent : sends[i].partition < 0)

(* Every message goes to a partition that the topic has, except behind the
   overflow of a round robin counter that begins at the largest number
   (partition.go:182-187), and in a group of events that was begun when more
   partitions were reachable (partition.go:159-164, 185-192). *)
PartitionsExist ==
  (~Overflowed /\ ~(strategy.reachable /\ strategy.group > 1)) => \A i \in Sent : sends[i].partition \in 0..(sends[i].n - 1)

(* An event that is sent again by the same producer, to the same number of
   partitions, goes to the partition it went to before: messagePartitioner
   "re-uses last configured partition in case of event being repartitioned". *)
RetryKeepsPartition ==
  \A i, j \in Sent :
    (i < j /\ sends[i].event = sends[j].event /\ Undisturbed(i, j) /\ sends[i].partition \in 0..(sends[i].n - 1))
      => sends[i].partition = sends[j].partition

(* Events with the same key go to the same partition, over reconnects of the
   client too, as long as all partitions are counted. *)
SameKeySamePartition ==
  (strategy.kind \in {"hash", "fields"} /\ ~strategy.reachable) =>
    \A i, j \in Sent :
      LET a == eventKey[sends[i].event]
          b == eventKey[sends[j].event]
      IN  (a = b /\ a # NoKey) => sends[i].partition = sends[j].partition

(* group_events: the messages that a producer places are placed in groups of
   that size, one group after the other to the next partition of a topic
   (cfgRoundRobinPartitioner). *)
GroupsRotate ==
  (strategy.kind = "round_robin" /\ ~Overflowed) =>
    \A i, j \in Sent :
      (i < j /\ Undisturbed(i, j) /\ sends[i].fresh > 0 /\ sends[j].fresh = sends[i].fresh + 1
         /\ sends[i].partition < sends[i].n) =>
        sends[j].partition = IF sends[i].fresh % strategy.group # 0 THEN sends[i].partition
                             ELSE (sends[i].partition + 1) % sends[i].n

-----------------------------------------------------------------------------
(***************************************************************************)
(* Waiting between attempts: the two strategies of common/backoff, the     *)
(* redis client that keeps the reason of a failure (outputs/redis/         *)
(* backoff.go), and the stateless function given to the kafka library      *)
(* (outputs/kafka/config.go).  Durations are counted in a coarse unit.     *)
(***************************************************************************)

CONSTANTS
  Durations,  \* the values of init and max
  MaxFails    \* failures in a row that are counted

VARIABLES
  strategyKind,  \* "exp", "jitter", "redis" or "kafka", never changes
  limits,        \* [init, max], never changes
  duration,      \* Backoff.duration
  reason,        \* backoffClient.reason of the redis output
  done,          \* the channel is closed
  wait,          \* how long the last Wait may block, a set, or None
  fails          \* history: failures since a call succeeded, and since the duration may be reset

backoffVars == <<strategyKind, limits, duration, reason, done, wait, fails>>

First == IF strategyKind = "exp" THEN limits.init ELSE 2 * limits.init

BackoffInit ==
  /\ strategyKind \in {"exp", "jitter", "redis", "kafka"}
  /\ limits \in [init : Durations, max : Durations]
  /\ duration = First
  /\ reason = "failNone" /\ done = FALSE /\ wait = None
  /\ fails = [calls |-> 0, kept |-> 0, inner |-> FALSE]

maxBackoffRetries == CHOOSE n \in 0..10 : limits.init * 2^n >= limits.max /\ \A m \in 0..(n - 1) : limits.init * 2^m < limits.max

(* The kafka function: 2^n init below ceil(log2(max / init)) *)
makeBackoffFunc(retries) ==
  LET dur == IF retries < maxBackoffRetries THEN limits.init * 2^retries ELSE limits.max
      limit == dur \div 2
  IN  limit..(2 * limit)

Blocked ==
  CASE strategyKind = "exp" -> {duration}
    [] strategyKind = "kafka" -> makeBackoffFunc(fails.calls)
    [] OTHER -> LET temp == duration \div 2 IN temp..(2 * temp - 1)

(* Wait: the duration doubles up to the maximum.  A closed channel ends it. *)
Wait ==
  /\ wait' = IF done THEN {0} ELSE Blocked
  /\ duration' = IF 2 * duration > limits.max THEN limits.max ELSE 2 * duration

Reset == duration' = First /\ wait' = None

(* The history of the calls.  kept is for the redis client: a connection that
   comes up does not end it when publishing failed with an error of redis. *)
Capped(n) == IF n < MaxFails THEN n + 1 ELSE n
CallFailed(inner) ==
  fails' = [calls |-> Capped(fails.calls), kept |-> Capped(fails.kept), inner |-> fails.inner \/ inner]
CallSucceeded(published) ==
  fails' = [calls |-> 0, kept |-> IF fails.inner /\ ~published THEN fails.kept ELSE 0, inner |-> fails.inner /\ ~published]

(* WaitOnError, and the call that the kafka library makes after a failure *)
WaitOnError(err) ==
  /\ strategyKind # "redis"
  /\ IF err THEN Wait /\ CallFailed(FALSE) ELSE Reset /\ CallSucceeded(TRUE)
  /\ UNCHANGED <<strategyKind, limits, reason, done>>

(* updateFailReason.  The test for a redis.Error asks for a pointer, which the
   library never returns, and so never finds one. *)
isRedisError(err) == FALSE
updateFailReason(err) == IF reason = "failRedis" \/ isRedisError(err) THEN "failRedis" ELSE "failOther"

(* Connect of the redis client *)
RedisConnect(err) ==
  /\ strategyKind = "redis"
  /\ IF err # "none" THEN Wait /\ reason' = updateFailReason(err) /\ CallFailed(FALSE)
     ELSE IF reason # "failRedis" THEN Reset /\ reason' = "failNone" /\ CallSucceeded(FALSE)
     ELSE wait' = None /\ CallSucceeded(FALSE) /\ UNCHANGED <<duration, reason>>
  /\ UNCHANGED <<strategyKind, limits, done>>

(* Publish of the redis client: an error of the server or of the network *)
RedisPublish(err) ==
  /\ strategyKind = "redis"
  /\ IF err # "none" THEN Wait /\ reason' = updateFailReason(err) /\ CallFailed(err = "redis")
     ELSE Reset /\ reason' = "failNone" /\ CallSucceeded(TRUE)
  /\ UNCHANGED <<strategyKind, limits, done>>

CloseDone ==
  /\ strategyKind # "kafka" /\ ~done /\ done' = TRUE
  /\ UNCHANGED <<strategyKind, limits, duration, reason, wait, fails>>

BackoffNext ==
  \/ \E err \in BOOLEAN : WaitOnError(err)
  \/ \E err \in {"none", "redis", "network"} : RedisConnect(err) \/ RedisPublish(err)
  \/ CloseDone

----------------------------------------------------------------------------
(* The exponential duration before the n-th wait in a row *)
Exponential(n) == LET d == First * 2^(n - 1) IN IF n > 1 /\ d > limits.max THEN limits.max ELSE d

Jittered(w, d) == IF strategyKind = "exp" THEN w = d ELSE 2 * w >= d - 1 /\ w < d

(* "The backoff timer must not be reset on a successful reconnect after publishing
   failed with a redis internal error" (redis/backoff.go:40-45), so that the waits
   grow until an event is published.  Not so in the code: the test asks for a
   pointer (backoff.go:106-107) where the library gives a value (client.go:290),
   so the reason is never failRedis and every reconnect resets the timer. *)
ReconnectKeepsBackoff ==
  (wait # None /\ ~done /\ strategyKind = "redis" /\ fails.kept < MaxFails) =>
     \A w \in wait : Jittered(w, Exponential(fails.kept))

(* What holds: waits grow exponentially from the initial one up to the maximum and
   stay there as long as no call succeeds (Wait of both strategies), the jittered
   ones between a half and all of the duration, and begin anew after one that
   does. *)
WaitsGrow ==
  (wait # None /\ ~done /\ strategyKind # "kafka" /\ fails.calls < MaxFails) =>
     \A w \in wait : Jittered(w, Exponential(fails.calls))

(* The kafka function never waits longer than the maximum, and from the
   failure on where doubling exceeds it no less than half of it. *)
KafkaWaitsBounded ==
  (strategyKind = "kafka" /\ wait # None /\ ~done /\ fails.calls < MaxFails) =>
     \A w \in wait : /\ w <= limits.max
                     /\ (limits.init * 2^(fails.calls - 1) >= limits.max => 2 * w >= limits.max - 1)
                     /\ (fails.calls > 1 => 2 * w + 1 >= limits.init \/ limits.max < limits.init)
=============================================================================
