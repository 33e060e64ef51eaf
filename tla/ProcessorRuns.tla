--------------------------- MODULE ProcessorRuns ----------------------------
(***************************************************************************)
(* Processors that add to an event, and one run of every stateless         *)
(* processor, on events and configurations that make the difference.       *)
(***************************************************************************)
EXTENDS FieldActions, TLC

-----------------------------------------------------------------------------
(***************************************************************************)
(* The processors that add something to an event: an identifier, a hash, a *)
(* data stream, the container it comes from.  The hash functions are       *)
(* external; they are one to one here.                                     *)
(***************************************************************************)

Name(text) == Leaf(Str(text))
Drop(err) == Err(NoEvent, err)

(* fingerprint: the fields are hashed in sorted order *)
writeFields(c, e) ==
  LET step(r, k) ==
        LET v == GetValue(e, k)
        IN  IF r.err # "" THEN r
            ELSE IF v.err # "" THEN (IF c.ignoreMissing THEN r ELSE [r EXCEPT !.err = "missing"])
            ELSE IF <<>> \notin DOMAIN v.tree \/ v.tree[<<>>].kind \in {"array", "map"}
                 THEN [r EXCEPT !.err = "not a scalar"]
            ELSE [r EXCEPT !.hashed = @ \o <<"|">> \o k \o <<"|">> \o v.tree[<<>>].text]
  IN  FoldLeft(step, [hashed |-> <<>>, err |-> ""], c.fields)

dropUnlessPut(put) == IF put.err # "" THEN Drop(put.err) ELSE put

putHash(c, e, h) == IF h.err # "" THEN Drop(h.err) ELSE dropUnlessPut(PutValue(e, c.to, Name(h.hashed)))

fingerprint(c, e) == putHash(c, e, writeFields(c, e))

(* add_id, add_locale, add_formatted_index *)
addID(c, e) == dropUnlessPut(PutValue(e, c.to, Name(<<"id">>)))

(* The offset of the zone, in minutes, as sign, hours and minutes *)
Format(offset) ==
  LET o == IF offset < 0 THEN -offset ELSE offset
  IN  [sign |-> IF offset < 0 THEN "-" ELSE "+", h |-> o \div 60, m |-> o - (o \div 60) * 60]

addLocale(c, e) ==
  Ok(PutValue(e, <<"event", "timezone">>, Name(<<Format(c.offset).sign>>)).event)

addFormattedIndex(c, e) ==
  LET index == IF c.fullEvent THEN GetValue(e, c.from) ELSE GetValue(e, Timestamp)
  IN  IF index.err # "" THEN Drop(index.err)
      ELSE Ok(Graft(e, <<"@metadata", "raw_index">>, Name(<<"index">>)))

(* add_data_stream: a dataset in the metadata of the event wins *)
addDataStream(c, e) ==
  LET custom == GetValue(e, <<"@metadata", "dataset">>)
      dataset == IF custom.err = "" THEN custom.tree[<<>>].text ELSE c.dataset
      indexed == Graft(e, <<"@metadata", "raw_index">>, Name(<<"logs">> \o dataset))
      event == PutValue(indexed, <<"event", "dataset">>, Name(dataset)).event
  IN  Ok(Graft(event, <<"data_stream">>, [s \in {<<"dataset">>} |-> Str(dataset)]))

(* timeseries: the dimensions of the mapping; the first definition of a name
   counts unless a later one overwrites it *)
isDimension(f) ==
  IF f.dimension = "unset" THEN f.type = "keyword" ELSE f.dimension = "true"

populateDimensions(fields) ==
  FoldLeft(LAMBDA d, f : IF f.name \in DOMAIN d /\ ~f.overwrite THEN d
                         ELSE [n \in DOMAIN d \cup {f.name} |->
                                 IF n = f.name THEN [dim |-> isDimension(f), prefix |-> f.object]
                                 ELSE d[n]],
           <<>>, fields)

Dimensions(c, e) ==
  LET d == populateDimensions(c.mapping)
  IN  {p \in DOMAIN e \ NotFields(e) :
         \E n \in DOMAIN d : d[n].dim /\ (IF d[n].prefix THEN IsStrictPrefix(n, p) ELSE n = p)}

timeseries(c, e) ==
  LET dims == Dimensions(c, e)
      hash == [i \in 1..Cardinality(dims) |->
                 LET p == SetToSeq(dims)[i] IN Value("dimension", p, <<e[p]>>)]
  IN  IF ~c.timeSeries THEN Ok(e)
      ELSE Ok(Graft(e, <<"timeseries">>, [s \in {<<"instance">>} |-> Arr(hash)]))

(* translate_sid: all targets are tried, the errors are collected *)
translateSID(c, e) ==
  LET value == GetValue(e, c.from)
      text == value.tree[<<>>].text
      write(r, p) ==
        LET put == PutValue(r.event, p, Name(<<"sid">> \o p))
        IN  IF p = <<>> THEN r
            ELSE IF put.err # "" THEN Err(r.event, put.err) ELSE Err(put.event, r.err)
  IN  IF value.err # "" THEN Err(e, value.err)
      ELSE IF ~IsKind(value.tree, "string") THEN Err(e, "not a string")
      ELSE IF ~Decodes(text) THEN Err(e, "none mapped")
      ELSE FoldLeft(write, Ok(e), c.targets)

ignoredSID(c, r) ==
  IF c.ignoreFailure \/ (c.ignoreMissing /\ r.err = KeyNotFound) THEN Ok(r.event) ELSE r

translateSIDProcessor(c, e) == ignoredSID(c, translateSID(c, e))

(* syslog: the fields that could be parsed are written even when the message
   as a whole could not; the message of the error joins those before it *)
appendStringField(e, p) ==
  LET old == GetValue(e, p)
      new == Str(<<"failed">>)
  IN  IF old.err # "" THEN PutValue(e, p, Leaf(new)).event
      ELSE IF IsKind(old.tree, "string") THEN Graft(e, p, Leaf(Arr(<<old.tree[<<>>], new>>)))
      ELSE IF IsKind(old.tree, "array") THEN Graft(e, p, Leaf(Arr(Append(old.tree[<<>>].items, new))))
      ELSE e

writeSyslog(text, written) ==
  IF ~Decodes(text) THEN Err(written, "parse") ELSE setTimestamp(written, Leaf(Time(<<"syslog">>)))

runSyslog(c, e, value) ==
  LET text == value.tree[<<>>].text
      parsed == [q \in {<<"log", "syslog">>} |-> Str(Tail(text))]
  IN  IF value.err # "" THEN Missing(c, e, value.err)
      ELSE IF ~IsKind(value.tree, "string") THEN Err(e, "not a string")
      ELSE IF text = <<>> THEN Err(e, "parse")
      ELSE writeSyslog(text, WriteJSONKeys(e, parsed, FALSE, c.overwrite, ~c.ignoreFailure))

syslogProcessor(c, e) ==
  tellFailure(c, runSyslog(c, e, GetValue(e, c.from)), LAMBDA x : appendStringField(x, ErrorMessage))

(* community_id: the flow of a packet.  Numbers are cut to the width of their
   type before they are looked at: the protocol has IntBits bits here, with
   icmp 1 and tcp 6; MaxPort stands for 65535. *)
MaxPort == 7
icmpProtocol == 1
tcpProtocol == 6

tryToUint(tree) ==
  IF (IsKind(tree, "number") \/ IsKind(tree, "string")) /\ IsInt(tree[<<>>].text)
     /\ (IsKind(tree, "string") => tree[<<>>].text[1] # "-")
  THEN IF NumberOf(tree[<<>>].text) < 0 THEN MaxPort + 2^IntBits + NumberOf(tree[<<>>].text) + 1
       ELSE NumberOf(tree[<<>>].text)
  ELSE -1

tryToIANATransportProtocol(tree) ==
  IF IsKind(tree, "string") /\ tree[<<>>].text = <<"t", "c", "p">> THEN tcpProtocol
  ELSE IF tryToUint(tree) = -1 THEN -1 ELSE tryToUint(tree) % 2^IntBits

NoFlow == [known |-> FALSE, protocol |-> 0, ports |-> <<>>]

buildFlow(c, e) ==
  LET tree(p) == GetValue(e, p).tree
      protocol == tryToIANATransportProtocol(IF Has(e, c.iana) THEN tree(c.iana) ELSE tree(c.transport))
      ports == [i \in 1..2 |-> tryToUint(tree(c.ports[i]))]
  IN  IF ~IsIP(Text(e, c.from)) \/ ~IsIP(Text(e, c.dest)) THEN NoFlow
      ELSE IF ~Has(e, c.iana) /\ ~Has(e, c.transport) THEN NoFlow
      ELSE IF protocol = -1 THEN NoFlow
      ELSE IF protocol # tcpProtocol THEN [known |-> TRUE, protocol |-> protocol, ports |-> <<>>]
      ELSE IF \E i \in 1..2 : ~Has(e, c.ports[i]) \/ ports[i] \notin 0..MaxPort THEN NoFlow
      ELSE [known |-> TRUE, protocol |-> protocol, ports |-> ports]

communityID(c, e) ==
  IF Has(e, c.to) \/ ~buildFlow(c, e).known THEN Ok(e)
  ELSE PutValue(e, c.to, Name(<<"flow">>))

(* add_docker_metadata: the container from the path of the file, else from
   the control group of a process, else from a field *)
ContainerID == <<"container", "id">>

lookupContainerIDByPID(c, e) ==
  LET known == SelectSeq(c.pidFields, LAMBDA f :
                 Has(e, f) /\ IsKind(GetValue(e, f).tree, "number") /\ e[f].text \in DOMAIN c.cgroups)
  IN  IF known = <<>> THEN <<>> ELSE c.cgroups[e[known[1]].text]

enrichContainer(c, e, cid) ==
  IF cid \notin c.containers THEN Ok(e)
  ELSE Ok(deepUpdate(e, [p \in {ContainerID, <<"container", "name">>} |->
                           IF p = ContainerID THEN Str(cid) ELSE Str(<<"name">> \o cid)], TRUE))

givenContainer(e, given) == IF given # <<>> THEN Text(e, given[1]) ELSE <<>>

findContainer(c, e, x, fromFile, fromPID) ==
  IF fromFile # <<>> THEN enrichContainer(c, x, fromFile)
  ELSE IF fromPID # <<>> THEN enrichContainer(c, PutValue(x, ContainerID, Name(fromPID)).event, fromPID)
  ELSE enrichContainer(c, x, givenContainer(e, SelectSeq(c.idFields, LAMBDA f :
                                 Has(e, f) /\ IsKind(GetValue(e, f).tree, "string"))))

afterFile(c, e, file) ==
  IF file.err # "" THEN Ok(file.event)
  ELSE findContainer(c, e, file.event, Text(file.event, ContainerID),
                     lookupContainerIDByPID(c, file.event))

addDockerMetadata(c, e) ==
  IF ~c.available THEN Ok(e)
  ELSE IF c.matchSource /\ Has(e, c.from) THEN afterFile(c, e, extractField(c, e))
  ELSE findContainer(c, e, e, <<>>, lookupContainerIDByPID(c, e))

-----------------------------------------------------------------------------
(***************************************************************************)
(* One call of a processor's Run on an event: which processor, with which  *)
(* configuration and on which event is chosen at the start.                *)
(***************************************************************************)

VARIABLES
  proc,       \* the processor that runs
  conf,       \* its configuration
  input,      \* the event it is given
  output,     \* what it returned, or NotYet
  again       \* it has seen the event before

runVars == <<proc, conf, input, output, again>>

NotYet == Err(NoEvent, "not yet")

(* The configuration of a processor: the defaults, and what is set *)
PA == <<"a">>
PAX == <<"a", "x">>
PB == <<"b">>
PBY == <<"b", "y">>
PD == <<"d">>
PM == <<"@metadata", "dataset">>

Flags == [ignoreMissing : BOOLEAN, failOnError : BOOLEAN]
Pair(from, to) == [from |-> from, to |-> to]

PairLists == {<<Pair(PA, PD)>>, <<Pair(PA, PAX)>>, <<Pair(PAX, PA)>>, <<Pair(PA, PB)>>, <<Pair(PA, PBY)>>,
              <<Pair(PB, PD), Pair(PD, PA)>>, <<Pair(PB, PD), Pair(PAX, PBY)>>, <<Pair(PA, Timestamp)>>,
              <<Pair(Timestamp, PD)>>, <<Pair(Metadata, PD)>>}
FieldLists == {<<PA>>, <<PAX>>, <<PB, PA>>, <<PA, PBY>>, <<<<"type">>, PB>>}

With(fields) == {[f EXCEPT !.failOnError = @] @@ ("fields" :> l) : f \in Flags, l \in fields}

RenameConfs == With(PairLists)
ReplaceConfs == With({<<[field |-> p, pattern |-> "1", replacement |-> "A"]>> : p \in {PA, PAX, PB}})
TruncateConfs ==
  {c @@ ("maxBytes" :> m[1]) @@ ("maxChars" :> m[2]) :
     c \in With(FieldLists), m \in {<<0, 1>>, <<1, 0>>, <<2, 0>>, <<0, 0>>}}
AppendConfs ==
  {c @@ ("target" :> t) @@ ("values" :> v) @@ ("ignoreEmpty" :> i) @@ ("allowDuplicate" :> d) :
     c \in With({<<>>, <<PB>>, <<PAX, PB>>}), t \in {PA, PBY},
     v \in {<<>>, <<Str(<<>>), Str(<<"1">>)>>}, i \in BOOLEAN, d \in BOOLEAN}
LowercaseConfs ==
  {c @@ ("values" :> v) @@ ("alterFullField" :> f) :
     c \in With({<<>>, <<PA>>, <<PAX>>, <<<<"A">>, PB>>}), v \in {<<>>, <<PB>>, <<PAX>>}, f \in BOOLEAN}
CodecConfs ==
  {c @@ Pair(f, t) : c \in Flags, f \in {PA, PAX, PB}, t \in {PA, PAX, PBY, PD}}
DropConfs ==
  {[ignoreMissing |-> i, fields |-> l, regexp |-> r] :
     i \in BOOLEAN, l \in FieldLists, r \in {{}, {PAX, PBY}}}
IncludeConfs == {[fields |-> l] : l \in FieldLists}
AddConfs ==
  {[add |-> a, target |-> t, overwrite |-> o] :
     a \in {[p \in {PA} |-> Str(<<"n">>)], [p \in {PAX, PB} |-> Str(<<"n">>)],
            [p \in {Timestamp} |-> Time(<<"T1">>)], [p \in {PM} |-> Str(<<"n">>)]},
     t \in {<<>>, PD, PA}, o \in BOOLEAN}
TagConfs == {[tags |-> <<Str(<<"t">>)>>, target |-> t] : t \in {<<>>, PA, PAX}}
ExtractFieldConfs ==
  {[from |-> f, separator |-> s, index |-> i, to |-> t] :
     f \in {PA, PAX, PB}, s \in {".", "W"}, i \in 0..2, t \in {PAX, PD}}
DirectionConfs ==
  {[from |-> PA, dest |-> PB, to |-> t, badNetwork |-> b] : t \in {PAX, PD}, b \in BOOLEAN}
MoveConfs ==
  {[from |-> f, to |-> t, fields |-> l, exclude |-> x, ignoreMissing |-> i, order |-> o] :
     f \in {<<>>, PA, PB}, t \in {PD, PA}, l \in {<<>>, <<<<"x">>, <<"y">>>>}, x \in {{}, {PA}, {<<"x">>}},
     i \in BOOLEAN, o \in {<<PA, PB, <<"x">>, <<"y">>, <<"error">>>>, <<<<"error">>, <<"y">>, <<"x">>, PB, PA>>}}
ConvertConfs ==
  {c @@ ("mode" :> m) @@ ("fields" :> l) : c \in Flags, m \in {"copy", "rename"},
     l \in {<<[from |-> p, to |-> t, type |-> k]>> : p \in {PA, PAX, PB}, t \in {<<>>, PD, PBY},
                k \in {"string", "long", "integer", "float", "boolean", "ip", "unset"}}
           \cup {<<[from |-> PB, to |-> PD, type |-> "integer"],
                   [from |-> PA, to |-> t, type |-> "unset"]>> : t \in {PD, PBY, PAX}}}
CSVConfs ==
  {c @@ ("overwrite" :> o) @@ ("separator" :> ".") :
     c \in With({<<Pair(PA, PD)>>, <<Pair(PA, PA)>>, <<Pair(PAX, PB), Pair(PB, PD)>>}), o \in BOOLEAN}
URLConfs == {c @@ ("from" :> <<>>) : c \in With({<<Pair(PA, <<>>)>>, <<Pair(PB, PD), Pair(PAX, PBY)>>})}
ArrayConfs ==
  {c @@ ("from" :> PA) @@ ("omitEmpty" :> e) @@ ("overwrite" :> o) @@ ("mappings" :> m) :
     c \in Flags, e \in BOOLEAN, o \in BOOLEAN,
     m \in {<<[index |-> 0, to |-> PD], [index |-> 1, to |-> PB]>>,
            <<[index |-> 0, to |-> PBY], [index |-> 5, to |-> PD]>>}}
JSONConfs ==
  {[fields |-> l, maxDepth |-> m, processArray |-> p, documentID |-> <<"id">>, hasTarget |-> h,
    target |-> t, expandKeys |-> x, overwrite |-> o, addErrorKey |-> o] :
     l \in {<<PA>>, <<PA, PB>>}, m \in 1..2, p \in BOOLEAN, h \in BOOLEAN, t \in {<<>>, PD, PBY},
     x \in BOOLEAN, o \in BOOLEAN}
XMLConfs ==
  {[from |-> PA, to |-> t, documentID |-> <<"id">>, overwrite |-> o, ignoreMissing |-> m,
    ignoreFailure |-> f] : t \in {<<>>, PA, PBY}, o \in BOOLEAN, m \in BOOLEAN, f \in BOOLEAN}
DomainConfs ==
  {[from |-> f, to |-> t, etld |-> PBY, subdomain |-> s, ignoreMissing |-> m, ignoreFailure |-> g] :
     f \in {PA, PAX}, t \in {PD, PBY}, s \in {<<>>, <<"a", "s">>}, m \in BOOLEAN, g \in BOOLEAN}
TimestampConfs ==
  {[from |-> f, to |-> t, layouts |-> l, ignoreMissing |-> m, ignoreFailure |-> g] :
     f \in {PA, PB, Timestamp}, t \in {Timestamp, PBY}, l \in {<<"UNIX">>, <<"W", "UNIX_MS">>},
     m \in BOOLEAN, g \in BOOLEAN}
SIDConfs ==
  {[from |-> f, targets |-> t, ignoreMissing |-> m, ignoreFailure |-> g] :
     f \in {PA, PB}, t \in {<<PD, PBY>>, <<PAX, PD>>, <<<<>>, PD>>}, m \in BOOLEAN, g \in BOOLEAN}
FingerprintConfs ==
  {[fields |-> l, to |-> t, ignoreMissing |-> m] :
     l \in {<<PA, PB>>, <<PAX, PBY>>, <<Timestamp>>}, t \in {PD, PBY}, m \in BOOLEAN}
FlowConfs ==
  {[from |-> PA, dest |-> PB, iana |-> i, transport |-> <<"type">>, ports |-> <<p, p>>, to |-> PD] :
     i \in {PAX, <<"n">>}, p \in {<<"n">>, PBY}}
StreamConfs == {[dataset |-> <<"generic">>]}
SeriesConfs ==
  {[timeSeries |-> s, mapping |-> <<[name |-> PA, type |-> k, object |-> o, dimension |-> "unset", overwrite |-> FALSE],
                                    [name |-> PA, type |-> "long", object |-> FALSE, dimension |-> d, overwrite |-> w]>>] :
     s \in BOOLEAN, k \in {"keyword", "long"}, o \in BOOLEAN, d \in {"unset", "true", "false"}, w \in BOOLEAN}
SyslogConfs ==
  {[from |-> f, overwrite |-> o, ignoreMissing |-> m, ignoreFailure |-> g] :
     f \in {PA, PB}, o \in BOOLEAN, m \in BOOLEAN, g \in BOOLEAN}
DockerConfs ==
  {[from |-> PA, separator |-> "W", index |-> 0, to |-> ContainerID, available |-> v, matchSource |-> s,
    pidFields |-> <<<<"n">>, PB>>, cgroups |-> [t \in {<<"5">>} |-> <<"c2">>],
    idFields |-> <<PB>>, containers |-> {<<"1">>, <<"c2">>}] : v \in BOOLEAN, s \in BOOLEAN}
Apply(p, c, e) ==
  CASE p = "rename" -> renameFields(c, e)
    [] p = "copy_fields" -> copyFields(c, e)
    [] p = "replace" -> replaceString(c, e)
    [] p = "truncate_fields" -> truncateFields(c, e)
    [] p = "append" -> appendProcessor(c, e)
    [] p = "lowercase" -> alterFieldProcessor(c, e)
    [] p = "decode_base64_field" -> decodeBase64Field(c, e)
    [] p = "decompress_gzip_field" -> decompressGzipField(c, e)
    [] p = "drop_fields" -> dropFields(c, e)
    [] p = "include_fields" -> includeFields(c, e)
    [] p = "drop_event" -> dropEvent(c, e)
    [] p = "add_fields" -> addFields(c, e)
    [] p = "add_labels" -> addLabels(c, e)
    [] p = "add_tags" -> addTags(c, e)
    [] p = "extract_field" -> extractField(c, e)
    [] p = "detect_mime_type" -> detectMimeType(c, e)
    [] p = "add_network_direction" -> addNetworkDirection(c, e)
    [] p = "move_fields" -> moveFields(c, e)
    [] p = "convert" -> convert(c, e)
    [] p = "decode_csv_fields" -> decodeCSVFields(c, e)
    [] p = "urldecode" -> urlDecode(c, e)
    [] p = "decode_duration" -> decodeDuration(c, e)
    [] p = "extract_array" -> extractArray(c, e)
    [] p = "registered_domain" -> registeredDomain(c, e)
    [] p = "timestamp" -> timestamp(c, e)
    [] p = "decode_json_fields" -> decodeJSONFields(c, e)
    [] p = "decode_xml" -> decodeXML(c, e)
    [] p = "fingerprint" -> fingerprint(c, e)
    [] p = "add_id" -> addID(c, e)
    [] p = "add_locale" -> addLocale(c, e)
    [] p = "add_formatted_index" -> addFormattedIndex(c, e)
    [] p = "add_data_stream" -> addDataStream(c, e)
    [] p = "timeseries" -> timeseries(c, e)
    [] p = "translate_sid" -> translateSIDProcessor(c, e)
    [] p = "syslog" -> syslogProcessor(c, e)
    [] p = "community_id" -> communityID(c, e)
    [] p = "add_docker_metadata" -> addDockerMetadata(c, e)

(* The events: what is at "a", at "b" and at "error" *)
NoField == <<>>
Fields(p, values) == {[q \in {p} |-> v] : v \in values}
AParts == Fields(PA, {Str(<<"1", ".", "W", "a">>), Str(<<"A">>), Num(<<"5">>), Arr(<<Str(<<"1">>), Str(<<>>)>>), EmptyMap})
            \cup Fields(PAX, {Str(<<"1", ".", "2">>), Str(<<"%", "A">>)}) \cup {NoField}
BParts == Fields(PB, {Str(<<"1">>), Str(<<"!">>)}) \cup Fields(PBY, {Num(<<"5">>)}) \cup {NoField}
Others == {NoField, [q \in {<<"error">>} |-> Str(<<"e">>)], [q \in {PM} |-> Str(<<"ds">>)]}
Stamp == [q \in {Timestamp} |-> Time(<<"T0">>)]
Events == {Stamp @@ a @@ b @@ o : a \in AParts, b \in BParts, o \in Others}
JSONTexts == {"{x:1}", "{x.y:1}", "{x.y:1,x:2}", "{@timestamp:T}", "{@timestamp:1}", "{type:_}", "{id:7}",
              "{x:'{x:1}'}", "{x:'[1]'}", "{x:'{'}", "[1]", "1", "?"}
JSONEvents == {Stamp @@ [q \in {PA} |-> Str(<<t>>)] @@ b @@ [q \in {<<"x">>} |-> v] :
                 t \in JSONTexts, b \in BParts, v \in {Str(<<"1">>)}}
FlowEvents ==
  {Stamp @@ [q \in {PA, PB} |-> Str(<<"1">>)] @@ [q \in {<<"n">>} |-> n] @@ t @@ [q \in {PD} |-> Str(<<"9">>)] :
     n \in {Num(<<"6">>), Num(<<"1">>), Num(<<"9">>), Num(<<"-", "2">>), Str(<<"x">>)},
     t \in {NoField, [q \in {<<"type">>} |-> Str(<<"t", "c", "p">>)]}}
CaseEvents == {Stamp @@ a @@ b : a \in Fields(<<"A">>, {Str(<<"A">>)}) \cup Fields(<<"A", "x">>, {Num(<<"5">>)}),
                                b \in AParts \cup BParts}

WideEvents == {Stamp @@ a : a \in Fields(PA, {Str(<<"5">>), Str(<<"-", "5">>)})}

Calls(p, confs, events) == proc = p /\ conf \in confs /\ input \in events

RunInit ==
  /\ output = NotYet /\ again = FALSE
  /\ \/ \E p \in {"rename", "copy_fields"} : Calls(p, RenameConfs, Events)
     \/ Calls("replace", ReplaceConfs, Events)
     \/ Calls("truncate_fields", TruncateConfs, Events)
     \/ Calls("append", AppendConfs, Events)
     \/ Calls("lowercase", LowercaseConfs, Events \cup CaseEvents)
     \/ \E p \in {"decode_base64_field", "decompress_gzip_field"} : Calls(p, CodecConfs, Events)
     \/ Calls("drop_fields", DropConfs, Events)
     \/ Calls("include_fields", IncludeConfs, Events)
     \/ Calls("drop_event", {<<>>}, Events)
     \/ \E p \in {"add_fields", "add_labels"} : Calls(p, AddConfs, Events)
     \/ Calls("add_tags", TagConfs, Events)
     \/ Calls("extract_field", ExtractFieldConfs, Events)
     \/ \E p \in {"detect_mime_type", "add_network_direction"} : Calls(p, DirectionConfs, Events)
     \/ Calls("move_fields", MoveConfs, Events)
     \/ Calls("convert", ConvertConfs, Events \cup WideEvents)
     \/ Calls("decode_csv_fields", CSVConfs, Events)
     \/ Calls("urldecode", URLConfs, Events)
     \/ Calls("decode_duration", {[from |-> f, unit |-> <<".", "0">>] : f \in {PA, PB}}, Events)
     \/ Calls("extract_array", ArrayConfs, Events)
     \/ Calls("registered_domain", DomainConfs, Events)
     \/ Calls("timestamp", TimestampConfs, Events)
     \/ Calls("decode_json_fields", JSONConfs, JSONEvents)
     \/ Calls("decode_xml", XMLConfs, JSONEvents)
     \/ Calls("fingerprint", FingerprintConfs, Events)
     \/ Calls("add_id", {[to |-> t] : t \in {PD, PBY, Metadata}}, Events)
     \/ Calls("add_locale", {[offset |-> o] : o \in {-330, 90}}, Events)
     \/ Calls("add_formatted_index", {[fullEvent |-> f, from |-> PB] : f \in BOOLEAN}, Events)
     \/ Calls("add_data_stream", StreamConfs, Events)
     \/ Calls("timeseries", SeriesConfs, Events)
     \/ Calls("translate_sid", SIDConfs, Events)
     \/ Calls("syslog", SyslogConfs, Events)
     \/ Calls("community_id", FlowConfs, FlowEvents)
     \/ Calls("add_docker_metadata", DockerConfs, Events \cup FlowEvents)

Run ==
  /\ output = NotYet
  /\ output' = Apply(proc, conf, input)
  /\ UNCHANGED <<proc, conf, input, again>>
Done == output # NotYet
Dropped == output.event = NoEvent
Ran(procs) == Done /\ proc \in procs

(* The processors that find nothing left to do in an event they have seen.
   Such an event may meet the same processor again, in a client and then in
   the pipeline. *)
Repeatable == {"truncate_fields", "lowercase", "replace", "include_fields", "add_fields", "add_labels",
               "add_data_stream", "add_formatted_index", "add_locale", "timeseries", "registered_domain",
               "translate_sid", "community_id", "timestamp", "drop_fields", "add_docker_metadata"}
RunAgain ==
  /\ Ran(Repeatable) /\ ~again /\ output.err = "" /\ ~Dropped
  /\ input' = output.event
  /\ output' = NotYet
  /\ again' = TRUE
  /\ UNCHANGED <<proc, conf>>
RunNext == Run \/ RunAgain

(* The processors that promise to undo what they did when fail_on_error is
   set. *)
Transactional == {"rename", "copy_fields", "replace", "truncate_fields", "append", "lowercase",
                  "decode_base64_field", "decompress_gzip_field", "convert", "decode_csv_fields",
                  "urldecode", "extract_array"}

(* A processor with fail_on_error that fails halfway hands on the event as it
   was before it started, with at most the error message added: the backup
   that Run takes before its loop covers the fields that were already done. *)
FailureRestores ==
  Ran(Transactional) /\ conf.failOnError /\ output.err # "" /\ ~Dropped
    => output.event \in {input, WithMessage(input)}

(* The parts of the event that a processor may change. *)
Sources(c) == IF "from" \in DOMAIN c THEN {c.from} ELSE {}
Sinks(c) == (IF "to" \in DOMAIN c THEN {c.to} ELSE {}) \cup (IF "target" \in DOMAIN c THEN {c.target} ELSE {})
PairPaths(c) == UNION {{c.fields[i].from, c.fields[i].to} : i \in DOMAIN c.fields}
PathList(c) == {c.fields[i] : i \in DOMAIN c.fields}
Always == {<<"error">>, LogFlags, <<"log">>}
Targets ==
  Always \cup
  CASE proc \in {"rename", "convert", "decode_csv_fields", "urldecode"} -> PairPaths(conf)
    [] proc = "copy_fields" -> {conf.fields[i].to : i \in DOMAIN conf.fields}
    [] proc = "replace" -> {conf.fields[1].field}
    [] proc = "truncate_fields" -> PathList(conf)
    [] proc = "lowercase" -> PathList(conf) \cup {conf.values[i] : i \in DOMAIN conf.values}
                               \cup {<<"A">>, <<"a">>}
    [] proc = "append" -> {conf.target}
    [] proc \in {"add_fields"} -> {conf.target \o p : p \in DOMAIN conf.add}
    [] proc = "add_labels" -> {<<"labels">>}
    [] proc = "add_tags" -> {IF conf.target = <<>> THEN <<"tags">> ELSE conf.target}
    [] proc = "extract_array" -> {conf.mappings[i].to : i \in DOMAIN conf.mappings}
    [] proc = "registered_domain" -> {conf.to, conf.etld, conf.subdomain}
    [] proc = "translate_sid" -> {conf.targets[i] : i \in DOMAIN conf.targets}
    [] proc = "decode_duration" -> {conf.from}
    [] proc = "add_locale" -> {<<"event">>}
    [] proc = "add_formatted_index" -> {<<"@metadata", "raw_index">>}
    [] proc = "add_data_stream" -> {<<"@metadata", "raw_index">>, <<"event">>, <<"data_stream">>}
    [] proc = "timeseries" -> {<<"timeseries">>}
    [] proc = "add_docker_metadata" -> {<<"container">>}
    [] proc = "syslog" -> {Timestamp}
    [] proc \in {"fingerprint", "add_id", "community_id", "timestamp", "extract_field",
                 "decode_base64_field", "decompress_gzip_field", "detect_mime_type",
                 "add_network_direction"} -> {IF conf.to = <<>> THEN conf.from ELSE conf.to}
    [] OTHER -> {<<>>}

Touched(q) == \E t \in Targets : IsPrefix(t, q) \/ IsPrefix(q, t)

(* A processor changes nothing but the fields its configuration names, the
   error fields and the log flags: every other leaf of the event is handed on
   with its value, and no other leaf appears. *)
OnlyTargetsChange ==
  Done /\ ~Dropped
    => \A q \in DOMAIN input \cup DOMAIN output.event :
         Touched(q) \/ (q \in DOMAIN input /\ q \in DOMAIN output.event
                          /\ output.event[q] = input[q])

ValuesOf(e) == {e[q] : q \in DOMAIN e} \ {EmptyMap}

(* Moving values about loses none of them: what rename, copy_fields and
   move_fields hand on without an error holds every value of the event they
   were given, even when a field moves below itself.  A rename that does not
   fail on errors may lose one, since it deletes before it puts. *)
NoValueLost ==
  Ran({"rename", "copy_fields", "move_fields"}) /\ output.err = "" /\ ~Dropped
  /\ (proc = "rename" => conf.failOnError)
    => ValuesOf(input) \subseteq ValuesOf(output.event)

(* These processors leave alone what they have already done: an event that
   passes through the same processor again, as events do that are processed
   in a client and in the pipeline, comes out the same. *)
SecondRunChangesNothing == Ran(Repeatable) /\ again => output.event = input

(* append without allow_duplicate keeps the values in the order in which they
   came and has each of them once; doing it again adds nothing. *)
AppendedOnce ==
  Ran({"append"}) /\ ~conf.allowDuplicate /\ output.err = "" /\ Has(output.event, conf.target)
  /\ IsKind(GetValue(output.event, conf.target).tree, "array")
  /\ output.event # input
    => LET items == output.event[conf.target].items
       IN  /\ IsInjective(items)
           /\ (\A i \in DOMAIN conf.fields : ~IsPrefix(conf.fields[i], conf.target))
                => LET second == appendProcessor([conf EXCEPT !.ignoreMissing = TRUE], output.event)
                   IN  second.err = "" => second.event[conf.target].items = items

(* truncate_fields leaves in every field it is configured for at most the
   configured number of bytes or characters, and says so in log.flags. *)
TruncatedFits ==
  Ran({"truncate_fields"}) /\ output.err = ""
    => \A i \in DOMAIN conf.fields :
         LET p == conf.fields[i]
         IN  p \in DOMAIN output.event /\ output.event[p].kind = "string"
               => /\ IF conf.maxBytes > 0 THEN Bytes(output.event[p].text) <= conf.maxBytes
                     ELSE Len(output.event[p].text) <= conf.maxChars
                  /\ (output.event[p] # input[p] => LogFlags \in DOMAIN output.event)

(* A text that convert turns into a number still denotes that number: a text
   out of the range of the type is refused, where a wider integer is cut. *)
ConvertKeepsText ==
  Ran({"convert"}) /\ output.err = "" /\ Len(conf.fields) = 1 /\ conf.fields[1].to = PD
  /\ conf.fields[1].type \in {"long", "integer"} /\ PD \in DOMAIN output.event
  /\ IsKind(GetValue(input, conf.fields[1].from).tree, "string")
    => output.event[PD].text = input[conf.fields[1].from].text
=============================================================================
