--------------------------- MODULE EventPipeline ---------------------------
(***************************************************************************)
(* The processing of events between a client's Publish and the queue       *)
(* (publisher/processing), with the processors' own plumbing (processors/: *)
(* lists, conditions, closing).  builder.Create turns the configuration of *)
(* a client into a list of stages; an event runs through it stage by       *)
(* stage, while other clients publish and close.                           *)
(*                                                                         *)
(* Create avoids copying the static fields it adds where it can, so an     *)
(* event may hold maps that belong to the configuration and are seen by    *)
(* every other event.  An event is therefore a function from its top-level *)
(* keys to the map found there and to the owner of that map: the event     *)
(* (Own), or a map of the configuration.  The contents of a map say where  *)
(* each value comes from.                                                  *)
(***************************************************************************)
EXTENDS Naturals, Sequences, SequencesExt, FiniteSets, TLC

CONSTANTS
  Clients,          \* the clients of the pipeline
  Configs,          \* the functions from clients to their configurations
  GlobalLists,      \* the lists of global processors that may be configured
  MaxEvents         \* bound: events of one client

VARIABLES
  config,           \* client -> its configuration
  global,           \* the list of global processors
  stages,           \* client -> what builder.Create returned
  maps,             \* the maps of the configuration, by identity
  event,            \* client -> the event in its Publish, or NoEvent
  stage,            \* client -> the next stage of that event, 0 outside Publish
  outcome,          \* client -> what happened to its last event
  events,           \* client -> events published so far
  open,             \* the clients that are not closed
  builderOpen,      \* the builder's Close has not been called
  closed            \* processor -> how often its own Close has run

pipeVars == <<config, global, stages, maps, event, stage, outcome, events, open, builderOpen, closed>>

NoEvent == <<>>
Own == <<"event">>
MapId(c, name) == <<c, name>>
Builtin == <<"all", "builtin">>

(* Contents: host.x and host.y, from one origin; own.x for another key *)
HostFrom(origin) == [k \in {"host"} |-> [s \in {"x", "y"} |-> origin]]
HostX(origin) == [k \in {"host"} |-> [s \in {"x"} |-> origin]]
OtherX(origin) == [k \in {"other"} |-> [s \in {"x"} |-> origin]]
MetaX(origin) == [k \in {"@metadata"} |-> [s \in {"x"} |-> origin]]
NoMap == [k \in {} |-> <<>>]

(* mapstr.M.DeepUpdate of one configuration map into another *)
Over(new, old) ==
  [k \in DOMAIN new \cup DOMAIN old |->
     IF k \notin DOMAIN old THEN new[k] ELSE IF k \notin DOMAIN new THEN old[k] ELSE new[k] @@ old[k]]

----------------------------------------------------------------------------
(* The event and the maps it shares *)
At(e, m, k) == IF e[k].owner = Own THEN e[k].map ELSE m[e[k].owner][k]

(* What a stage leaves behind: the event, NoEvent when it is nil, the maps
   and whether there was an error *)
Left(e, m, err) == [event |-> e, maps |-> m, err |-> err]

(* Writing the map found at key k: in place, whoever owns it *)
Write(e, m, k, map) ==
  IF k \notin DOMAIN e THEN Left(e @@ (k :> [owner |-> Own, map |-> map]), m, FALSE)
  ELSE IF e[k].owner = Own THEN Left([e EXCEPT ![k].map = map], m, FALSE)
  ELSE Left(e, [m EXCEPT ![e[k].owner][k] = map], FALSE)

(* DeepUpdate of the event with the configuration map id.  A key the event
   does not have gets the map itself, or its copy. *)
AddKey(left, id, k, copy, overwrite) ==
  LET e == left.event
      new == left.maps[id][k]
  IN  IF k \notin DOMAIN e
      THEN Left(e @@ (k :> IF copy THEN [owner |-> Own, map |-> new] ELSE [owner |-> id, map |-> NoMap]),
                left.maps, FALSE)
      ELSE Write(e, left.maps, k,
                 IF overwrite THEN new @@ At(e, left.maps, k) ELSE At(e, left.maps, k) @@ new)

addFields(e, m, id, copy, overwrite) ==
  FoldLeft(LAMBDA left, k : AddKey(left, id, k, copy, overwrite), Left(e, m, FALSE), SetToSeq(DOMAIN m[id]))

addMeta(e, m, id, copy) == addFields(e, m, id, copy, TRUE)

makeAddDynMetaProcessor(e, m, id, copy) == addFields(e, m, id, copy, TRUE)

(* The generalizing stage drops empty events and gives the event maps of
   its own. *)
newGeneralizeProcessor(e, m) ==
  IF DOMAIN e \ {"@metadata"} = {} THEN Left(NoEvent, m, FALSE)
  ELSE Left([k \in DOMAIN e |-> [owner |-> Own, map |-> At(e, m, k)]], m, FALSE)

timeseries(e, m) ==
  Left([k \in DOMAIN e \cup {"timeseries"} |->
          IF k = "timeseries" THEN [owner |-> Own, map |-> ("instance" :> "hash")] ELSE e[k]], m, FALSE)

dropDisabledProcessor(e, m) == Left(NoEvent, m, FALSE)

----------------------------------------------------------------------------
(* Processors.  One has a name, does one of a few things, may have to be
   closed, and may be subject to a condition: that the event has a host. *)
Proc(name, does, closer, when) ==
  [name |-> name, does |-> does, closer |-> closer, when |-> when, then |-> <<>>, els |-> <<>>]

Check(e) == "host" \in DOMAIN e

PutAll(e, m, origin) ==
  LET host == Write(e, m, "host", ("x" :> origin) @@ (IF Check(e) THEN At(e, m, "host") ELSE NoMap))
      meta == IF "@metadata" \in DOMAIN e THEN At(e, m, "@metadata") ELSE NoMap
  IN  Write(host.event, host.maps, "@metadata", ("x" :> origin) @@ meta)

(* SafeProcessor: a closed processor does not run, and its event is lost *)
SafeRun(p, e, m, isClosed) ==
  IF p.closer /\ p.name \in isClosed THEN Left(NoEvent, m, TRUE)
  ELSE CASE p.does = "put" -> PutAll(e, m, p.name)
         [] p.does = "fail" -> Left(e, m, TRUE)
         [] p.does = "drop" -> Left(NoEvent, m, FALSE)
         [] p.does = "lose" -> Left(NoEvent, m, TRUE)
         [] OTHER -> Left(e, m, FALSE)

WhenRun(p, e, m, isClosed) ==
  IF p.when /\ ~Check(e) THEN Left(e, m, FALSE) ELSE SafeRun(p, e, m, isClosed)

(* A list of processors stops at the first error or without an event *)
ProcessorsRun(list, e, m, isClosed) ==
  LET go(left, p) == IF left.err \/ left.event = NoEvent THEN left
                     ELSE WhenRun(p, left.event, left.maps, isClosed)
  IN  FoldLeft(go, Left(e, m, FALSE), list)

IfThenElseRun(p, e, m, isClosed) ==
  IF Check(e) THEN ProcessorsRun(p.then, e, m, isClosed)
  ELSE IF p.els # <<>> THEN ProcessorsRun(p.els, e, m, isClosed)
  ELSE Left(e, m, FALSE)

ProcRun(p, e, m, isClosed) ==
  IF p.does = "if" THEN IfThenElseRun(p, e, m, isClosed) ELSE WhenRun(p, e, m, isClosed)

(* SafeProcessor.Close: at most once.  A processor under a condition or in a
   branch is not reached: WhenProcessor and IfThenElseProcessor have no Close. *)
SafeClose(count, p) == IF p.closer /\ ~p.when /\ count[p.name] = 0 THEN [count EXCEPT ![p.name] = 1] ELSE count

groupClose(count, list) == FoldLeft(SafeClose, count, list)

----------------------------------------------------------------------------
(* builder.Create *)
Stage(kind, id, copy, proc) == [kind |-> kind, id |-> id, copy |-> copy, proc |-> proc]
NoProc == Proc("", "", FALSE, FALSE)
Plain(kind) == Stage(kind, Own, FALSE, NoProc)
When(cond, s) == IF cond THEN <<s>> ELSE <<>>
ProcStages(list, kind) == [k \in DOMAIN list |-> Stage(kind, Own, FALSE, list[k])]

(* Mutant: nested maps are taken to be independent *)
hasKeyAnyOfNever(m, builtin) == FALSE

hasKeyAnyOf(m, builtin) == DOMAIN m \cap DOMAIN builtin # {}

needsCopy(cf) == cf.local # <<>> \/ global # <<>>

(* The builtin fields; without the host they are a map of the client *)
BuiltinId(c, cf) == IF cf.disableHost THEN MapId(c, "builtin") ELSE Builtin

ClientMaps(c, cf) ==
  (MapId(c, "meta") :> IF cf.meta THEN MetaX("meta") ELSE NoMap)
  @@ (MapId(c, "fields") :> Over(cf.eventMetadata, Over(cf.pipelineFields, cf.fields)))
  @@ (MapId(c, "dyn") :> cf.dyn)
  @@ (MapId(c, "builtin") :> OtherX("builtin"))

Create(c, cf, m) ==
  LET builtin == m[BuiltinId(c, cf)]
      fields == m[MapId(c, "fields")]
  IN  When(cf.normalize, Plain("generalize"))
      \o When(cf.meta, Stage("meta", MapId(c, "meta"), needsCopy(cf), NoProc))
      \o When(fields # NoMap, Stage("fields", MapId(c, "fields"),
                needsCopy(cf) \/ cf.dyn # NoMap \/ hasKeyAnyOf(fields, builtin), NoProc))
      \o When(cf.dyn # NoMap, Stage("dyn", MapId(c, "dyn"), needsCopy(cf) \/ hasKeyAnyOf(cf.dyn, builtin), NoProc))
      \o ProcStages(cf.local, "local")
      \o <<Stage("builtin", BuiltinId(c, cf), needsCopy(cf), NoProc)>>
      \o ProcStages(global, "global")
      \o When(cf.timeseries, Plain("timeseries"))
      \o When(cf.drop, Plain("drop"))

StageRun(s, e, m) ==
  LET isClosed == {n \in DOMAIN closed : closed[n] > 0}
  IN  CASE s.kind = "generalize" -> newGeneralizeProcessor(e, m)
        [] s.kind = "meta" -> addMeta(e, m, s.id, s.copy)
        [] s.kind = "fields" -> addFields(e, m, s.id, s.copy, TRUE)
        [] s.kind = "dyn" -> makeAddDynMetaProcessor(e, m, s.id, s.copy)
        [] s.kind \in {"local", "global"} -> ProcRun(s.proc, e, m, isClosed)
        [] s.kind = "builtin" -> addFields(e, m, s.id, s.copy, FALSE)
        [] s.kind = "timeseries" -> timeseries(e, m)
        [] s.kind = "drop" -> dropDisabledProcessor(e, m)

----------------------------------------------------------------------------
Names(list) == {list[k].name : k \in DOMAIN list}
AllNames == UNION {Names(l) : l \in GlobalLists \cup {f[c].local : f \in Configs, c \in Clients}}

(* The events of an input: its own host, or none, or no fields at all *)
Inputs == {[k \in {"host"} |-> [owner |-> Own, map |-> ("x" :> "event")]],
           [k \in {"other"} |-> [owner |-> Own, map |-> ("x" :> "event")]],
           [k \in {"@metadata"} |-> [owner |-> Own, map |-> ("x" :> "event")]]}

PipeInit ==
  /\ config \in Configs
  /\ global \in GlobalLists
  /\ maps = [id \in {Builtin} \cup UNION {DOMAIN ClientMaps(c, config[c]) : c \in Clients} |->
               IF id = Builtin THEN HostFrom("builtin") @@ OtherX("builtin") ELSE ClientMaps(id[1], config[id[1]])[id]]
  /\ stages = [c \in Clients |-> Create(c, config[c], maps)]
  /\ event = [c \in Clients |-> NoEvent]
  /\ stage = [c \in Clients |-> 0]
  /\ outcome = [c \in Clients |-> [is |-> "none", in |-> NoEvent, by |-> ""]]
  /\ events = [c \in Clients |-> 0]
  /\ open = Clients
  /\ builderOpen = TRUE
  /\ closed = [n \in AllNames |-> 0]

(* client.publish: nothing happens once the client is closed *)
Publish(c) ==
  /\ c \in open /\ stage[c] = 0 /\ events[c] < MaxEvents
  /\ \E e \in Inputs :
       /\ event' = [event EXCEPT ![c] = e]
       /\ outcome' = [outcome EXCEPT ![c] = [is |-> "running", in |-> e, by |-> ""]]
  /\ stage' = [stage EXCEPT ![c] = 1]
  /\ events' = [events EXCEPT ![c] = @ + 1]
  /\ UNCHANGED <<config, global, stages, maps, open, builderOpen, closed>>

(* group.Run: an error with an event is logged and the next processor runs,
   no event ends it *)
RunStage(c) ==
  /\ stage[c] > 0 /\ stage[c] <= Len(stages[c])
  /\ LET s == stages[c][stage[c]]
         left == StageRun(s, event[c], maps)
     IN  /\ maps' = left.maps
         /\ event' = [event EXCEPT ![c] = left.event]
         /\ stage' = [stage EXCEPT ![c] = IF left.event = NoEvent THEN 0 ELSE @ + 1]
         /\ outcome' = IF left.event # NoEvent THEN outcome
                       ELSE [outcome EXCEPT ![c].is = IF left.err THEN "failed" ELSE "filtered",
                                            ![c].by = IF s.proc = NoProc THEN s.kind ELSE s.proc.name]
  /\ UNCHANGED <<config, global, stages, events, open, builderOpen, closed>>

(* The event goes to the queue: its maps are read there as they are now *)
Done(c) ==
  /\ stage[c] > Len(stages[c])
  /\ outcome' = [outcome EXCEPT ![c].is = "published",
                                ![c].by = IF "host" \in DOMAIN event[c] /\ "x" \in DOMAIN At(event[c], maps, "host")
                                          THEN At(event[c], maps, "host")["x"] ELSE "nobody"]
  /\ stage' = [stage EXCEPT ![c] = 0]
  /\ event' = [event EXCEPT ![c] = NoEvent]
  /\ UNCHANGED <<config, global, stages, maps, events, open, builderOpen, closed>>

(* client.Close does not wait for a Publish of the client *)
CloseClient(c) ==
  /\ c \in open
  /\ open' = open \ {c}
  /\ closed' = groupClose(closed, config[c].local)
  /\ UNCHANGED <<config, global, stages, maps, event, stage, outcome, events, builderOpen>>

CloseBuilder ==
  /\ builderOpen
  /\ builderOpen' = FALSE
  /\ closed' = groupClose(closed, global)
  /\ UNCHANGED <<config, global, stages, maps, event, stage, outcome, events, open>>

PipeNext == CloseBuilder \/ \E c \in Clients : Publish(c) \/ RunStage(c) \/ Done(c) \/ CloseClient(c)

----------------------------------------------------------------------------
(* The maps of the configuration are the same for every event: no stage of
   any event writes into a map that Create has handed to it without a copy. *)
SharedMapsKept ==
  \A c \in Clients :
    /\ maps[Builtin] = HostFrom("builtin") @@ OtherX("builtin")
    /\ \A id \in DOMAIN ClientMaps(c, config[c]) : maps[id] = ClientMaps(c, config[c])[id]

(* host.x of a published event: the processors that put it decide, then the
   dynamic fields, the client's, the pipeline's, the ones of the client's
   configuration, the event, and the builtins only where nothing else has it. *)
Last1(seq) == IF seq = <<>> THEN "" ELSE seq[Len(seq)]
Puts(list) == SelectSeq(list, LAMBDA p : p.does = "put" /\ ~p.when)
Unconditional(list) == \A k \in DOMAIN list : ~list[k].when /\ list[k].does # "if"
HostOf(m) == IF "host" \in DOMAIN m THEN m["host"]["x"] ELSE ""
FirstOf(seq) == Head(Append(SelectSeq(seq, LAMBDA o : o # ""), "nobody"))

FieldPrecedence ==
  \A c \in Clients :
    (outcome[c].is = "published" /\ Unconditional(config[c].local) /\ Unconditional(global)) =>
      outcome[c].by =
        FirstOf(<<IF Puts(global) # <<>> THEN Puts(global)[Len(Puts(global))].name ELSE "",
                  IF Puts(config[c].local) # <<>> THEN Puts(config[c].local)[Len(Puts(config[c].local))].name ELSE "",
                  HostOf(config[c].dyn), HostOf(config[c].eventMetadata), HostOf(config[c].pipelineFields),
                  HostOf(config[c].fields),
                  IF "host" \in DOMAIN outcome[c].in THEN "event" ELSE "",
                  IF config[c].disableHost THEN "" ELSE "builtin">>)

(* A processor is closed once at most, the global ones only by the builder,
   however many clients come and go, and the others by a client that uses
   them. *)
ClosedByOwner ==
  /\ \A n \in DOMAIN closed : closed[n] <= 1
  /\ \A k \in DOMAIN global : closed[global[k].name] = 0 \/ ~builderOpen
  /\ \A n \in DOMAIN closed \ Names(global) :
       closed[n] = 0 \/ \E c \in Clients \ open : n \in Names(config[c].local)

(* An event is lost to processing only through the configuration (an empty
   event, a processor that drops it, a disabled output) or a closed processor:
   a processor that merely fails, in a group, loses nothing. *)
LosesByItself(c) ==
  {p.name : p \in {q \in Range(config[c].local \o global) : q.does \in {"drop", "lose", "if"}}}
MayClose(c) == {n \in Names(config[c].local \o global) : closed[n] > 0}

FailuresLoseNothing ==
  \A c \in Clients :
    outcome[c].is \in {"failed", "filtered"} =>
      \/ outcome[c].by \in {"generalize", "drop"}
      \/ outcome[c].by \in LosesByItself(c) \cup MayClose(c)
=============================================================================
