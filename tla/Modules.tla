------------------------------ MODULE Modules -------------------------------
(***************************************************************************)
(* Modules: the filesets they are configured with, the runners that load   *)
(* their ingest pipelines, and the import and the export of their Kibana   *)
(* dashboards. They do not share state.                                    *)
(***************************************************************************)
EXTENDS Integers, Sequences, SequencesExt, FiniteSets

CONSTANT None

VARIABLES call, result

-----------------------------------------------------------------------------
(***************************************************************************)
(* The modules of a Beat and their filesets (fileset): which filesets a    *)
(* configuration and the flags of the command line enable, what the        *)
(* variables of a fileset are, and how its ingest pipelines are adapted to *)
(* the version of Elasticsearch.  Each is a function of its input; a state *)
(* is one call and its result.                                             *)
(***************************************************************************)

filesetVars == <<call, result>>

Failure == [err |-> TRUE]
Ok(value) == [err |-> FALSE, value |-> value]

(***************************************************************************)
(* The registry.  An `enabled` setting is "unset", "on" or "off".  A module*)
(* configuration gives the setting of every fileset that it mentions; an   *)
(* override does the same, and may use "*" for all modules or filesets.    *)
(***************************************************************************)
ModuleConfig(name, enabled, filesets) == [module |-> name, enabled |-> enabled, filesets |-> filesets]

(* The module directory: a module with two filesets, and one that was renamed to it *)
Available == [m |-> {"f", "g"}, old |-> {}]
getCurrentModuleName(name) == IF name = "old" THEN "m" ELSE name
getModuleFilesets(name) == Available[getCurrentModuleName(name)]

Add(filesets, names, setting) == [n \in DOMAIN filesets \cup names |-> IF n \in DOMAIN filesets THEN filesets[n] ELSE setting]

(* The filesets that an override of the module mentions are configured, "*" included *)
enableFilesetsFromOverrides(mcfgs, overrides) ==
  [i \in DOMAIN mcfgs |->
    IF mcfgs[i].module \in DOMAIN overrides
    THEN [mcfgs[i] EXCEPT !.filesets = Add(@, DOMAIN overrides[mcfgs[i].module], "unset")]
    ELSE mcfgs[i]]

(* ModuleOverrides.Get: the settings to merge, the most specific one last *)
Get(overrides, module, fileset) ==
  LET at(m, f) == IF m \in DOMAIN overrides /\ f \in DOMAIN overrides[m] THEN <<overrides[m][f]>> ELSE <<>>
  IN at("*", "*") \o at(module, "*") \o at(module, fileset)

Merge(settings, first) == FoldLeft(LAMBDA a, b : IF b = "unset" THEN a ELSE b, first, settings)

applyOverrides(setting, module, fileset, overrides) == Merge(Get(overrides, module, fileset), setting)

(* Modules named on the command line are added, unless they are configured and not disabled *)
appendWithoutDuplicates(mcfgs, names) ==
  LET there == {mcfgs[i].module : i \in {j \in DOMAIN mcfgs : mcfgs[j].enabled # "off"}}
      added == SelectSeq(names, LAMBDA n : n \notin there)
  IN mcfgs \o [i \in DOMAIN added |-> ModuleConfig(added[i], "unset", <<>>)]

(* A setting that is there is switched on; one that is not stays unset *)
Forced(setting, force) == IF force /\ setting # "unset" THEN "on" ELSE setting

(* The filesets of one module configuration, or Failure *)
LoadModule(mcfg, overrides, enableAll, forceModules) ==
  LET name == getCurrentModuleName(mcfg.module)
      there == getModuleFilesets(name)
      config == IF forceModules THEN Add(mcfg.filesets, there, "on") ELSE mcfg.filesets
      set(f) == Forced(applyOverrides(config[f], name, f, overrides), enableAll \/ forceModules)
      wanted == {f \in DOMAIN config : set(f) # "off"}
  IN IF wanted \subseteq there THEN Ok([module |-> name, filesets |-> wanted]) ELSE Failure

newModuleRegistry(mcfgs, overrides, enableAll, forceModules) ==
  LET on == SelectSeq(mcfgs, LAMBDA c : c.module # "" /\ Forced(c.enabled, enableAll \/ forceModules) # "off")
      adapted == [i \in DOMAIN on |-> LoadModule(on[i], overrides, enableAll, forceModules)]
  IN IF \E i \in DOMAIN adapted : adapted[i].err \/ adapted[i].value.filesets = {} THEN Failure
     ELSE Ok([i \in DOMAIN adapted |-> adapted[i].value])

(* init: the flags of the command line are read; the list of an empty flag is one empty name *)
NewModuleRegistry(mcfgs, init, names, overrides, enableAll, forceModules) ==
  IF init
  THEN newModuleRegistry(enableFilesetsFromOverrides(appendWithoutDuplicates(mcfgs, names), overrides), overrides, enableAll, forceModules)
  ELSE newModuleRegistry(mcfgs, <<>>, enableAll, forceModules)

(***************************************************************************)
(* The variables.  A value is a number; a variable's default may refer to  *)
(* another variable, Ref(name), which must be known when it is resolved.   *)
(***************************************************************************)
Ref(name) == [ref |-> name]
Const(n) == [ref |-> "", const |-> n]
Unknown == Const(-1)

(* resolveVariable: a template that names a missing variable is an error *)
resolveVariable(vars, value) ==
  IF value.ref = "" THEN value
  ELSE IF value.ref \in DOMAIN vars THEN vars[value.ref] ELSE Unknown

Bind(vars, name, value) == [n \in DOMAIN vars \cup {name} |-> IF n = name THEN value ELSE vars[n]]

(* The manifest's variables in their order, then the values of the user *)
evaluateVars(manifest, user) ==
  LET step(vars, v) == IF Unknown \in {vars[n] : n \in DOMAIN vars} THEN vars
                       ELSE Bind(vars, v.name, resolveVariable(vars, IF v.os # None THEN v.os ELSE v.default))
      own == FoldLeft(step, [n \in {"builtin"} |-> Const(0)], manifest)
  IN IF Unknown \in {own[n] : n \in DOMAIN own} THEN Failure
     ELSE Ok([n \in DOMAIN own \cup DOMAIN user |-> IF n \in DOMAIN user THEN user[n] ELSE own[n]])

(* For the pipelines, the variables that an old Elasticsearch cannot serve are turned off *)
turnOffElasticsearchVars(manifest, vars, version) ==
  FoldLeft(LAMBDA acc, v : IF v.min # None /\ version < v.min.version THEN Bind(acc, v.name, v.min.value) ELSE acc, vars, manifest)

(***************************************************************************)
(* The pipelines.  A processor has a type, options, the processors of its  *)
(* on_failure section and, for foreach, the one it applies; a section that *)
(* is not there is <<>>.  Versions are numbers: 709 stands for 7.9.        *)
(***************************************************************************)
Processor(type, opts) == [type |-> type, opts |-> opts, onFailure |-> <<>>, inner |-> <<>>]

Applies(p, type, version, below) == p.type = type /\ version < below

replaceAppendAllowDuplicates(p) ==
  CASE "nodup" \in p.opts -> [p EXCEPT !.opts = (@ \ {"nodup"}) \cup {"if"}]
    [] "dup" \in p.opts   -> [p EXCEPT !.opts = @ \ {"dup"}]
    [] OTHER              -> p
replaceSetIgnoreEmptyValue(p) == IF "noempty" \in p.opts THEN [p EXCEPT !.opts = (@ \ {"noempty"}) \cup {"if"}] ELSE p
replaceConvertIP(p) == IF "ip" \in p.opts THEN [p EXCEPT !.type = "grok", !.opts = @ \ {"ip"}] ELSE p
removeDescription(p) == [p EXCEPT !.opts = @ \ {"description"}]

Removed == {"community_id", "uri_parts", "network_direction", "registered_domain"}
Since(type) == IF type \in {"community_id", "uri_parts"} THEN 712 ELSE 713

(* processorCompatibilityChecks: <<>> for a processor that is left out *)
Adapt(p, version) ==
  LET p1 == IF Applies(p, "append", version, 710) THEN replaceAppendAllowDuplicates(p) ELSE p
      p2 == IF Applies(p1, "set", version, 709) THEN replaceSetIgnoreEmptyValue(p1) ELSE p1
      p3 == IF Applies(p2, "user_agent", version, 700) THEN [p2 EXCEPT !.opts = @ \cup {"ecs"}] ELSE p2
      p4 == IF Applies(p3, "convert", version, 713) THEN replaceConvertIP(p3) ELSE p3
  IN IF p.type \in Removed /\ version < Since(p.type) THEN Ok(<<>>)
     ELSE IF Applies(p, "user_agent", version, 607) THEN Failure
     ELSE Ok(<<IF version < 709 THEN removeDescription(p4) ELSE p4>>)

RECURSIVE adaptProcessors(_, _)

(* One processor: its on_failure section, then what it applies, then itself *)
AdaptOne(p, version) ==
  LET failures == adaptProcessors(p.onFailure, version)
      inner == adaptProcessors(p.inner, version)
  IN IF failures.err \/ inner.err THEN Failure
     ELSE IF p.type = "foreach" /\ inner.value = <<>> THEN Ok(<<>>)
     ELSE Adapt([p EXCEPT !.onFailure = failures.value, !.inner = inner.value], version)

(* adaptProcessorsForCompatibility: a section, processor by processor *)
adaptProcessors(procs, version) ==
  IF procs = <<>> THEN Ok(<<>>)
  ELSE LET first == AdaptOne(Head(procs), version) rest == adaptProcessors(Tail(procs), version)
       IN IF first.err \/ rest.err THEN Failure ELSE Ok(first.value \o rest.value)

AdaptPipelineForCompatibility(p, version) ==
  LET main == adaptProcessors(p.processors, version) failures == adaptProcessors(p.onFailure, version)
  IN IF main.err \/ failures.err THEN Failure ELSE Ok([processors |-> main.value, onFailure |-> failures.value])

(***************************************************************************)
(* The calls.                                                              *)
(***************************************************************************)
Settings == {"unset", "on", "off"}
FilesetMaps == UNION {[s -> Settings] : s \in {{}, {"f"}, {"f", "g"}, {"x"}}}
ModuleConfigs == {<<>>} \cup {<<ModuleConfig(n, e, f)>> : n \in {"m", "old"}, e \in Settings, f \in FilesetMaps}
Overrides == {[m \in {} |-> None]}
  \cup {[m \in {"*"} |-> [f \in {"*"} |-> s]] : s \in {"on", "off"}}
  \cup {[m \in {"m"} |-> [f \in {n} |-> s]] : n \in {"f", "*"}, s \in {"on", "off"}}
  \cup {[m \in {"*", "m"} |-> IF m = "*" THEN [f \in {"*"} |-> s] ELSE [f \in {"f"} |-> t]] : s, t \in {"on", "off"}}

CallRegistry ==
  /\ call = None
  /\ \E c \in ModuleConfigs, init, all, force \in BOOLEAN, names \in {<<"">>, <<"m">>}, o \in Overrides :
       /\ call' = [fn |-> "registry", mcfgs |-> c, init |-> init, names |-> names, overrides |-> o, all |-> all, force |-> force]
       /\ result' = NewModuleRegistry(c, init, names, o, all, force)

Defaults == {Const(1), Ref("a"), Ref("b"), Ref("builtin")}
Vars(name) == [name : {name}, default : Defaults, os : {None, Const(2)}, min : {None, [version |-> 700, value |-> Const(3)]}]
CallVars ==
  /\ call = None
  /\ \E m \in {<<x, y>> : x \in Vars("a"), y \in Vars("b")}, user \in UNION {[s -> {Const(9)}] : s \in SUBSET {"a", "b"}}, version \in {608, 713} :
       /\ call' = [fn |-> "vars", manifest |-> m, user |-> user, version |-> version]
       /\ result' = LET v == evaluateVars(m, user)
                    IN IF v.err THEN Failure ELSE Ok([input |-> v.value, pipeline |-> turnOffElasticsearchVars(m, v.value, version)])

Leaves == {Processor("append", {"nodup"}), Processor("append", {"dup", "description"}), Processor("set", {"noempty"}), Processor("community_id", {}),
           Processor("registered_domain", {"description"}), Processor("user_agent", {}), Processor("convert", {"ip", "description"}), Processor("grok", {})}
Guarded == {[p EXCEPT !.onFailure = <<q>>] : p \in {Processor("set", {"noempty"}), Processor("community_id", {})}, q \in Leaves}
Loops == {[Processor("foreach", {}) EXCEPT !.inner = <<q>>] : q \in Leaves \cup Guarded}
Procs == Leaves \cup Guarded \cup Loops
Versions == {604, 608, 700, 709, 711, 712, 713}
CallAdapt ==
  /\ call = None
  /\ \E n \in 0..2 : \E ps \in [1..n -> Procs], fs \in {<<>>, <<Processor("set", {"noempty"})>>, <<Processor("community_id", {})>>}, version \in Versions :
       /\ n = 2 => fs = <<>>
       /\ call' = [fn |-> "adapt", pipeline |-> [processors |-> ps, onFailure |-> fs], version |-> version]
       /\ result' = AdaptPipelineForCompatibility([processors |-> ps, onFailure |-> fs], version)

FilesetInit == call = None /\ result = None
FilesetNext == CallRegistry \/ CallVars \/ CallAdapt

(***************************** properties ********************************)

Is(fn) == call # None /\ call.fn = fn

(* The setting that counts for a fileset: the user's, under the most specific override *)
Counts(c, f) ==
  LET o == IF c.init THEN c.overrides ELSE <<>>
      has(k) == k[1] \in DOMAIN o /\ k[2] \in DOMAIN o[k[1]]
      own == IF c.mcfgs # <<>> /\ f \in DOMAIN c.mcfgs[1].filesets THEN c.mcfgs[1].filesets[f] ELSE IF c.force THEN "on" ELSE "unset"
  IN CASE has(<<"m", f>>) -> o["m"][f] [] ~has(<<"m", f>>) /\ has(<<"m", "*">>) -> o["m"]["*"]
       [] ~has(<<"m", f>>) /\ ~has(<<"m", "*">>) /\ has(<<"*", "*">>) -> o["*"]["*"] [] OTHER -> own

(* The filesets that are loaded for a configured module are those that the
   configuration or the flags mention and nothing more specific disables;
   --enable-all-filesets and --force-enable-module-filesets outweigh every "off" *)
FilesetsAsConfigured ==
  (Is("registry") /\ ~result.err /\ call.mcfgs # <<>> /\ Len(result.value) = 1 /\ ~(call.init /\ call.names = <<"m">>)) =>
    \A f \in {"f", "g"} :
      LET mentioned == call.force \/ f \in DOMAIN call.mcfgs[1].filesets
                       \/ (call.init /\ call.mcfgs[1].module = "m" /\ "m" \in DOMAIN call.overrides /\ f \in DOMAIN call.overrides["m"])
      IN f \in result.value[1].filesets <=> mentioned /\ (call.all \/ call.force \/ Counts(call, f) # "off")

(* A variable has the value of the user, else the one of this system, else its
   default; what a default refers to is the value before the user's settings;
   in the pipeline, the value for an old Elasticsearch outweighs all others *)
VarsAsConfigured ==
  (Is("vars") /\ ~result.err) =>
    \A i \in 1..2 :
      LET v == call.manifest[i] n == v.name
          own(j) == LET w == call.manifest[j] IN IF w.os # None THEN w.os ELSE w.default
          base == CASE own(i).ref = "" -> own(i) [] own(i).ref = "builtin" -> Const(0) [] OTHER -> own(1)
          final == IF base.ref = "builtin" THEN Const(0) ELSE base
          input == IF n \in DOMAIN call.user THEN call.user[n] ELSE final
      IN /\ result.value.input[n] = input
         /\ result.value.pipeline[n] = IF v.min # None /\ call.version < v.min.version THEN v.min.value ELSE input

(* What a version of Elasticsearch understands *)
RECURSIVE Understood(_, _)
Understood(p, v) ==
  /\ v < 713 => p.type \notin {"network_direction", "registered_domain"} /\ ~(p.type = "convert" /\ "ip" \in p.opts)
  /\ v < 712 => p.type \notin {"community_id", "uri_parts"}
  /\ v < 710 => ~(p.type = "append" /\ p.opts \cap {"nodup", "dup"} # {})
  /\ v < 709 => ~(p.type = "set" /\ "noempty" \in p.opts) /\ "description" \notin p.opts
  /\ v < 700 => (p.type = "user_agent" => "ecs" \in p.opts)
  /\ p.type = "foreach" => Len(p.inner) = 1
  /\ \A i \in DOMAIN p.onFailure : Understood(p.onFailure[i], v)
  /\ \A i \in DOMAIN p.inner : Understood(p.inner[i], v)

(* An adapted pipeline holds nothing that the version of Elasticsearch does
   not understand: not in on_failure, not below foreach, at no depth *)
AdaptedIsUnderstood ==
  (Is("adapt") /\ ~result.err) =>
    \A s \in {result.value.processors, result.value.onFailure} : \A i \in DOMAIN s : Understood(s[i], call.version)

(* A pipeline that the version understands as it is is loaded as it is *)
UnderstoodIsKept ==
  (Is("adapt") /\ \A s \in {call.pipeline.processors, call.pipeline.onFailure} : \A i \in DOMAIN s : Understood(s[i], call.version)
     /\ call.version >= 700) => ~result.err /\ result.value = call.pipeline

-----------------------------------------------------------------------------
(***************************************************************************)
(* The runners of a Beat's modules (fileset/factory.go): each loads the    *)
(* ingest pipelines of its filesets when it starts, and registers a        *)
(* callback that loads them whenever the Elasticsearch output connects     *)
(* (outputs/elasticsearch/callbacks.go, client.go).  A load puts one       *)
(* pipeline after the other and takes all back when one fails              *)
(* (fileset/pipelines.go).  The runners and the output share Elasticsearch *)
(* and have the same pipelines; Elasticsearch may refuse any request.      *)
(***************************************************************************)

CONSTANTS
  Runners,     \* module runners
  Output,      \* the output's worker, which connects
  Pipelines,   \* the pipelines of the fileset the runners have, in the order they are loaded
  MaxConnects  \* bound: connections of the output

Loaders == Runners \cup {Output}

VARIABLES
  overwrite,  \* overwritePipelines, never changes
  es,         \* pipeline -> None, "foreign" (there before), "loaded" (put by a load that
              \* returned) or the loader whose load in progress put it
  pc,         \* loader -> step
  todo,       \* loader -> pipelines that are still to be put
  loaded,     \* loader -> pipelineIDsLoaded
  callbacks,  \* runners whose callback is registered
  pending,    \* callbacks that the connecting output has still to call
  mutex,      \* the loader that holds the registry's mutex, or None
  connects,   \* connections so far
  past        \* what happened: "blind" (put without knowing), "rollback"

runnerVars == <<overwrite, es, pc, todo, loaded, callbacks, pending, mutex, connects, past>>

RunnersInit ==
  /\ overwrite \in BOOLEAN
  /\ es \in [ToSet(Pipelines) -> {None, "foreign"}]
  /\ pc = [l \in Loaders |-> "new"] /\ todo = [l \in Loaders |-> <<>>] /\ loaded = [l \in Loaders |-> <<>>]
  /\ callbacks = {} /\ pending = {} /\ mutex = None /\ connects = 0 /\ past = {}

Go(l, to) == pc' = [pc EXCEPT ![l] = to]

(* LoadPipelines begins; the required processors may be missing in Elasticsearch *)
Begin(l) ==
  /\ todo' = [todo EXCEPT ![l] = Pipelines] /\ loaded' = [loaded EXCEPT ![l] = <<>>]
  /\ \E to \in {"get", "failed"} : Go(l, to)

Start(r) ==
  /\ pc[r] = "new" /\ UNCHANGED <<overwrite, es, callbacks, pending, mutex, connects, past>>
  /\ \/ Begin(r)
     \/ Go(r, "register") /\ UNCHANGED <<todo, loaded>>  \* no connection to Elasticsearch

(* LoadPipeline asks for the pipeline, unless it overwrites; an answer that is
   not 200 is taken for a pipeline that is not there *)
GetPipeline(l) ==
  /\ pc[l] = "get" /\ todo[l] # <<>>
  /\ LET p == Head(todo[l])
         there == es[p] # None
     IN \/ overwrite /\ Go(l, "put") /\ UNCHANGED <<todo, loaded, past>>
        \/ /\ ~overwrite /\ there /\ UNCHANGED <<pc, past>>
           /\ todo' = [todo EXCEPT ![l] = Tail(@)] /\ loaded' = [loaded EXCEPT ![l] = Append(@, p)]
        \/ ~overwrite /\ ~there /\ Go(l, "put") /\ UNCHANGED <<todo, loaded, past>>
        \/ ~overwrite /\ there /\ Go(l, "put") /\ past' = past \cup {"blind"} /\ UNCHANGED <<todo, loaded>>
  /\ UNCHANGED <<overwrite, es, callbacks, pending, mutex, connects>>

(* Mutant: the failed load returns at once *)
PutPipelineNoRollback(l) ==
  /\ pc[l] = "put" /\ UNCHANGED <<overwrite, callbacks, pending, mutex, connects>>
  /\ \/ /\ es' = [es EXCEPT ![Head(todo[l])] = l] /\ Go(l, "get") /\ UNCHANGED past
        /\ loaded' = [loaded EXCEPT ![l] = Append(@, Head(todo[l]))] /\ todo' = [todo EXCEPT ![l] = Tail(@)]
     \/ Go(l, "failed") /\ past' = past \cup {"rollback"} /\ UNCHANGED <<es, todo, loaded>>

(* LoadJSON; adapting the pipeline may fail before *)
PutPipeline(l) ==
  /\ pc[l] = "put" /\ UNCHANGED <<overwrite, callbacks, pending, mutex, connects>>
  /\ \/ /\ es' = [es EXCEPT ![Head(todo[l])] = l] /\ Go(l, "get") /\ UNCHANGED past
        /\ loaded' = [loaded EXCEPT ![l] = Append(@, Head(todo[l]))] /\ todo' = [todo EXCEPT ![l] = Tail(@)]
     \/ Go(l, "rollback") /\ past' = past \cup {"rollback"} /\ UNCHANGED <<es, todo, loaded>>

(* The rollback deletes what counts as loaded; a failed delete is only noted *)
DeletePipeline(l) ==
  /\ pc[l] = "rollback" /\ loaded[l] # <<>> /\ loaded' = [loaded EXCEPT ![l] = Tail(@)]
  /\ \/ es' = [es EXCEPT ![Head(loaded[l])] = None] /\ UNCHANGED past
     \/ past' = past \cup {"undeleted"} /\ UNCHANGED es
  /\ UNCHANGED <<overwrite, pc, todo, callbacks, pending, mutex, connects>>

RolledBack(l) ==
  /\ pc[l] = "rollback" /\ loaded[l] = <<>> /\ Go(l, "failed")
  /\ UNCHANGED <<overwrite, es, todo, loaded, callbacks, pending, mutex, connects, past>>

Loaded(l) == pc[l] = "get" /\ todo[l] = <<>>

Settled(l) == [p \in DOMAIN es |-> IF es[p] = l THEN "loaded" ELSE es[p]]

(* The runner goes on whatever became of its load *)
LoadReturns(r) ==
  /\ Loaded(r) \/ pc[r] = "failed"
  /\ es' = Settled(r) /\ Go(r, "register") /\ UNCHANGED <<overwrite, todo, loaded, callbacks, pending, mutex, connects, past>>

RegisterConnectCallback(r) ==
  /\ pc[r] = "register" /\ mutex = None /\ callbacks' = callbacks \cup {r} /\ Go(r, "running")
  /\ UNCHANGED <<overwrite, es, todo, loaded, pending, mutex, connects, past>>

(* Stop: the callback is removed first, when no connection runs callbacks *)
DeregisterConnectCallback(r) ==
  /\ pc[r] = "running" /\ mutex = None /\ callbacks' = callbacks \ {r} /\ Go(r, "stopped")
  /\ UNCHANGED <<overwrite, es, todo, loaded, pending, mutex, connects, past>>

(* The output connects: it holds the registry while it calls every callback *)
OnConnect ==
  /\ pc[Output] \in {"new", "connected"} /\ connects < MaxConnects /\ mutex = None
  /\ connects' = connects + 1 /\ mutex' = Output /\ pending' = callbacks /\ Go(Output, "calling")
  /\ UNCHANGED <<overwrite, es, todo, loaded, callbacks, past>>

CallNext(r) ==
  /\ pc[Output] = "calling" /\ r \in pending /\ pending' = pending \ {r}
  /\ Begin(Output) /\ UNCHANGED <<overwrite, es, callbacks, mutex, connects, past>>

CallbackReturns ==
  /\ Loaded(Output) \/ pc[Output] = "failed"
  /\ IF pc[Output] = "failed"
     THEN Go(Output, "new") /\ mutex' = None /\ pending' = {}
     ELSE Go(Output, "calling") /\ UNCHANGED <<mutex, pending>>
  /\ es' = Settled(Output) /\ UNCHANGED <<overwrite, todo, loaded, callbacks, connects, past>>

Connected ==
  /\ pc[Output] = "calling" /\ pending = {} /\ Go(Output, "connected") /\ mutex' = None
  /\ UNCHANGED <<overwrite, es, todo, loaded, callbacks, pending, connects, past>>

RunnersNext ==
  \/ \E r \in Runners :
       \/ Start(r)
       \/ LoadReturns(r)
       \/ RegisterConnectCallback(r)
       \/ DeregisterConnectCallback(r)
       \/ CallNext(r)
  \/ \E l \in Loaders :
       \/ GetPipeline(l)
       \/ PutPipeline(l)
       \/ DeletePipeline(l)
       \/ RolledBack(l)
  \/ OnConnect
  \/ CallbackReturns
  \/ Connected

(***************************** properties ********************************)

(* Unless it overwrites, a load changes no pipeline that was there before, a
   customised one, say.  Not so in the code: a pipeline that is found there
   counts as loaded (pipelines.go:96), and when a later one fails it is deleted
   with those the load has put (pipelines.go:104-105), so that the next load
   puts its own; and a request that fails counts as "not there" (pipelines.go:120-121) *)
ForeignPipelinesKept ==
  ~overwrite => \A p \in DOMAIN es : es[p] = "foreign" => es'[p] = "foreign"

(* What holds: unless it overwrites, a load changes no pipeline that was there
   before as long as every request for one was answered and no load has failed,
   and no more than deletes it after a load that did *)
CustomPipelinesKept ==
  (~overwrite /\ "blind" \notin past') =>
    \A p \in DOMAIN es : es[p] = "foreign" => es'[p] = "foreign" \/ (es'[p] = None /\ "rollback" \in past)

(* A load that failed leaves no pipeline behind that it had put, provided
   that Elasticsearch accepted its deletions: filesets work with all of their pipelines or none *)
FailedLoadLeavesNothing ==
  \A l \in Loaders : (pc[l] = "failed" /\ "undeleted" \notin past) => \A p \in DOMAIN es : es[p] # l

(* While the output is inside its callbacks, what it calls belongs to runners
   that have not been stopped: Stop waits for a connection in progress *)
NoCallbackAfterStop ==
  pc[Output] \notin {"new", "connected"} => pending \subseteq {r \in Runners : pc[r] = "running"}

(* When the output has connected, the pipelines of the runners that were
   registered are in Elasticsearch, so that no event is sent to a pipeline
   that is missing, unless a load that failed took them back *)
ConnectedMeansLoaded ==
  (pc[Output] = "calling" /\ pc'[Output] = "connected" /\ callbacks # {} /\ "rollback" \notin past)
       => \A p \in DOMAIN es : es[p] # None

-----------------------------------------------------------------------------
(***************************************************************************)
(* Importing a directory of Kibana dashboards (dashboards/importer.go,     *)
(* dashboards/kibana_loader.go).  A dashboard is sent together with the    *)
(* assets it refers to, each of them once per import; the loader remembers *)
(* what it has sent.  Any request to Kibana may fail.                      *)
(***************************************************************************)

CONSTANTS
  Dashboards,  \* sequence of the dashboard files, in the order of the directory
  Assets,      \* other assets
  References,  \* the references to consider: asset or dashboard -> sequence of assets
  MaxRetries   \* bound: retry.maximum

VARIABLES
  refs,          \* the references, never change
  files,         \* the files that exist, never change
  importConf,    \* [onlyDashboards, onlyIndex, retry, maximum, fields, indexDir, dashboardDir], never changes
  importer,      \* "client", "fields", "index", "dashboards", "done", "failed"
  attempt,       \* retryAttempt
  assetsTodo,    \* dashboards that are still to be imported
  assetsLoaded,  \* loadedAssets
  errors,        \* dashboards that failed
  kibana,        \* what Kibana has
  sent           \* asset -> requests that carried it

importVars == <<refs, files, importConf, importer, attempt, assetsTodo, assetsLoaded, errors, kibana, sent>>

Objects == Assets \cup ToSet(Dashboards)

ImportInit ==
  /\ refs \in References /\ files \in {Objects} \cup {Objects \ {a} : a \in Assets}
  /\ importConf \in [onlyDashboards : BOOLEAN, onlyIndex : BOOLEAN, retry : BOOLEAN, maximum : 0..MaxRetries,
               fields : BOOLEAN, indexDir : BOOLEAN, dashboardDir : BOOLEAN]
  /\ importer = "client" /\ attempt = 0 /\ assetsTodo = Dashboards /\ assetsLoaded = {} /\ errors = {}
  /\ kibana = {} /\ sent = [o \in Objects |-> 0]

Frozen == UNCHANGED <<refs, files, importConf>>
Work == <<assetsTodo, assetsLoaded, errors, kibana, sent>>

(* getKibanaClient: retried when it is asked for, without bound for maximum 0 *)
getKibanaClient ==
  /\ importer = "client" /\ Frozen /\ UNCHANGED Work
  /\ \/ importer' = "fields" /\ UNCHANGED attempt
     \/ /\ importConf.retry /\ (importConf.maximum = 0 \/ importConf.maximum > attempt)
        /\ attempt' = (IF importConf.maximum = 0 THEN 0 ELSE attempt + 1) /\ UNCHANGED importer
     \/ /\ ~(importConf.retry /\ (importConf.maximum = 0 \/ importConf.maximum > attempt)) /\ importer' = "failed" /\ UNCHANGED attempt
     \/ importConf.retry /\ importer' = "failed" /\ UNCHANGED attempt  \* the context has ended

(* The subdirectories that ImportKibanaDir looks for, and those that exist *)
Wanted == (IF importConf.onlyDashboards THEN {} ELSE {"index"}) \cup (IF importConf.onlyIndex THEN {} ELSE {"dashboards"})
Types == {t \in Wanted : IF t = "index" THEN importConf.indexDir ELSE importConf.dashboardDir}

(* ImportIndex of the Beat's own fields, then the look at the directory *)
ImportFields ==
  /\ importer = "fields" /\ Frozen /\ UNCHANGED <<attempt, assetsTodo, assetsLoaded, errors, sent>>
  /\ \/ importConf.fields /\ importer' = "failed" /\ UNCHANGED kibana
     \/ /\ kibana' = IF importConf.fields THEN kibana \cup {"fields"} ELSE kibana
        /\ importer' = IF Types = {} THEN "failed" ELSE IF "index" \in Types THEN "index" ELSE "dashboards"

(* ImportDir of the index patterns; afterwards the dashboards, when they are wanted *)
ImportIndexDir ==
  /\ importer = "index" /\ Frozen /\ UNCHANGED <<attempt, assetsTodo, assetsLoaded, errors, sent>>
  /\ \/ importer' = "failed" /\ UNCHANGED kibana
     \/ /\ kibana' = kibana \cup {"index"}
        /\ importer' = IF "dashboards" \in Types THEN "dashboards" ELSE IF "dashboards" \in Wanted THEN "failed" ELSE "done"

(* addReferences: the assets a dashboard needs and that were not sent yet, each
   behind the assets it needs itself; a file that is missing ends it *)
RECURSIVE addReferences(_, _), addAll(_, _, _)
addReferences(o, seen) == addAll(refs[o], 1, [err |-> FALSE, content |-> <<>>, loaded |-> seen, self |-> o])

addAll(rs, i, r) ==
  IF r.err THEN r
  ELSE IF i > Len(rs) THEN [r EXCEPT !.content = Append(@, r.self)]
  ELSE IF rs[i] \in r.loaded THEN addAll(rs, i + 1, r)
  ELSE IF rs[i] \notin files THEN [r EXCEPT !.err = TRUE]
  ELSE LET sub == addReferences(rs[i], r.loaded)
       IN addAll(rs, i + 1, [r EXCEPT !.err = sub.err, !.content = @ \o sub.content,
                                      !.loaded = IF sub.err THEN sub.loaded ELSE sub.loaded \cup {rs[i]}])

Count(content) == [o \in Objects |-> sent[o] + (IF Contains(content, o) THEN 1 ELSE 0)]

(* ImportDashboard: what addReferences noted as loaded stays so when the request fails *)
ImportDashboard ==
  /\ importer = "dashboards" /\ assetsTodo # <<>> /\ assetsTodo' = Tail(assetsTodo) /\ Frozen /\ UNCHANGED <<importer, attempt>>
  /\ LET d == Head(assetsTodo)
         r == addReferences(d, assetsLoaded)
     IN \/ /\ r.err /\ errors' = errors \cup {d} /\ assetsLoaded' = r.loaded /\ UNCHANGED <<kibana, sent>>
        \/ /\ ~r.err /\ sent' = Count(r.content)
           /\ \/ kibana' = kibana \cup ToSet(r.content) /\ assetsLoaded' = r.loaded \cup {d} /\ UNCHANGED errors
              \/ errors' = errors \cup {d} /\ assetsLoaded' = r.loaded /\ UNCHANGED kibana

(* ImportDir goes through all files and fails when one has failed *)
ImportDirEnds ==
  /\ importer = "dashboards" /\ assetsTodo = <<>> /\ importer' = (IF errors = {} THEN "done" ELSE "failed")
  /\ Frozen /\ UNCHANGED <<attempt, assetsTodo, assetsLoaded, errors, kibana, sent>>

ImportNext == getKibanaClient \/ ImportFields \/ ImportIndexDir \/ ImportDashboard \/ ImportDirEnds

(***************************** properties ********************************)

RECURSIVE Needs(_)
Needs(o) == UNION {{a} \cup Needs(a) : a \in ToSet(refs[o])}

(* A dashboard in Kibana has everything it refers to, directly or not, as long
   as no other dashboard failed before; the loader takes the assets of a failed one for sent *)
DashboardsComplete ==
  errors = {} => \A d \in ToSet(Dashboards) \cap kibana : Needs(d) \subseteq kibana

(* An asset is sent once only, however many dashboards share it *)
AssetsSentOnce == \A a \in Assets : sent[a] <= 1

(* An import that is reported as done has brought all that was asked for: the
   fields, the index patterns of the directory, and every dashboard with its assets *)
DoneMeansImported ==
  importer = "done" =>
    /\ importConf.fields => "fields" \in kibana
    /\ (~importConf.onlyDashboards /\ importConf.indexDir) => "index" \in kibana
    /\ ~importConf.onlyIndex => \A d \in ToSet(Dashboards) : {d} \cup Needs(d) \subseteq kibana

-----------------------------------------------------------------------------
(***************************************************************************)
(* The forms of a Kibana dashboard (dashboards/decode.go, modify_json.go,  *)
(* index_pattern.go, export.go).  Kibana keeps parts of a dashboard as     *)
(* JSON texts inside the JSON; an export parses these parts for the files  *)
(* of a Beat, an import puts the configured index in and makes them texts  *)
(* again.  A part is [form, kind, index]: a text or parsed, a map or list  *)
(* or some scalar, with an index name in it or none.                       *)
(***************************************************************************)

formatVars == <<call, result>>

Json(form, kind, index) == [form |-> form, kind |-> kind, index |-> index]
Parsed(v) == v # None /\ v.form = "parsed" /\ v.kind = "map"

(* The parts; panelsJSON is a list of panels, each with parts of its own *)
Parts == {"searchSourceJSON", "layerListJSON", "mapStateJSON", "optionsJSON", "visState"}
Fields == Parts \ {"searchSourceJSON"}

(******************************** export *********************************)

decodeValue(v) == IF v = None THEN None ELSE [v EXCEPT !.form = "parsed"]
decodeObject(attrs) == [p \in Parts |-> decodeValue(attrs[p])]

(* Panels without an embedded configuration stay as they are *)
decodeEmbeddableConfig(panels) ==
  [i \in 1..Len(panels) |-> IF panels[i] = None THEN None ELSE [panels[i] EXCEPT !.attrs = decodeObject(@)]]

DecodeLine(o) == [o EXCEPT !.attrs = decodeObject(@), !.panelsForm = "parsed", !.panels = decodeEmbeddableConfig(@)]

(* An export is its lines, the last one without newline; a line is blank or an
   asset [type, id].  A line of an index pattern goes with its newline *)
Blank == [type |-> "", id |-> 0]
IsPattern(line) == line.type = "index-pattern"

RemoveIndexPattern(lines) ==
  SelectSeq(Front(lines), LAMBDA l : ~IsPattern(l)) \o <<IF IsPattern(Last(lines)) THEN Blank ELSE Last(lines)>>

(* DecodeExported writes a newline behind every line, also behind a blank one, which has its own still *)
DecodeExported(lines) ==
  FlattenSeq([i \in 1..(Len(lines) - 1) |-> IF lines[i] = Blank THEN <<Blank, Blank>> ELSE <<lines[i]>>]) \o <<Last(lines)>>

(* SaveToFolder saves line after line; a blank line is no asset *)
SaveToFolder(lines) ==
  LET bad == {i \in 1..Len(lines) : lines[i] = Blank}
      end == IF bad = {} THEN Len(lines) ELSE (CHOOSE i \in bad : \A j \in bad : i <= j) - 1
  IN [saved |-> {lines[i] : i \in 1..end}, err |-> bad # {}]

(******************************** import *********************************)

Named(v) == IF v.index = "none" THEN v ELSE [v EXCEPT !.index = "new"]

(* The index is replaced in the text of the search source, in the parsed form of the other parts *)
ReplaceIndexInSavedObject(v) == IF v # None /\ v.form = "text" THEN Named(v) ELSE v
ReplaceInPart(v) == IF Parsed(v) THEN Named(v) ELSE v

ReplaceInAttributes(attrs) ==
  [p \in Parts |-> CASE p = "searchSourceJSON" -> ReplaceIndexInSavedObject(attrs[p])
                     [] p \in {"layerListJSON", "mapStateJSON", "visState"} -> ReplaceInPart(attrs[p])
                     [] OTHER -> attrs[p]]

replaceIndexInReferences(references) == [i \in 1..Len(references) |-> IF references[i] = "old" THEN "new" ELSE references[i]]

replaceIndexInPanelsJSON(panels) ==
  [i \in 1..Len(panels) |->
    IF panels[i] = None THEN None
    ELSE [panels[i] EXCEPT !.attrs = [@ EXCEPT !.layerListJSON = ReplaceInPart(@)], !.refs = replaceIndexInReferences(@)]]

ReplaceIndexInDashboardObject(index, o) ==
  IF index = "" THEN o
  ELSE [o EXCEPT !.attrs = ReplaceInAttributes(@), !.refs = replaceIndexInReferences(@),
                 !.panels = IF o.panelsForm = "parsed" THEN replaceIndexInPanelsJSON(@) ELSE @]

ToText(v) == IF Parsed(v) THEN [v EXCEPT !.form = "text"] ELSE v
convertObjectsToString(attrs) == [p \in Parts |-> IF p \in Fields THEN ToText(attrs[p]) ELSE attrs[p]]
ConvertSearch(attrs) == [attrs EXCEPT !.searchSourceJSON = ToText(@)]

(* convertAttributes: panels first, as long as they are a list *)
EncodeJSONObjects(o) ==
  [o EXCEPT !.attrs = convertObjectsToString(ConvertSearch(@)), !.panelsForm = "text",
            !.panels = IF o.panelsForm = "parsed"
                       THEN [i \in 1..Len(@) |-> IF @[i] = None THEN None
                                                 ELSE [@[i] EXCEPT !.attrs = convertObjectsToString(ConvertSearch(@))]]
                       ELSE @]

formatDashboardAssets(index, o) == EncodeJSONObjects(ReplaceIndexInDashboardObject(index, o))

(****************************** the calls ********************************)

Attributes == [Parts -> {None, Json("text", "map", "old")}] \cup [Parts -> {Json("text", "map", "none"), Json("text", "scalar", "none")}]
Panels == {<<>>, <<None>>} \cup {<<[attrs |-> a, refs |-> <<r>>]>> : a \in [Parts -> {None, Json("text", "map", "old")}], r \in {"old", "other"}}
Exported == [attrs : Attributes, refs : {<<>>, <<"old", "other">>}, panelsForm : {"text"}, panels : Panels]
Lines == {Blank} \cup [type : {"dashboard", "index-pattern"}, id : {1, 2}]

(* A dashboard as a Beat ships it, decoded or as it was exported, is imported with an index or without *)
CallFormat ==
  \E o \in Exported, d \in BOOLEAN, index \in {"", "new"} :
    /\ call' = [fn |-> "format", object |-> o, decoded |-> d, index |-> index]
    /\ result' = formatDashboardAssets(index, IF d THEN DecodeLine(o) ELSE o)

CallExport ==
  \E n \in 1..3 : \E lines \in [1..n -> Lines] :
    /\ call' = [fn |-> "export", lines |-> lines]
    /\ result' = SaveToFolder(DecodeExported(RemoveIndexPattern(lines)))

FormatInit == call = None /\ result = None
FormatNext == call = None /\ (CallFormat \/ CallExport)

(***************************** properties ********************************)

IsType(fn) == call # None /\ call.fn = fn
Maps(attrs) == \A p \in Parts : attrs[p] = None \/ attrs[p].kind = "map"
AllAttributes(o) == {o.attrs} \cup {q.attrs : q \in ToSet(o.panels) \ {None}}

(* What an export parsed, an import without an index puts back as it was:
   Kibana gets the dashboard that it had exported, provided the parts are maps or lists *)
ImportUndoesExport ==
  (IsType("format") /\ call.index = "" /\ \A a \in AllAttributes(call.object) : Maps(a)) => result = call.object

(* A decoded dashboard refers only to the configured index after the import, at
   the places the code knows: the search source is looked at as a text only,
   and of the parts of a panel only the layers *)
IndexIsReplaced ==
  (IsType("format") /\ call.decoded /\ call.index = "new") =>
    /\ \A p \in Fields : result.attrs[p] # None => (p = "optionsJSON" \/ result.attrs[p].index # "old")
    /\ ~Contains(result.refs, "old")
    /\ \A q \in ToSet(result.panels) \ {None} :
         ~Contains(q.refs, "old") /\ (q.attrs.layerListJSON # None => q.attrs.layerListJSON.index # "old")

(* An export without blank lines, and with an asset in its last line, is saved
   whole: every asset but the index patterns *)
ExportIsSaved ==
  (IsType("export") /\ ~Contains(call.lines, Blank) /\ ~IsPattern(Last(call.lines)))
    => (~result.err /\ result.saved = {l \in ToSet(call.lines) : ~IsPattern(l)})
=============================================================================
