------------------------------- MODULE Inputs -------------------------------
(***************************************************************************)
(* The services that start and stop inputs: the list of runners they       *)
(* share, the reloader that follows the files of a directory (cfgfile),    *)
(* and autodiscover with its providers, kubernetes, leader election,       *)
(* docker and jolokia.                                                     *)
(***************************************************************************)
EXTENDS Integers, Sequences, FiniteSets

-----------------------------------------------------------------------------
(***************************************************************************)
(* cfgfile/list.go: the list of runners that is reloaded to match a set of *)
(* configurations.  A configuration stands for its hash.  Reload and Stop  *)
(* hold the mutex of the list until they return; in between, the runners   *)
(* stop on goroutines of their own and start one after the other.          *)
(***************************************************************************)

CONSTANTS
  BadCfgs,         \* configurations the factory refuses to check and to create
  MaxCreateFaults  \* bound: configurations that cannot be created for the time being

VARIABLES
  runners,  \* the keys of RunnerList.runners
  alive,    \* the runners that were started and did not stop yet
  work,     \* the call that holds the mutex
  createFaults

listVars == <<runners, alive, work, createFaults>>

Unlocked == [op |-> "none", stop |-> {}, start |-> {}, failed |-> FALSE]

ListInit == runners = {} /\ alive = {} /\ work = Unlocked /\ createFaults = 0

\* The lists of runners to stop and of configurations to start.
BeginReload(wanted) ==
  /\ work.op = "none"
  /\ work' = [op |-> "reload", stop |-> runners \ wanted, start |-> wanted \ runners, failed |-> FALSE]
  /\ runners' = runners \cap wanted
  /\ UNCHANGED <<alive, createFaults>>

StopRunner(h) ==
  /\ h \in work.stop
  /\ work' = [work EXCEPT !.stop = @ \ {h}]
  /\ alive' = alive \ {h}
  /\ UNCHANGED <<runners, createFaults>>

\* "Wait for all runners to stop before starting new ones": then each is created and
\* started, or its error is kept.
StartRunner(h) ==
  /\ work.stop = {} /\ h \in work.start
  /\ \/ /\ h \notin BadCfgs
        /\ runners' = runners \cup {h} /\ alive' = alive \cup {h}
        /\ work' = [work EXCEPT !.start = @ \ {h}]
        /\ UNCHANGED createFaults
     \/ /\ h \in BadCfgs \/ createFaults < MaxCreateFaults
        /\ createFaults' = IF h \in BadCfgs THEN createFaults ELSE createFaults + 1
        /\ work' = [work EXCEPT !.start = @ \ {h}, !.failed = TRUE]
        /\ UNCHANGED <<runners, alive>>

ReloadDone == work.op = "reload" /\ work.stop = {} /\ work.start = {}

\* Mutant: the runners are forgotten.
BeginStopForgets ==
  /\ work.op = "none" /\ work' = [Unlocked EXCEPT !.op = "stop"] /\ runners' = {}
  /\ UNCHANGED <<alive, createFaults>>

\* Stop takes all runners off the list and waits for them.
BeginStop ==
  /\ work.op = "none"
  /\ work' = [Unlocked EXCEPT !.op = "stop", !.stop = runners]
  /\ runners' = {}
  /\ UNCHANGED <<alive, createFaults>>

StopDone == work.op = "stop" /\ work.stop = {}

Unlock == work' = Unlocked /\ UNCHANGED <<runners, alive, createFaults>>

ListStep(cfgs) == \E h \in cfgs : StopRunner(h) \/ StartRunner(h)

-----------------------------------------------------------------------------

ListTypeOK ==
  /\ work.op \in {"none", "reload", "stop"} /\ work.failed \in BOOLEAN
  /\ createFaults \in 0 .. MaxCreateFaults

\* What runs is on the list or is being stopped by the call that holds the mutex: no
\* runner is forgotten, and none is started twice.
RunnersAreListed ==
  /\ alive = runners \cup work.stop /\ runners \cap work.stop = {}
  /\ work.start \cap alive = {}

-----------------------------------------------------------------------------
(***************************************************************************)
(* cfgfile/reload.go and glob_watcher.go: configuration files are scanned  *)
(* periodically and the runners they ask for are reloaded.                 *)
(*                                                                         *)
(* Time is counted in ticks, Second of them in a second.  Files are        *)
(* written at any moment, also between a scan and the reading of the files *)
(* it found; a file system may keep the time of a write in full seconds.   *)
(***************************************************************************)

CONSTANTS
  Files,
  Contents,  \* what a file may hold: a set of configurations, or Broken
  Broken,    \* contents that cannot be parsed
  Second,    \* ticks in a second
  MaxNow,    \* bound: the clock
  MaxWrites  \* bound: changes of files

VARIABLES
  reloadMode,  \* "reload" and "once" (Run), "load" (Load); never changes
  file,        \* the files there are: contents and time of the last write
  now, writes,
  gw,          \* the GlobWatcher: time and file list of the last scan
  loop,        \* Run or Load: where it is, the files found, configurations wanted
  forceReload,
  stopper,     \* the caller of Stop: idle, waiting or returned
  early        \* history: Stop returned before Run had begun

reloaderVars ==
  <<listVars, reloadMode, file, now, writes, gw, loop, forceReload, stopper, early>>

NoFile == [contents |-> {}, mtime |-> -1]
Present == {f \in Files : file[f] # NoFile}
LongAgo == -10 * Second

ReloaderInit ==
  /\ ListInit
  /\ reloadMode \in {"reload", "once", "load"}
  /\ file \in [Files -> {NoFile} \cup [contents : Contents, mtime : {0}]]
  /\ now = 0 /\ writes = 0
  /\ gw = [lastScan |-> LongAgo, files |-> {}]
  /\ loop = [pc |-> "new", files |-> {}, wanted |-> {}]
  /\ forceReload = TRUE /\ stopper = "idle" /\ early = FALSE

-----------------------------------------------------------------------------
(* The files                                                               *)

TickClock ==
  /\ now < MaxNow /\ now' = now + 1
  /\ UNCHANGED <<listVars, reloadMode, file, writes, gw, loop, forceReload, stopper, early>>

Truncate(t) == (t \div Second) * Second

WriteFile(f, contents) ==
  /\ writes < MaxWrites /\ writes' = writes + 1
  /\ \E mtime \in {now, Truncate(now)} : file' = [file EXCEPT ![f] = [contents |-> contents, mtime |-> mtime]]
  /\ UNCHANGED <<listVars, reloadMode, now, gw, loop, forceReload, stopper, early>>

RemoveFile(f) ==
  /\ f \in Present /\ writes < MaxWrites /\ writes' = writes + 1
  /\ file' = [file EXCEPT ![f] = NoFile]
  /\ UNCHANGED <<listVars, reloadMode, now, gw, loop, forceReload, stopper, early>>

-----------------------------------------------------------------------------
(* Run and Load                                                            *)

\* The configurations of the files that can be read.
loadConfigs(files) == UNION {file[f].contents : f \in {g \in files : file[g].contents # Broken}}

\* Check, before Run: with reloading off a configuration that is refused is an error,
\* and Run is not called.
Check ==
  reloadMode # "once" \/ (/\ \A f \in Present : file[f].contents # Broken
                          /\ loadConfigs(Present) \cap BadCfgs = {})

BeginRun ==
  /\ loop.pc = "new" /\ Check
  /\ loop' = [loop EXCEPT !.pc = "select"]
  /\ UNCHANGED <<listVars, reloadMode, file, now, writes, gw, forceReload, stopper, early>>

\* A file that was written in the second before the last scan, or later, counts as changed.
Changed(f) == file[f].mtime > Truncate(gw.lastScan - Second)

\* Scan, after the period or at once; without a change nothing is reloaded, unless the
\* last reload failed.
Scan ==
  /\ loop.pc = "select" /\ gw' = [lastScan |-> now, files |-> Present]
  /\ loop' = IF (\E f \in Present : Changed(f)) \/ Present # gw.files \/ forceReload
             THEN [loop EXCEPT !.pc = "load", !.files = Present]
             ELSE loop
  /\ UNCHANGED <<listVars, reloadMode, file, now, writes, forceReload, stopper, early>>

\* The files of the scan are read now; one that is gone is an error like a broken one.
ReadFiles ==
  /\ loop.pc = "load"
  /\ loop' = [loop EXCEPT !.pc = "reload", !.wanted = loadConfigs(loop.files)]
  /\ UNCHANGED <<listVars, reloadMode, file, now, writes, gw, forceReload, stopper, early>>

ReloadRunners ==
  /\ loop.pc = "reload" /\ BeginReload(loop.wanted)
  /\ loop' = [loop EXCEPT !.pc = "reloading"]
  /\ UNCHANGED <<reloadMode, file, now, writes, gw, forceReload, stopper, early>>

\* Reload returns; the next iteration reloads "if and only if this one failed".
Reloaded ==
  /\ loop.pc = "reloading" /\ ReloadDone /\ Unlock
  /\ forceReload' = work.failed
  /\ loop' = [loop EXCEPT !.pc = CASE reloadMode = "reload" -> "select"
                                   [] reloadMode = "once" -> "done?"
                                   [] reloadMode = "load" -> "stop"]
  /\ UNCHANGED <<reloadMode, file, now, writes, gw, stopper, early>>

\* Stop was called; before a scan, or after the only one.
NoticeDone ==
  /\ loop.pc \in {"select", "done?"} /\ stopper # "idle" /\ reloadMode # "load"
  /\ loop' = [loop EXCEPT !.pc = "stop"]
  /\ UNCHANGED <<listVars, reloadMode, file, now, writes, gw, forceReload, stopper, early>>

\* The deferred Stop of the list, and wg.Done.
StopRunners ==
  /\ loop.pc = "stop" /\ BeginStop
  /\ loop' = [loop EXCEPT !.pc = "stopping"]
  /\ UNCHANGED <<reloadMode, file, now, writes, gw, forceReload, stopper, early>>

EndRun ==
  /\ loop.pc = "stopping" /\ StopDone /\ Unlock
  /\ loop' = [loop EXCEPT !.pc = "returned"]
  /\ UNCHANGED <<reloadMode, file, now, writes, gw, forceReload, stopper, early>>

-----------------------------------------------------------------------------
(* Stop                                                                    *)

StopReloader ==
  /\ stopper = "idle" /\ stopper' = "waiting"
  /\ UNCHANGED <<listVars, reloadMode, file, now, writes, gw, loop, forceReload, early>>

\* wg.Wait; a Run that has not begun is not counted yet.
StopReturns ==
  /\ stopper = "waiting" /\ loop.pc \in {"new", "returned"}
  /\ stopper' = "returned" /\ early' = (loop.pc = "new")
  /\ UNCHANGED <<listVars, reloadMode, file, now, writes, gw, loop, forceReload>>

-----------------------------------------------------------------------------

AllCfgs == UNION (Contents \ {Broken})

ReloaderStep ==
  \/ BeginRun \/ Scan \/ ReadFiles \/ ReloadRunners \/ Reloaded \/ NoticeDone \/ StopRunners
  \/ EndRun \/ StopReturns
  \/ ListStep(AllCfgs) /\ UNCHANGED <<reloadMode, file, now, writes, gw, loop, forceReload, stopper, early>>

ReloaderNext ==
  \/ ReloaderStep \/ TickClock \/ StopReloader
  \/ \E f \in Files : RemoveFile(f) \/ \E c \in Contents : WriteFile(f, c)

-----------------------------------------------------------------------------

ReloaderTypeOK ==
  /\ ListTypeOK /\ runners \subseteq AllCfgs
  /\ now \in 0 .. MaxNow /\ writes \in 0 .. MaxWrites /\ gw.files \subseteq Files
  /\ loop.pc \in {"new", "select", "load", "reload", "reloading", "done?", "stop", "stopping",
                  "returned"}
  /\ stopper \in {"idle", "waiting", "returned"} /\ {forceReload, early} \subseteq BOOLEAN

\* "Stop stops the reloader and waits for all modules to properly stop": nothing runs any
\* more when it returns, unless the goroutine of Run had not got to wg.Add.
StopLeavesNothing == stopper = "returned" => early \/ alive = {}

\* Whatever is written when, the runners are in the end those of the files, for as long as
\* reloading is on: no write falls between two scans, and a failed start is repeated.
Settled == runners = loadConfigs(Present) \ BadCfgs
FilesAreFollowed == reloadMode = "reload" => <>[](stopper # "idle" \/ Settled)

-----------------------------------------------------------------------------
(***************************************************************************)
(* autodiscover/autodiscover.go with the pieces every provider is made of  *)
(* (template, builder.go, appender.go, meta): providers publish start and  *)
(* stop events on a bus, the worker collects the configurations they ask   *)
(* for and reloads the runners when its timer fires.                       *)
(*                                                                         *)
(* An object is what a provider discovers; a configuration is a pair of an *)
(* object and the template, or the hints, it was made from.  A template    *)
(* that mentions nothing of the object gives all objects the same one.     *)
(***************************************************************************)

CONSTANTS
  Objects,
  Templates,  \* settings: records [name, level, net, shared]
  Everybody,  \* stands for the object in configurations that mention none
  Hinted,     \* the objects that carry hints
  BusSize     \* the events the channel of the listener holds

VARIABLES
  bus,               \* the events on the way to the worker
  wanted,            \* Autodiscover.configs: the configurations of each event id
  meta,              \* the object whose metadata is stored for each configuration
  updated, retry,
  worker, stopping,  \* where the worker and Stop are
  overtaken          \* history: a reload began after Stop had stopped the runners

workerVars == <<listVars, bus, wanted, meta, updated, retry, worker, stopping, overtaken>>

Levels == {"pod", "container", "object"}
Ids == Objects \X Levels
DiscoverCfgs == (Objects \cup {Everybody}) \X ({t.name : t \in Templates} \cup {"hints"})

WorkerInit ==
  /\ ListInit
  /\ bus = <<>> /\ wanted = [id \in Ids |-> {}]
  /\ meta = [c \in {} |-> {}]
  /\ updated = FALSE /\ retry = FALSE /\ overtaken = FALSE
  /\ worker = "select" /\ stopping = "no"

-----------------------------------------------------------------------------
(* What a provider publishes                                               *)

\* Mapper.GetConfig and ApplyConfigTemplate: a template gives a configuration if its
\* condition holds and its variables are known; those of the network may not be.
GetConfig(id, net) ==
  {<<IF t.shared THEN Everybody ELSE id[1], t.name>> :
     t \in {u \in Templates : u.level = id[2] /\ (u.net => net)}}

\* Builders.GetConfig: the hints of the annotations, for what is not a whole pod.
BuilderConfig(id) == IF id[1] \in Hinted /\ id[2] # "pod" THEN {<<id[1], "hints">>} ELSE {}

\* The builders are asked only if no template gave a configuration.
EventConfigs(id, net) ==
  IF GetConfig(id, net) # {} THEN GetConfig(id, net) ELSE BuilderConfig(id)

Event(flag, id, net) == [flag |-> flag, id |-> id, configs |-> EventConfigs(id, net)]

\* bus.Publish waits for room; without a listener the events go nowhere.
CanPublish(events) == Len(bus) + Len(events) <= BusSize \/ stopping # "no"
Publish(events) == bus' = IF stopping = "no" THEN bus \o events ELSE bus

-----------------------------------------------------------------------------
(* The worker                                                              *)

\* Configurations the factory accepts; one that is wanted already is not checked again.
Accepted(e) == {c \in e.configs : c \in wanted[e.id] \/ c \notin BadCfgs}

\* An event with new configurations, or with fewer than before (a resync), replaces those
\* of its id; otherwise they are the same.
handleStart(e) ==
  /\ wanted' = [wanted EXCEPT ![e.id] = Accepted(e)]
  /\ updated' = \/ updated \/ Accepted(e) \ wanted[e.id] # {}
                \/ Cardinality(Accepted(e)) < Cardinality(wanted[e.id])

handleStop(e) ==
  /\ wanted' = [wanted EXCEPT ![e.id] = {}]
  /\ updated' = (updated \/ wanted[e.id] # {})

\* "Update meta no matter what": the fields that runners of the configuration add.
StoreMeta(e) ==
  IF e.flag # "start" THEN meta
  ELSE [c \in DOMAIN meta \cup e.configs |-> IF c \in e.configs THEN e.id[1] ELSE meta[c]]

HandleEvent ==
  /\ worker = "select" /\ bus # <<>>
  /\ bus' = Tail(bus) /\ meta' = StoreMeta(Head(bus))
  /\ IF Head(bus).flag = "start" THEN handleStart(Head(bus)) ELSE handleStop(Head(bus))
  /\ UNCHANGED <<listVars, retry, worker, stopping, overtaken>>

AllWanted == UNION {wanted[id] : id \in Ids}

\* The timer; it is armed again after each time.
DebounceTimer ==
  /\ worker = "select" /\ (updated \/ retry)
  /\ BeginReload(AllWanted)
  /\ worker' = "reloading"
  /\ overtaken' = (overtaken \/ stopping = "done")
  /\ UNCHANGED <<bus, wanted, meta, updated, retry, stopping>>

\* Mutant: what failed is not tried again.
ReloadReturnsForgets ==
  /\ worker = "reloading" /\ ReloadDone /\ Unlock
  /\ updated' = FALSE /\ retry' = FALSE
  /\ worker' = "select"
  /\ UNCHANGED <<bus, wanted, meta, stopping, overtaken>>

ReloadReturns ==
  /\ worker = "reloading" /\ ReloadDone /\ Unlock
  /\ updated' = FALSE /\ retry' = work.failed
  /\ worker' = "select"
  /\ UNCHANGED <<bus, wanted, meta, stopping, overtaken>>

\* A nil event: the listener was stopped.
WorkerReturns ==
  /\ worker = "select" /\ stopping # "no" /\ bus = <<>>
  /\ worker' = "returned"
  /\ UNCHANGED <<listVars, bus, wanted, meta, updated, retry, stopping, overtaken>>

-----------------------------------------------------------------------------
(* Stop                                                                    *)

StopListener ==
  /\ stopping = "no" /\ stopping' = "runners"
  /\ UNCHANGED <<listVars, bus, wanted, meta, updated, retry, worker, overtaken>>

StopDiscovered ==
  /\ stopping = "runners" /\ BeginStop /\ stopping' = "stopping"
  /\ UNCHANGED <<bus, wanted, meta, updated, retry, worker, overtaken>>

DiscoverStopped ==
  /\ stopping = "stopping" /\ StopDone /\ Unlock /\ stopping' = "done"
  /\ UNCHANGED <<bus, wanted, meta, updated, retry, worker, overtaken>>

WorkerStep ==
  \/ HandleEvent \/ DebounceTimer \/ ReloadReturns \/ WorkerReturns
  \/ StopDiscovered \/ DiscoverStopped
  \/ ListStep(DiscoverCfgs) /\ UNCHANGED <<bus, wanted, meta, updated, retry, worker, stopping, overtaken>>

-----------------------------------------------------------------------------

WorkerTypeOK ==
  /\ ListTypeOK /\ runners \subseteq DiscoverCfgs
  /\ Len(bus) <= BusSize /\ wanted \in [Ids -> SUBSET DiscoverCfgs]
  /\ DOMAIN meta \subseteq DiscoverCfgs
  /\ worker \in {"select", "reloading", "returned"}
  /\ stopping \in {"no", "runners", "stopping", "done"}
  /\ {updated, retry, overtaken} \subseteq BOOLEAN

\* The list differs from what is wanted only if the worker knows it: it reloads when the
\* timer fires, or it tries again what failed.
ChangesAreKnown ==
  (worker = "select" /\ stopping = "no" /\ runners # AllWanted) => (updated \/ retry)

\* After Stop no runner is left, unless the timer of the worker fired before the worker
\* noticed that its listener was stopped.
NothingRunsAfterStop == (stopping = "done" /\ ~overtaken) => alive = {}

\* The runners become those that are wanted, and stay so.
WantedAreRun == stopping # "no" \/ runners = AllWanted

-----------------------------------------------------------------------------
(***************************************************************************)
(* The kubernetes provider of autodiscover: the eventers of pod.go,        *)
(* node.go and service.go, and publish of kubernetes.go.                   *)
(*                                                                         *)
(* The watcher (external) keeps a store of the objects and queues the      *)
(* names of those that changed; a handler is called with what the store    *)
(* holds by then.  The states of an object are                             *)
(*   new       no container id, no address, not ready                      *)
(*   ready     a running container, an address                             *)
(*   stopped   the container is known but does not run, the node not ready *)
(*   ending    marked for deletion, otherwise as ready                     *)
(*   ended     marked for deletion, otherwise as stopped                   *)
(***************************************************************************)

CONSTANTS
  Resource,   \* the settings resource and cleanup_timeout of a behaviour
  MaxChanges  \* bound: changes of objects and updates of their namespace

VARIABLES
  resource,       \* [kind, delay]; never changes
  store, notify,  \* the watcher: the objects and the queue of changes
  changes, seen,  \* how many so far; the objects that were there
  timers,         \* events that time.AfterFunc will publish
  lastPorts       \* history: the objects an update left without ports

k8sVars == <<resource, store, notify, changes, seen, timers, lastPorts>>

Gone == [state |-> "gone", ports |-> FALSE]

K8sInit ==
  /\ resource \in Resource
  /\ store = [o \in Objects |-> Gone]
  /\ notify = <<>> /\ changes = 0 /\ seen = {} /\ timers = {} /\ lastPorts = {}

-----------------------------------------------------------------------------
(* Kubernetes                                                              *)

NextStates(s) ==
  CASE s = "gone" -> {"new", "ready"} [] s = "new" -> {"ready", "gone"}
    [] s = "ready" /\ resource.kind = "service" -> {"ready", "ending", "gone"}
    [] s = "ending" /\ resource.kind = "service" -> {"gone"}
    [] s = "ready" -> {"stopped", "ending", "gone"} [] s = "stopped" -> {"ready", "ended", "gone"}
    [] s = "ending" -> {"ended", "gone"} [] s = "ended" -> {"gone"}

\* An object changes.  An object that was deleted does not come back: its uid is new.
Change(o) ==
  /\ changes < MaxChanges /\ changes' = changes + 1
  /\ \E s \in NextStates(store[o].state), p \in BOOLEAN :
       /\ store[o] = Gone => o \notin seen
       /\ (s = "gone" \/ resource.kind # "service") => p = (s # "gone")
       /\ store' = [store EXCEPT ![o] = [state |-> s, ports |-> p]]
       /\ notify' = Append(notify, [object |-> o, last |-> store[o],
                                    what |-> CASE s = "gone" -> "delete"
                                               [] store[o] = Gone -> "add" [] OTHER -> "update"])
       /\ lastPorts' = IF s # "gone" /\ ~p /\ store[o].ports THEN lastPorts \cup {o} ELSE lastPorts
  /\ seen' = seen \cup {o}
  /\ UNCHANGED <<workerVars, resource, timers>>

-----------------------------------------------------------------------------
(* The events of an object                                                 *)

Marked(x) == x.state \in {"ending", "ended"}
Running(x) == x.state \in {"ready", "ending"}

\* Network information is known of running containers only; without a container id there
\* are only stop events.
containerPodEvents(o, x, flag) ==
  IF flag = "start" /\ x.state = "new" THEN <<>> ELSE <<Event(flag, <<o, "container">>, Running(x))>>

podEvent(o, x, flag) == Event(flag, <<o, "pod">>, Running(x))

\* The event of a pod comes before those of its containers.
podEmit(o, x, flag) ==
  LET events == containerPodEvents(o, x, flag)
  IN IF events = <<>> THEN <<>> ELSE <<podEvent(o, x, flag)>> \o events

\* A node is monitored if it is ready and has an address.
nodeEmit(o, x, flag) ==
  IF flag = "start" /\ ~Running(x) THEN <<>> ELSE <<Event(flag, <<o, "object">>, TRUE)>>

\* A service has an event for each port.
serviceEmit(o, x, flag) ==
  IF ~x.ports \/ (flag = "start" /\ x.state = "new") THEN <<>> ELSE <<Event(flag, <<o, "object">>, TRUE)>>

emit(o, x, flag) ==
  CASE resource.kind = "pod" -> podEmit(o, x, flag)
    [] resource.kind = "node" -> nodeEmit(o, x, flag)
    [] resource.kind = "service" -> serviceEmit(o, x, flag)

PublishNow(events) == CanPublish(events) /\ Publish(events) /\ UNCHANGED timers
PublishLater(events) == timers' = timers \cup {events} /\ UNCHANGED bus

\* publishAll: the stop events of a terminated pod are published after the cleanup timeout,
\* the start events that follow them at once.
publishAll(stops, starts, x) ==
  IF resource.delay /\ Marked(x) /\ ~Running(x)
  THEN CanPublish(starts) /\ Publish(starts) /\ timers' = timers \cup {stops}
  ELSE PublishNow(stops \o starts)

\* An update stops and starts a pod.
unlockedUpdate(o, x) == publishAll(podEmit(o, x, "stop"), podEmit(o, x, "start"), x)

\* A node that terminates is left alone while it is ready, then stopped later.
nodeOnUpdate(o, x) ==
  CASE Marked(x) /\ Running(x) -> UNCHANGED <<bus, timers>>
    [] Marked(x) /\ ~Running(x) -> PublishLater(nodeEmit(o, x, "stop"))
    [] OTHER -> PublishNow(nodeEmit(o, x, "stop") \o nodeEmit(o, x, "start"))

serviceOnUpdate(o, x) ==
  IF Marked(x) THEN PublishLater(serviceEmit(o, x, "stop"))
  ELSE PublishNow(serviceEmit(o, x, "stop") \o serviceEmit(o, x, "start"))

OnUpdate(o, x) ==
  CASE resource.kind = "pod" -> unlockedUpdate(o, x)
    [] resource.kind = "node" -> nodeOnUpdate(o, x)
    [] resource.kind = "service" -> serviceOnUpdate(o, x)

OnAdd(o, x) == PublishNow(emit(o, x, "start"))

OnDelete(o, x) ==
  IF resource.kind = "pod" THEN publishAll(podEmit(o, x, "stop"), <<>>, x)
  ELSE PublishLater(emit(o, x, "stop"))

\* The watcher calls the handler; an object that is gone by then is only reported as
\* deleted, with the last state the watcher knew.
Notify ==
  /\ notify # <<>> /\ notify' = Tail(notify)
  /\ LET n == Head(notify) x == store[n.object]
     IN CASE n.what = "delete" -> OnDelete(n.object, n.last)
          [] x = Gone -> UNCHANGED <<bus, timers>>
          [] n.what = "add" -> OnAdd(n.object, x)
          [] n.what = "update" -> OnUpdate(n.object, x)
  /\ UNCHANGED <<listVars, wanted, meta, updated, retry, worker, stopping, overtaken, resource,
                 store, changes, seen, lastPorts>>

\* A change of its namespace or node updates a pod of the store, under the lock that
\* keeps the handlers of the pods out.
CrossUpdate(o) ==
  /\ resource.kind = "pod" /\ store[o] # Gone
  /\ changes < MaxChanges /\ changes' = changes + 1
  /\ unlockedUpdate(o, store[o])
  /\ UNCHANGED <<listVars, wanted, meta, updated, retry, worker, stopping, overtaken, resource,
                 store, notify, seen, lastPorts>>

TimerFires ==
  \E events \in timers :
    /\ CanPublish(events) /\ Publish(events) /\ timers' = timers \ {events}
    /\ UNCHANGED <<listVars, wanted, meta, updated, retry, worker, stopping, overtaken, resource,
                   store, notify, changes, seen, lastPorts>>

-----------------------------------------------------------------------------

K8sStep == Notify \/ TimerFires
K8sNext == K8sStep \/ \E o \in Objects : Change(o) \/ CrossUpdate(o)

K8sTypeOK ==
  /\ changes \in 0 .. MaxChanges /\ seen \cup lastPorts \subseteq Objects
  /\ \A o \in Objects : store[o].state \in {"gone", "new", "ready", "stopped", "ending", "ended"}

\* What an object should be monitored with.  A terminating node may have been started or
\* not: its updates are ignored.
Expected(o) ==
  LET x == store[o]
      all(net) == UNION {EventConfigs(<<o, l>>, net) \ BadCfgs :
                           l \in IF resource.kind = "pod" THEN {"pod", "container"} ELSE {"object"}}
  IN CASE x.state \in {"gone", "new"} -> {{}}
       [] resource.kind = "pod" -> {IF x.state = "ended" /\ resource.delay THEN {} ELSE all(Running(x))}
       [] resource.kind = "node" -> IF x.state = "ending" THEN {{}, all(TRUE)}
                                    ELSE {IF x.state = "ready" THEN all(TRUE) ELSE {}}
       [] resource.kind = "service" -> {IF x.state = "ready" /\ x.ports THEN all(TRUE) ELSE {}}

\* When every notification, timer and event has been dealt with, the worker wants what the
\* objects of the cluster should be monitored with: whatever was delayed, came late or was
\* repeated.  Excepted are services that lost all their ports: their stop event has none.
ObjectsAreFollowed ==
  (notify = <<>> /\ timers = {} /\ bus = <<>> /\ stopping = "no") =>
    \A o \in Objects \ lastPorts : UNION {wanted[<<o, l>>] : l \in Levels} \in Expected(o)

-----------------------------------------------------------------------------
(***************************************************************************)
(* The kubernetes provider of autodiscover with `unique`: one Beat of the  *)
(* cluster, the holder of a lease, runs the templates (kubernetes.go).     *)
(* The leader elector is external: it calls OnStartedLeading on a          *)
(* goroutine of its own and OnStoppedLeading before Run returns.           *)
(***************************************************************************)

\* Subtraction that stops at zero.
OneLess(n) == IF n > 0 THEN n - 1 ELSE 0

CONSTANTS MaxTerms, NoTerm   \* bound: how often the lease is gained

VARIABLES
  lease,    \* held by this Beat, pending start callbacks, a pending stop callback, and
            \* how many of the starts come after the stop callback of their term
  eventID,  \* of the term whose start callback ran last; a term is an object
  terms,    \* the terms begun so far
  crossed   \* history: the terms whose stop callback ran before their start callback

leaderVars == <<lease, eventID, terms, crossed>>

LeaderInit ==
  /\ lease = [held |-> FALSE, starts |-> 0, stops |-> 0, late |-> 0]
  /\ eventID = NoTerm /\ terms = {} /\ crossed = {}

\* The elector runs again after a lease was lost, until Stop cancels it.
Acquire ==
  /\ ~lease.held /\ lease.stops = 0 /\ stopping = "no"
  /\ Cardinality(terms) + lease.starts < MaxTerms
  /\ lease' = [lease EXCEPT !.held = TRUE, !.starts = @ + 1]
  /\ UNCHANGED <<workerVars, eventID, terms, crossed>>

Lose ==
  /\ lease.held
  /\ lease' = [lease EXCEPT !.held = FALSE, !.stops = 1]
  /\ UNCHANGED <<workerVars, eventID, terms, crossed>>

\* The bus delivers only events with a configuration.
LeaderEvents(flag, term) ==
  LET configs == GetConfig(<<term, "object">>, TRUE)
  IN IF configs = {} THEN <<>> ELSE <<[flag |-> flag, id |-> <<term, "object">>, configs |-> configs]>>

\* Mutant: every term has the same event id.
OnStartedLeadingAgain ==
  /\ lease.starts > 0 /\ lease' = [lease EXCEPT !.starts = @ - 1]
  /\ eventID' \in Objects /\ terms' = terms \cup {eventID'}
  /\ CanPublish(<<0>>) /\ Publish(LeaderEvents("start", CHOOSE o \in Objects : TRUE))
  /\ UNCHANGED <<listVars, wanted, meta, updated, retry, worker, stopping, overtaken, crossed>>

\* startLeading, with an event id of its own.
OnStartedLeading ==
  /\ lease.starts > 0 /\ lease' = [lease EXCEPT !.starts = @ - 1, !.late = OneLess(@)]
  /\ \E term \in Objects \ terms :
       /\ CanPublish(<<term>>) /\ Publish(LeaderEvents("start", term))
       /\ eventID' = term /\ terms' = terms \cup {term}
       /\ crossed' = IF lease.late > 0 THEN crossed \cup {term} ELSE crossed
  /\ UNCHANGED <<listVars, wanted, meta, updated, retry, worker, stopping, overtaken>>

\* stopLeading, with the event id that is known by now.
OnStoppedLeading ==
  /\ lease.stops > 0 /\ lease' = [lease EXCEPT !.stops = 0, !.late = lease.starts]
  /\ IF eventID = NoTerm THEN UNCHANGED bus
     ELSE CanPublish(<<eventID>>) /\ Publish(LeaderEvents("stop", eventID))
  /\ UNCHANGED <<listVars, wanted, meta, updated, retry, worker, stopping, overtaken, eventID, terms, crossed>>

LeaderStep == OnStartedLeading \/ OnStoppedLeading
LeaderNext == LeaderStep \/ Acquire \/ Lose

-----------------------------------------------------------------------------

LeaderTypeOK ==
  /\ lease.held \in BOOLEAN /\ lease.starts \in 0 .. MaxTerms /\ lease.stops \in 0 .. 1
  /\ eventID \in Objects \cup {NoTerm} /\ crossed \subseteq terms /\ terms \subseteq Objects

LeaderIsQuiet == lease.starts = 0 /\ lease.stops = 0 /\ bus = <<>> /\ stopping = "no"

WantedOfTerm(o) == IF lease.held /\ o = eventID THEN GetConfig(<<o, "object">>, TRUE) ELSE {}

\* `unique` promises that one Beat of the cluster runs the templates: when the callbacks and
\* the worker are done, they are wanted for the term that is on, and for no other.  The code
\* does not keep it: the elector starts OnStartedLeading on a goroutine, and a stop callback
\* that comes first finds the event id of an earlier term, or none.
OnlyTheHolder == LeaderIsQuiet => \A o \in Objects : wanted[<<o, "object">>] = WantedOfTerm(o)

\* What holds: this is so of every term whose start callback ran before its stop callback,
\* whichever terms before or after it crossed.
OnlyTheLeader ==
  LeaderIsQuiet => \A o \in Objects \ crossed : wanted[<<o, "object">>] = WantedOfTerm(o)

-----------------------------------------------------------------------------
(***************************************************************************)
(* autodiscover/providers/docker: containers are discovered when they      *)
(* start, and given up some time after they stopped.  The watcher of       *)
(* the containers (external) delivers starts and stops on two channels.    *)
(***************************************************************************)

CONSTANTS
  Containers,   \* the objects that are containers of this host
  MaxRestarts   \* bound: starts and stops of a container

VARIABLES
  cleanup,        \* whether there is a cleanup timeout; never changes
  up,             \* the containers that run
  restarts,
  starts, stops,  \* the two listeners: containers, with the time of their event
  stoppers,       \* Provider.stoppers: the containers with an entry
  armed,          \* armed[c]: timers that did not fire; the entry is the last one's
  triggers,       \* triggers[c]: timers that fired and wait for the loop to take c
  outrun          \* history: the containers whose events the loop took out of order

dockerVars == <<cleanup, up, restarts, starts, stops, stoppers, armed, triggers, outrun>>

DockerInit ==
  /\ cleanup \in BOOLEAN /\ up = {}
  /\ restarts = [c \in Containers |-> 0]
  /\ starts = <<>> /\ stops = <<>>
  /\ stoppers = {} /\ outrun = {}
  /\ armed = [c \in Containers |-> 0] /\ triggers = [c \in Containers |-> 0]

ContainerChanges(c) ==
  /\ restarts[c] < MaxRestarts /\ restarts' = [restarts EXCEPT ![c] = @ + 1]
  /\ IF c \in up THEN up' = up \ {c} /\ stops' = Append(stops, <<c, restarts[c]>>) /\ UNCHANGED starts
                 ELSE up' = up \cup {c} /\ starts' = Append(starts, <<c, restarts[c]>>) /\ UNCHANGED stops
  /\ UNCHANGED <<workerVars, cleanup, stoppers, armed, triggers, outrun>>

ContainerEvents(flag, c) == <<Event(flag, <<c, "container">>, TRUE)>>

\* An earlier event of the container is still in the other listener.
Overtakes(event, queue) == \E i \in 1 .. Len(queue) : queue[i][1] = event[1] /\ queue[i][2] < event[2]

\* A container that starts again keeps its configuration: its pending stop is aborted.  A
\* timer that fired cannot be stopped.
startContainer ==
  /\ starts # <<>> /\ starts' = Tail(starts)
  /\ LET c == Head(starts)[1]
     IN /\ IF c \in stoppers
           THEN /\ stoppers' = stoppers \ {c} /\ armed' = [armed EXCEPT ![c] = OneLess(@)]
                /\ UNCHANGED bus
           ELSE /\ CanPublish(<<c>>) /\ Publish(ContainerEvents("start", c))
                /\ UNCHANGED <<stoppers, armed>>
        /\ outrun' = IF triggers[c] > 0 \/ Overtakes(Head(starts), stops) THEN outrun \cup {c} ELSE outrun
  /\ UNCHANGED <<listVars, wanted, meta, updated, retry, worker, stopping, overtaken, cleanup, up,
                 restarts, stops, triggers>>

scheduleStopContainer ==
  /\ stops # <<>> /\ stops' = Tail(stops)
  /\ LET c == Head(stops)[1]
     IN /\ IF cleanup
           THEN stoppers' = stoppers \cup {c} /\ armed' = [armed EXCEPT ![c] = @ + 1] /\ UNCHANGED bus
           ELSE /\ CanPublish(<<c>>) /\ Publish(ContainerEvents("stop", c))
                /\ stoppers' = stoppers \ {c} /\ UNCHANGED armed
        /\ outrun' = IF Overtakes(Head(stops), starts) THEN outrun \cup {c} ELSE outrun
  /\ UNCHANGED <<listVars, wanted, meta, updated, retry, worker, stopping, overtaken, cleanup, up,
                 restarts, starts, triggers>>

\* time.AfterFunc: the goroutine waits for the loop to take the container.
CleanupTimer(c) ==
  /\ armed[c] > 0 /\ armed' = [armed EXCEPT ![c] = @ - 1]
  /\ triggers' = [triggers EXCEPT ![c] = @ + 1]
  /\ UNCHANGED <<workerVars, cleanup, up, restarts, starts, stops, stoppers, outrun>>

stopContainer(c) ==
  /\ triggers[c] > 0 /\ triggers' = [triggers EXCEPT ![c] = @ - 1]
  /\ stoppers' = stoppers \ {c}
  /\ CanPublish(<<c>>) /\ Publish(ContainerEvents("stop", c))
  /\ UNCHANGED <<listVars, wanted, meta, updated, retry, worker, stopping, overtaken, cleanup, up,
                 restarts, starts, stops, armed, outrun>>

DockerStep ==
  \/ startContainer \/ scheduleStopContainer
  \/ \E c \in Containers : CleanupTimer(c) \/ stopContainer(c)

DockerNext == DockerStep \/ \E c \in Containers : ContainerChanges(c)

-----------------------------------------------------------------------------

DockerTypeOK ==
  /\ cleanup \in BOOLEAN /\ restarts \in [Containers -> 0 .. MaxRestarts]
  /\ up \cup stoppers \cup outrun \subseteq Containers
  /\ {armed, triggers} \subseteq [Containers -> 0 .. MaxRestarts]

DockerIsQuiet ==
  /\ starts = <<>> /\ stops = <<>> /\ bus = <<>> /\ stopping = "no"
  /\ \A c \in Containers : armed[c] = 0 /\ triggers[c] = 0

WantedOfContainer(c) == IF c \in up THEN EventConfigs(<<c, "container">>, TRUE) ELSE {}

\* "Container %s is restarting, aborting pending stop" (docker.go, startContainer): when all
\* timers and events are dealt with, exactly the containers that run are wanted.  The code
\* does not keep it: the select takes starts and stops in any order, and a timer that fired
\* is not aborted.
RunningAreFollowed == DockerIsQuiet => \A c \in Containers : wanted[<<c, "container">>] = WantedOfContainer(c)

\* What holds: this is so of every container whose events the loop took in their order, none
\* of whose starts came while a timer of it had fired and waited; restarts before and after
\* the cleanup timeout included.
ContainersAreFollowed ==
  DockerIsQuiet => \A c \in Containers \ outrun : wanted[<<c, "container">>] = WantedOfContainer(c)

-----------------------------------------------------------------------------
(***************************************************************************)
(* autodiscover/providers/jolokia: probes are multicast, agents that reply *)
(* are instances, and an instance that was not seen for the grace period   *)
(* is stopped.                                                             *)
(***************************************************************************)

CONSTANTS
  GracePeriod,  \* in ticks
  MaxReplies    \* bound: replies and changes of agents

VARIABLES
  agents,          \* the agents that run
  replies,         \* replies on the way, with whether the agent knows its url
  instances, age,  \* Discovery.instances and the time since they were last seen
  probes

jolokiaVars == <<agents, replies, instances, age, probes>>

JolokiaInit ==
  /\ agents = {} /\ replies = {} /\ instances = {} /\ probes = 0
  /\ age = [a \in Objects |-> 0]

AgentChanges(a) ==
  /\ probes < MaxReplies /\ probes' = probes + 1
  /\ agents' = IF a \in agents THEN agents \ {a} ELSE agents \cup {a}
  /\ UNCHANGED <<workerVars, replies, instances, age>>

\* sendProbe: an agent replies, more than once if it is reached on several interfaces.
Reply(a) ==
  /\ probes < MaxReplies /\ probes' = probes + 1 /\ a \in agents
  /\ \E url \in BOOLEAN : replies' = replies \cup {<<a, url>>}
  /\ UNCHANGED <<workerVars, agents, instances, age>>

Tick ==
  /\ \E a \in instances : age[a] <= GracePeriod
  /\ age' = [a \in Objects |-> IF a \in instances /\ age[a] <= GracePeriod THEN age[a] + 1 ELSE age[a]]
  /\ UNCHANGED <<workerVars, agents, replies, instances, probes>>

\* The bus delivers only events with a configuration.
InstanceEvents(flag, a) ==
  LET configs == EventConfigs(<<a, "object">>, TRUE)
  IN IF configs = {} THEN <<>> ELSE <<[flag |-> flag, id |-> <<a, "object">>, configs |-> configs]>>

\* An agent without a url is ignored by now.
update ==
  \E r \in replies :
    /\ replies' = replies \ {r}
    /\ IF ~r[2] \/ r[1] \in instances THEN UNCHANGED bus
       ELSE CanPublish(<<r>>) /\ Publish(InstanceEvents("start", r[1]))
    /\ instances' = IF r[2] THEN instances \cup {r[1]} ELSE instances
    /\ age' = IF r[2] THEN [age EXCEPT ![r[1]] = 0] ELSE age
    /\ UNCHANGED <<listVars, wanted, meta, updated, retry, worker, stopping, overtaken, agents, probes>>

checkStopped ==
  \E a \in instances :
    /\ age[a] > GracePeriod
    /\ CanPublish(<<a>>) /\ Publish(InstanceEvents("stop", a))
    /\ instances' = instances \ {a} /\ age' = [age EXCEPT ![a] = 0]
    /\ UNCHANGED <<listVars, wanted, meta, updated, retry, worker, stopping, overtaken, agents,
                   replies, probes>>

JolokiaStep == update \/ checkStopped
JolokiaNext == JolokiaStep \/ Tick \/ \E a \in Objects : AgentChanges(a) \/ Reply(a)

-----------------------------------------------------------------------------

JolokiaTypeOK ==
  /\ agents \cup instances \subseteq Objects /\ replies \subseteq Objects \X BOOLEAN
  /\ age \in [Objects -> 0 .. GracePeriod + 1] /\ probes \in 0 .. MaxReplies

\* Once the events are dealt with, the worker wants exactly the instances of the discovery.
InstancesAreFollowed ==
  (bus = <<>> /\ stopping = "no") =>
    \A a \in Objects : wanted[<<a, "object">>] =
      IF a \in instances THEN EventConfigs(<<a, "object">>, TRUE) ELSE {}

\* An agent that is down for good is not monitored for ever.
DownAgentsStop ==
  \A a \in Objects : <>[](a \notin agents) => <>[](stopping # "no" \/ a \notin instances)
=============================================================================
