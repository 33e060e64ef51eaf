-------------------------------- MODULE Beat --------------------------------
(***************************************************************************)
(* A Beat as a process: its start, its reloads and its end, the metrics of *)
(* its inputs and their log, and the reporter to a monitoring cluster.     *)
(* They do not share state.                                                *)
(***************************************************************************)
EXTENDS Integers, Sequences, SequencesExt, FiniteSets, TLC

CONSTANT None

-----------------------------------------------------------------------------
(***************************************************************************)
(* One Beat process from launch to its end (cmd/instance/beat.go): what    *)
(* launch starts and defers, the stop requests of the signal handler, of   *)
(* the manager (management/management.go) and of the certificate watchers, *)
(* the re-exec, and the commands that check the configuration or set up    *)
(* the services.  Every step that can fail may fail.  What the process     *)
(* shares with others below its data path is in DataPath.                  *)
(***************************************************************************)

CONSTANTS
  MaxReloads  \* bound: reloads of the output

VARIABLES
  cmd,        \* "run", "test" or "setup"; never changes
  conf,       \* [fleet, http, watch]: under the agent, HTTP API, ssl.restart_on_cert_change; never changes
  pc,         \* the step of the main goroutine
  held,       \* the deferred calls, the last one first
  live,       \* what runs: "lock", "api", "monitor", "metrics", "buffer", "publisher", "processors"
  stop,       \* progress of stopBeat: "no", "closing" (the publisher), "stopping" (the Beater), "done"
  signals,    \* "default", "handled" or "consumed"
  cancelled,  \* the context of the dashboards' import
  callback,   \* the manager has its stop callback
  mgrBusy,    \* the manager's lock is held by a Stop that waits for stopBeat
  watchers,   \* certificate watchers that wait for a change
  changed,    \* watchers that set shouldReexec and have not yet called Manager.Stop
  reexec,     \* shouldReexec
  reloads,    \* reloads so far
  past        \* what happened: "early", "watcher" (started stopBeat), "notified", "failed", "image", "returned"

lifeVars == <<cmd, conf, pc, held, live, stop, signals, cancelled, callback, mgrBusy, watchers, changed, reexec, reloads, past>>
config == <<cmd, conf>>
stopping == <<stop, signals, cancelled, callback, mgrBusy>>
certs == <<watchers, changed, reexec, reloads>>

LifeInit ==
  /\ cmd \in {"run", "test", "setup"} /\ conf \in [fleet : BOOLEAN, http : BOOLEAN, watch : BOOLEAN]
  /\ pc = "configure" /\ held = <<>> /\ live = {} /\ past = {}
  /\ stop = "no" /\ signals = "default" /\ cancelled = FALSE /\ callback = FALSE /\ mgrBusy = FALSE
  /\ watchers = 0 /\ changed = 0 /\ reexec = FALSE /\ reloads = 0

(* The process is there *)
Alive == pc \notin {"ended", "replaced"}

(* The main goroutine starts `what` and defers its end *)
Deferring(what, to) == pc' = to /\ held' = <<what>> \o held /\ live' = live \cup {what}
Plainly(to) == pc' = to /\ UNCHANGED <<held, live>>

(* A failed step: launch unwinds what it has deferred, the commands have deferred nothing *)
Failed == pc' = IF cmd = "run" THEN "cleanup" ELSE "ended"
Fails == Failed /\ past' = past \cup {"failed"} /\ UNCHANGED <<held, live>>

Main == UNCHANGED <<config, stopping, certs>>

(* configure creates the global processors last *)
Configure ==
  /\ pc = "configure" /\ Main
  /\ \/ /\ pc' = IF cmd = "run" THEN "lock" ELSE "beater"
        /\ live' = {"processors"} /\ UNCHANGED past
        /\ held' = IF cmd = "run" THEN <<"notify", "processors">> ELSE <<>>
     \/ pc' = "ended" /\ past' = past \cup {"failed"} /\ UNCHANGED <<held, live>>

(* The data path is locked, except under the agent *)
LockPath ==
  /\ pc = "lock" /\ Main
  /\ \/ conf.fleet /\ Plainly("api") /\ UNCHANGED past
     \/ ~conf.fleet /\ Deferring("lock", "api") /\ UNCHANGED past
     \/ ~conf.fleet /\ Fails

(* NewWithDefaultRoutes and Start, then the handlers of pprof, then the seccomp filter *)
StartAPI ==
  /\ pc = "api" /\ Main
  /\ \/ conf.http /\ Deferring("api", "seccomp") /\ UNCHANGED past
     \/ conf.http /\ Deferring("api", "cleanup") /\ past' = past \cup {"failed"}
     \/ ~conf.http /\ Plainly("seccomp") /\ UNCHANGED past
     \/ conf.http /\ Fails
LoadFilter == pc = "seccomp" /\ Main /\ (Fails \/ (Plainly("beater") /\ UNCHANGED past))

(* createOutput starts a certificate watcher *)
createOutput == IF conf.watch THEN watchers' = watchers + 1 ELSE UNCHANGED watchers

(* createBeater: callbacks, the pipeline with its output, and last the Beater itself *)
CreateBeater ==
  /\ pc = "beater" /\ UNCHANGED <<config, stopping, changed, reexec, reloads, held>>
  /\ \/ /\ createOutput /\ live' = live \cup {"publisher"} /\ UNCHANGED past
        /\ pc' = CASE cmd = "run" -> "monitor" [] cmd = "setup" -> "setup" [] cmd = "test" -> "ended"
     \/ createOutput /\ live' = live \cup {"publisher"} /\ past' = past \cup {"failed"} /\ Failed
     \/ UNCHANGED <<watchers, live>> /\ past' = past \cup {"failed"} /\ Failed

(* Setup: index management, dashboards and pipelines, the first failure ends it *)
Setup == pc = "setup" /\ Main /\ pc' = "ended" /\ UNCHANGED <<held, live>> /\ \E p \in {past, past \cup {"failed"}} : past' = p

setupMonitoring == pc = "monitor" /\ Main /\ (Fails \/ ((Plainly("metrics") \/ Deferring("monitor", "metrics")) /\ UNCHANGED past))
LogMetrics == pc = "metrics" /\ Main /\ (Fails \/ ((Plainly("buffer") \/ Deferring("metrics", "buffer")) /\ UNCHANGED past))

(* The ring buffer, only with the API; its route may fail to be attached *)
StartBuffer ==
  /\ pc = "buffer" /\ Main
  /\ \/ Plainly("signals") /\ UNCHANGED past
     \/ conf.http /\ Deferring("buffer", "signals") /\ UNCHANGED past
     \/ conf.http /\ Deferring("buffer", "cleanup") /\ past' = past \cup {"failed"}
     \/ conf.http /\ Fails

HandleSignals ==
  /\ pc = "signals" /\ signals' = "handled" /\ Plainly("callback")
  /\ UNCHANGED <<config, stop, cancelled, callback, mgrBusy, certs, past>>

SetStopCallback ==
  /\ pc = "callback" /\ callback' = TRUE /\ Plainly("dashboards")
  /\ UNCHANGED <<config, stop, signals, cancelled, mgrBusy, certs, past>>

(* A cancelled import of the dashboards fails, one that is not asked for does not *)
loadDashboards == pc = "dashboards" /\ Main /\ (Fails \/ (Plainly("run") /\ UNCHANGED past))

(* Beater.Run returns when it is stopped, and may return by itself *)
RunBeater ==
  /\ pc = "run" /\ Main /\ Plainly(IF reexec THEN "reexec" ELSE "cleanup")
  /\ past' = IF stop = "no" THEN past \cup {"returned"} ELSE past

(* The image is replaced: nothing that was deferred runs *)
doReexec ==
  /\ pc = "reexec" /\ Main
  /\ \/ pc' = "replaced" /\ live' = {} /\ past' = past \cup {"image"} /\ UNCHANGED held
     \/ Fails

(* The deferred calls, the last one first *)
Cleanup ==
  /\ pc = "cleanup" /\ Main
  /\ IF held = <<>> THEN pc' = "ended" /\ UNCHANGED <<held, live, past>>
     ELSE /\ held' = Tail(held) /\ live' = live \ {Head(held)} /\ UNCHANGED pc
          /\ past' = IF Head(held) = "notify" THEN past \cup {"notified"} ELSE past

(*************************** stop requests *******************************)

(* stopBeat runs once: it closes the publisher, then stops the Beater *)
stopBeat == IF stop = "no" THEN stop' = "closing" ELSE UNCHANGED stop

(* The handler of the first signal; it cancels the import of the dashboards *)
Signal ==
  /\ Alive /\ signals = "handled" /\ signals' = "consumed" /\ cancelled' = TRUE /\ stopBeat
  /\ UNCHANGED <<config, pc, held, live, callback, mgrBusy, certs, past>>

(* fallbackManager.Stop: nothing happens before the callback is set; the
   manager's lock is kept while stopBeat runs *)
ManagerStop(who) ==
  /\ ~mgrBusy
  /\ IF callback
     THEN stopBeat /\ mgrBusy' = (stop # "done") /\ past' = IF stop = "no" THEN past \cup who ELSE past
     ELSE past' = (IF who = {} THEN past ELSE past \cup {"early"}) /\ UNCHANGED <<stop, mgrBusy>>
  /\ UNCHANGED <<signals, cancelled, callback>>
StopByManager == Alive /\ callback /\ ManagerStop({}) /\ UNCHANGED <<config, pc, held, live, certs>>

ClosePublisher ==
  /\ Alive /\ stop = "closing" /\ stop' = "stopping" /\ live' = live \ {"publisher"}
  /\ UNCHANGED <<config, pc, held, signals, cancelled, callback, mgrBusy, certs, past>>
StopBeater ==
  /\ Alive /\ stop = "stopping" /\ stop' = "done" /\ mgrBusy' = FALSE
  /\ UNCHANGED <<config, pc, held, live, signals, cancelled, callback, certs, past>>

(* makeOutputReloader: a new output with a watcher of its own; the old watcher keeps running *)
ReloadOutput ==
  /\ pc \in {"dashboards", "run"} /\ stop = "no" /\ reloads < MaxReloads /\ reloads' = reloads + 1 /\ createOutput
  /\ UNCHANGED <<config, pc, held, live, stopping, changed, reexec, past>>

(* A watcher finds a changed file: it asks for a new image, then it stops the manager *)
CertChanged ==
  /\ Alive /\ watchers > 0 /\ watchers' = watchers - 1 /\ changed' = changed + 1 /\ reexec' = TRUE
  /\ UNCHANGED <<config, pc, held, live, stopping, reloads, past>>

WatcherStops ==
  /\ Alive /\ changed > 0 /\ changed' = changed - 1 /\ ManagerStop({"watcher"})
  /\ UNCHANGED <<config, pc, held, live, watchers, reexec, reloads>>

LifeNext ==
  \/ Configure
  \/ LockPath
  \/ StartAPI
  \/ LoadFilter
  \/ CreateBeater
  \/ Setup
  \/ setupMonitoring
  \/ LogMetrics
  \/ StartBuffer
  \/ HandleSignals
  \/ SetStopCallback
  \/ loadDashboards
  \/ RunBeater
  \/ doReexec
  \/ Cleanup
  \/ Signal
  \/ StopByManager
  \/ ClosePublisher
  \/ StopBeater
  \/ ReloadOutput
  \/ CertChanged
  \/ WatcherStops

(***************************** properties ********************************)

(* A launch that ends has stopped all it had started, on every path, except
   the publisher, which only a stop request closes *)
LaunchCleansUp == (pc = "ended" /\ cmd = "run" /\ held = <<>>) => live \subseteq {"publisher"}

(* "This must be the first deferred cleanup task (last to execute)"
   (beat.go:655-659): a Beat that tells the service manager that it has
   terminated has nothing left to clean up.  Not so in the code: the global
   processors are deferred before it and closed after it (beat.go:649-653) *)
NotifiedIsLast == "notified" \in past => live \subseteq {"publisher"}

(* What holds: a Beat that tells the service manager that it has terminated has
   released the data path and the API's socket, so that the next one can start *)
NotifiedIsReleased == "notified" \in past => live \cap {"lock", "api", "monitor", "metrics", "buffer"} = {}

(* A Beat that runs with changed certificates is being stopped, once its
   watchers have asked for it, unless one asked before launch had set the callback *)
ChangeStopsBeat ==
  (pc = "run" /\ reexec /\ changed = 0 /\ "early" \notin past) => stop # "no"

(* A Beat that a certificate watcher stopped is replaced by a new image; it
   does not just end, unless a step failed or the Beater had already returned *)
WatcherRestarts ==
  (pc = "ended" /\ "watcher" \in past) => past \cap {"failed", "returned"} # {}

-----------------------------------------------------------------------------
(***************************************************************************)
(* The metrics of inputs and how they are reported: an input registers its *)
(* metrics under its ID while it runs (monitoring/inputmon), the log       *)
(* reporter writes what has changed since its last report and the totals   *)
(* when it stops (monitoring/report/log), and the HTTP API lists the       *)
(* inputs.                                                                 *)
(***************************************************************************)

CONSTANTS
  Inputs,     \* inputs that may run
  Identity,   \* input -> [id, input]: what it calls itself
  MaxCount,   \* bound: what a metric counts to
  MaxReports  \* bound: reports

VARIABLES
  running,   \* the inputs that run
  registry,  \* the "dataset" registry: key -> [id, input, total, gauge]
  lastSnap,  \* snapshotLoop's lastSnaps: key -> [total, gauge]
  totals,    \* what was written at the end, None before
  reports,   \* number of reports
  logged,    \* key -> sum of the reported changes, history
  counted,   \* key -> what was counted under the key, history
  seen,      \* key -> what of it was there at the last report, history
  lost,      \* keys whose metrics went away between two reports, history
  logLoop,   \* of the log reporter: "loop", "stopping", "stopped"
  panicked

metricVars == <<running, registry, lastSnap, totals, reports, logged, counted, seen, lost, logLoop, panicked>>

sanitizeID(id) == IF id = "a.b" THEN "a_b" ELSE id
Keys == {sanitizeID(Identity[i].id) : i \in Inputs}
KeyOf(i) == sanitizeID(Identity[i].id)

(* Without an ID or a type the metrics are counted, but in a registry of their own *)
IsPublic(i) == Identity[i].id # "" /\ Identity[i].input # ""

MetricInit ==
  /\ running = {} /\ registry = <<>> /\ lastSnap = <<>> /\ totals = None /\ reports = 0 /\ logLoop = "loop" /\ panicked = FALSE
  /\ logged = [k \in Keys |-> 0] /\ counted = [k \in Keys |-> 0] /\ seen = [k \in Keys |-> 0] /\ lost = {}

(* NewInputRegistry; the registry takes a name only once *)
NewInputRegistry(i) ==
  /\ i \notin running /\ ~panicked
  /\ IF ~IsPublic(i) THEN running' = running \cup {i} /\ UNCHANGED <<registry, panicked, lost>>
     ELSE IF KeyOf(i) \in DOMAIN registry THEN panicked' = TRUE /\ UNCHANGED <<running, registry, lost>>
     ELSE /\ running' = running \cup {i} /\ UNCHANGED panicked
          /\ registry' = registry @@ (KeyOf(i) :> [id |-> Identity[i].id, input |-> Identity[i].input, total |-> 0, gauge |-> 0])
          /\ lost' = lost \cup (IF KeyOf(i) \in DOMAIN lastSnap THEN {KeyOf(i)} ELSE {})
  /\ UNCHANGED <<lastSnap, totals, reports, logged, counted, seen, logLoop>>

(* The function it returns, when the input stops *)
Unregister(i) ==
  /\ i \in running /\ ~panicked /\ running' = running \ {i}
  /\ registry' = (IF IsPublic(i) THEN [k \in DOMAIN registry \ {KeyOf(i)} |-> registry[k]] ELSE registry)
  /\ lost' = lost \cup (IF IsPublic(i) /\ seen[KeyOf(i)] # counted[KeyOf(i)] THEN {KeyOf(i)} ELSE {})
  /\ UNCHANGED <<lastSnap, totals, reports, logged, counted, seen, logLoop, panicked>>

Count(i) ==
  /\ i \in running /\ IsPublic(i) /\ ~panicked /\ counted[KeyOf(i)] < MaxCount
  /\ registry' = [registry EXCEPT ![KeyOf(i)].total = @ + 1, ![KeyOf(i)].gauge = 1 - @]
  /\ counted' = [counted EXCEPT ![KeyOf(i)] = @ + 1]
  /\ UNCHANGED <<running, lastSnap, totals, reports, logged, seen, lost, logLoop, panicked>>

(***************************** log reporter ******************************)

makeSnapshot == [k \in DOMAIN registry |-> [total |-> registry[k].total, gauge |-> registry[k].gauge]]

(* Of counters the change, if there is one; of gauges always the value *)
makeDeltaSnapshot(prev, cur) ==
  [k \in DOMAIN cur |->
     LET p == IF k \in DOMAIN prev THEN prev[k].total ELSE 0
     IN [total |-> IF p # cur[k].total THEN cur[k].total - p ELSE None, gauge |-> cur[k].gauge]]

(* A tick of snapshotLoop *)
Snapshot ==
  LET delta == makeDeltaSnapshot(lastSnap, makeSnapshot)
  IN /\ logLoop # "stopped" /\ reports < MaxReports /\ reports' = reports + 1
     /\ lastSnap' = makeSnapshot
     /\ logged' = [k \in Keys |-> logged[k] + (IF k \in DOMAIN delta /\ delta[k].total # None THEN delta[k].total ELSE 0)]
     /\ seen' = [k \in Keys |-> IF k \in DOMAIN registry THEN counted[k] ELSE seen[k]]
     /\ UNCHANGED <<running, registry, totals, counted, lost, logLoop, panicked>>

(* StopLog waits for the loop, which writes the totals *)
StopLog == logLoop = "loop" /\ logLoop' = "stopping"
        /\ UNCHANGED <<running, registry, lastSnap, totals, reports, logged, counted, seen, lost, panicked>>
LogLoopEnds ==
  /\ logLoop = "stopping" /\ logLoop' = "stopped" /\ totals' = makeSnapshot
  /\ UNCHANGED <<running, registry, lastSnap, reports, logged, counted, seen, lost, panicked>>

(******************************* HTTP API ********************************)

(* allInputs: all inputs, or those of one type *)
filteredSnapshot(type) ==
  {registry[k].id : k \in {x \in DOMAIN registry : registry[x].id # "" /\ (type # "" => registry[x].input = type)}}

MetricNext ==
  \/ \E i \in Inputs : \/ NewInputRegistry(i)
                       \/ Unregister(i)
                       \/ Count(i)
  \/ Snapshot
  \/ StopLog
  \/ LogLoopEnds

(***************************** properties ********************************)

(* The reported changes of a counter add up to its value at the last report, also
   over the stop and the new start of its input; the exceptions are what is counted
   after the last report before the stop, and a start before the next report *)
DeltasAddUp == \A k \in Keys \ lost : logged[k] = seen[k]

(* The API lists exactly the inputs that run and have an ID and a type: no input
   that has stopped, whatever characters its ID has, and each under its own type *)
RunningIsListed ==
  \A type \in {"", "x", "y"} :
    filteredSnapshot(type) = {Identity[i].id : i \in {j \in running : IsPublic(j) /\ (type # "" => Identity[j].input = type)}}

-----------------------------------------------------------------------------
(***************************************************************************)
(* The reporter that sends a Beat's own metrics to Elasticsearch           *)
(* (monitoring/report/elasticsearch): it waits for an endpoint where       *)
(* monitoring is enabled, then two loops publish snapshots through a       *)
(* pipeline of its own, whose one output tries the hosts in turn and       *)
(* does not retry.                                                         *)
(***************************************************************************)

CONSTANTS
  Hosts,
  QueueSize,     \* events the pipeline holds
  MaxSnapshots,  \* bound: snapshots
  BatchSize      \* bulk_max_size - 1, at least 1

Loops == {"state", "stats"}

VARIABLES
  server,     \* host -> "down", "disabled" (monitoring), "enabled"
  init,       \* initLoop: "check", "wait", "ended"
  loop,       \* loop -> "off", "on", "ended"
  uuid,       \* loop -> its clusterUUID
  output,     \* cluster the Beat's output is connected to, None before
  monitored,  \* hosts that had monitoring enabled, history
  stopped,    \* the stopper's channel is closed
  client,     \* the pipeline's client: "open", "closed"
  queue,      \* events in the pipeline
  host,       \* host the output is connected to, None
  snapshots,  \* number of snapshots
  sent,       \* events that reached a server, in order
  dropped     \* events dropped: refused, or failed

reporterVars == <<server, init, loop, uuid, output, monitored, stopped, client, queue, host, snapshots, sent, dropped>>

ReporterInit ==
  /\ server \in [Hosts -> {"down", "disabled", "enabled"}] /\ init = "check" /\ loop = [l \in Loops |-> "off"]
  /\ uuid \in {[l \in Loops |-> u] : u \in {None, "c0"}} /\ output = None
  /\ monitored = {h \in Hosts : server[h] = "enabled"} /\ stopped = FALSE /\ client = "open"
  /\ queue = <<>> /\ host = None /\ snapshots = 0 /\ sent = <<>> /\ dropped = {}

(* publishClient.Connect: the server answers and has monitoring enabled *)
Connects(h) == server[h] = "enabled"

(****************************** reporter *********************************)

(* initLoop: one of the hosts, by chance *)
CheckEndpoint(h) ==
  /\ init = "check"
  /\ IF Connects(h) THEN init' = "ended" /\ loop' = [l \in Loops |-> "on"]
                    ELSE init' = "wait" /\ UNCHANGED loop
  /\ UNCHANGED <<server, uuid, output, monitored, stopped, client, queue, host, snapshots, sent, dropped>>

InitWaits ==
  /\ init = "wait"
  /\ \/ init' = "check"
     \/ stopped /\ init' = "ended"
  /\ UNCHANGED <<server, loop, uuid, output, monitored, stopped, client, queue, host, snapshots, sent, dropped>>

(* A tick of snapshotLoop; the cluster's UUID is looked up until there is one.  The
   select may still take a tick when the reporter is stopped *)
TakeSnapshot(l) ==
  LET u == IF uuid[l] = None THEN output ELSE uuid[l]
      e == [kind |-> l, n |-> snapshots + 1, uuid |-> u]
  IN /\ loop[l] = "on" /\ snapshots < MaxSnapshots /\ snapshots' = snapshots + 1
     /\ uuid' = [uuid EXCEPT ![l] = u]
     /\ IF client = "closed" THEN dropped' = dropped \cup {e} /\ UNCHANGED queue
        ELSE Len(queue) < QueueSize /\ queue' = Append(queue, e) /\ UNCHANGED dropped
     /\ UNCHANGED <<server, init, loop, output, monitored, stopped, client, host, sent>>

MonitorLoopEnds(l) ==
  /\ loop[l] = "on" /\ stopped /\ loop' = [loop EXCEPT ![l] = "ended"]
  /\ UNCHANGED <<server, init, uuid, output, monitored, stopped, client, queue, host, snapshots, sent, dropped>>

StopMonitor ==
  /\ \/ ~stopped /\ stopped' = TRUE /\ UNCHANGED client
     \/ stopped /\ client = "open" /\ client' = "closed" /\ UNCHANGED stopped
  /\ UNCHANGED <<server, init, loop, uuid, output, monitored, queue, host, snapshots, sent, dropped>>

(******************************** output *********************************)

(* The failover client takes another host than the one that failed *)
OutputConnects(h) ==
  /\ host = None /\ queue # <<>> /\ Connects(h) /\ host' = h
  /\ UNCHANGED <<server, init, loop, uuid, output, monitored, stopped, client, queue, snapshots, sent, dropped>>

(* publishBulk: which of n events get through; a request fails, or it is answered
   and then the event counts as sent, even if its item of the answer is an error *)
publishBulk(h, n) == IF server[h] = "down" THEN {{}} ELSE SUBSET (1..n)

(* Mutant: the whole batch is tried again when an event has failed *)
PublishAll ==
  LET n == IF Len(queue) < BatchSize THEN Len(queue) ELSE BatchSize
      batch == [i \in 1..n |-> queue[i]]
  IN /\ host # None /\ queue # <<>>
     /\ \E ok \in publishBulk(host, n) :
          /\ sent' = sent \o SelectSeq([i \in 1..n |-> [event |-> batch[i], host |-> host]], LAMBDA r : \E i \in ok : batch[i] = r.event)
          /\ dropped' = dropped \cup {batch[i] : i \in (1..n) \ ok}
          /\ host' = IF ok = 1..n THEN host ELSE None
     /\ queue' = (IF dropped' = dropped THEN SubSeq(queue, n + 1, Len(queue)) ELSE queue)
     /\ UNCHANGED <<server, init, loop, uuid, output, monitored, stopped, client, snapshots>>

(* Events of a batch are sent in a request each; those that fail are to be tried
   again, for which the batch has no attempts left, and the error makes the output
   connect anew *)
Publish ==
  LET n == IF Len(queue) < BatchSize THEN Len(queue) ELSE BatchSize
      batch == [i \in 1..n |-> queue[i]]
  IN /\ host # None /\ queue # <<>>
     /\ \E ok \in publishBulk(host, n) :
          /\ sent' = sent \o SelectSeq([i \in 1..n |-> [event |-> batch[i], host |-> host]], LAMBDA r : \E i \in ok : batch[i] = r.event)
          /\ dropped' = dropped \cup {batch[i] : i \in (1..n) \ ok}
          /\ host' = IF ok = 1..n THEN host ELSE None
     /\ queue' = SubSeq(queue, n + 1, Len(queue))
     /\ UNCHANGED <<server, init, loop, uuid, output, monitored, stopped, client, snapshots>>

(****************************** environment ******************************)

ServerChanges(h, s) ==
  /\ server[h] # s /\ snapshots < MaxSnapshots /\ server' = [server EXCEPT ![h] = s]
  /\ monitored' = monitored \cup (IF s = "enabled" THEN {h} ELSE {})
  /\ UNCHANGED <<init, loop, uuid, output, stopped, client, queue, host, snapshots, sent, dropped>>

(* The Beat's own output connects, to this or that cluster *)
OutputKnown(c) ==
  /\ output # c /\ output' = c
  /\ UNCHANGED <<server, init, loop, uuid, monitored, stopped, client, queue, host, snapshots, sent, dropped>>

ReporterNext ==
  \/ \E h \in Hosts : CheckEndpoint(h) \/ OutputConnects(h)
  \/ InitWaits
  \/ \E l \in Loops : TakeSnapshot(l) \/ MonitorLoopEnds(l)
  \/ StopMonitor
  \/ Publish
  \/ \E h \in Hosts, s \in {"down", "enabled"} : ServerChanges(h, s)
  \/ \E c \in {"c1", "c2"} : OutputKnown(c)

(***************************** properties ********************************)

Sent == {sent[i].event : i \in DOMAIN sent}
Queued == {queue[i] : i \in DOMAIN queue}

(* Every snapshot is in the pipeline, at a server or dropped, and in one of these
   only: a failing event is not sent again, and no other goes with it *)
SnapshotsAccounted ==
  /\ Len(sent) = Cardinality(Sent)
  /\ Sent \cap dropped = {} /\ Sent \cap Queued = {} /\ dropped \cap Queued = {}
  /\ {e.n : e \in Sent \cup dropped \cup Queued} = 1..snapshots

(* All snapshots of a loop that name a cluster name the same: what was configured,
   or the one the output had first, whatever it is connected to later *)
OneClusterPerLoop ==
  \A d, e \in Sent \cup dropped \cup Queued : (d.kind = e.kind /\ d.uuid # None /\ e.uuid # None) => d.uuid = e.uuid

(* Documents go only to hosts that have said, at some connect, that monitoring is
   enabled there, though the output may connect to any of the hosts *)
OnlyToMonitoring == \A i \in DOMAIN sent : sent[i].host \in monitored
=============================================================================
