----------------------------- MODULE IndexSetup -----------------------------
(***************************************************************************)
(* What happens each time an Elasticsearch connection is made: the ping    *)
(* (eslegclient/connection.go), the callbacks every output worker runs     *)
(* under the locks of the callback registries (outputs/elasticsearch,      *)
(* licenser, cmd/instance/beat.go), and among them the index management:   *)
(* lifecycle policy, index template and data stream (idxmgmt, template).   *)
(*                                                                         *)
(* Two workers connect: of one Beat, sharing its locks, or of two Beats    *)
(* that set up the same cluster.  Every request is a step of its own and   *)
(* may fail, out of a budget; a failed PUT may have been carried out.      *)
(* With the file client (the export and setup commands) the policy and the *)
(* template are written to a file instead.                                 *)
(***************************************************************************)
EXTENDS Naturals, FiniteSets

CONSTANTS
  Workers,
  SetupConfigs,     \* the settings a behaviour may have, see ConfigOK
  MaxSetupFaults    \* bound: failed requests

VARIABLES
  conf,             \* the settings; never change
  worker,           \* each worker: where it is and what it knows
  withILM,          \* indexState.withILM of each worker's Beat
  cluster,          \* the policy, the template and the data stream
  setupFaults,
  halfway           \* history: a request failed once the setup may have changed something

setupVars == <<conf, worker, withILM, cluster, setupFaults, halfway>>

LoadModes == <<"unset", "disabled", "enabled", "overwrite", "force">>
Rank(mode) == CHOOSE i \in DOMAIN LoadModes : LoadModes[i] = mode

ConfigOK(c) ==
  /\ c.client \in {"es", "file"} /\ {c.ilm, c.dsl} \subseteq {"unset", "on", "off"}
  /\ {c.loadTemplate, c.loadILM} \subseteq {LoadModes[i] : i \in DOMAIN LoadModes}
  /\ c.json \in {"no", "index", "stream"} /\ c.version \in {"same", "old", "ancient"}
  /\ {c.tmplEnabled, c.tmplOverwrite, c.overwrite, c.checkExists, c.serverless, c.oneBeat,
      c.allowOlder} \subseteq BOOLEAN

Idle == [pc |-> "idle", todo |-> {}, overwriteTmpl |-> FALSE]

SetupInit ==
  /\ conf \in SetupConfigs
  /\ worker = [w \in Workers |-> Idle]
  /\ withILM = [w \in Workers |-> FALSE]
  /\ cluster \in [policy : {"none", "user"}, template : {"none", "user"}, lifecycle : {FALSE},
                  stream : BOOLEAN]
  /\ (cluster.template = "none") => ~cluster.stream
  /\ (conf.client = "file") => (cluster.policy = "none" /\ cluster.template = "none")
  /\ setupFaults = 0 /\ halfway = FALSE

-----------------------------------------------------------------------------
(* Decisions                                                               *)

\* Enabled of a configuration section is false without the section.
On(section) == section = "on"

\* MakeDefaultSupport: enabled, or no `enabled` setting at all.
LifecycleEnabled == On(conf.dsl) \/ On(conf.ilm) \/ (conf.dsl = "unset" /\ conf.ilm = "unset")

\* The configuration a handler ends up with: that of the cluster's kind, which is on
\* unless it is set to off; the file client takes the section that is on, or ILM.
HandlerEnabled ==
  IF conf.client = "file" THEN TRUE
  ELSE IF conf.serverless THEN conf.dsl # "off" ELSE conf.ilm # "off"

\* NewESClientHandler and NewFileClientHandler refuse contradictory settings.
HandlerOK ==
  /\ ~(On(conf.ilm) /\ On(conf.dsl))
  /\ (conf.client = "es" /\ On(conf.ilm)) => ~conf.serverless
  /\ (conf.client = "es" /\ On(conf.dsl)) => conf.serverless

\* Mode of the handler.
DSLMode == IF conf.client = "file" THEN On(conf.dsl) ELSE conf.serverless

\* Overwrite of the handler; the file handler returns Enabled.
HandlerOverwrite == IF conf.client = "file" THEN HandlerEnabled ELSE conf.overwrite

newFeature(enabled, overwrite, mode) ==
  LET m == IF mode = "unset" /\ ~enabled THEN "disabled" ELSE mode
      on == enabled \/ m = "force"
  IN [enabled |-> on, overwrite |-> overwrite \/ Rank(m) >= Rank("overwrite"),
      load |-> on /\ m # "disabled"]

\* CheckEnabled: without lifecycle support the no-op manager answers, an old cluster
\* is an error.
CheckEnabled == LifecycleEnabled /\ HandlerEnabled
CheckFails == CheckEnabled /\ conf.version = "ancient"

ilmComponent == newFeature(CheckEnabled, HandlerOverwrite, conf.loadILM)
templateComponent == newFeature(conf.tmplEnabled, conf.tmplOverwrite, conf.loadTemplate)

\* VerifySetup's two warnings of a combination that "is not recommended".
VerifySetup ==
  LET ilm == newFeature(LifecycleEnabled, HandlerOverwrite, conf.loadILM)
  IN /\ ~(ilm.load /\ ~templateComponent.load)
     /\ ~(templateComponent.load /\ ~ilm.load /\ ilm.enabled)

\* The policy is installed by Setup itself, not by the template (DSL).
InstallsPolicy == ilmComponent.load /\ (~DSLMode \/ conf.client = "file")

-----------------------------------------------------------------------------
(* Requests                                                                *)

At(w, pc) == worker[w].pc = pc
Goes(w, pc) == worker' = [worker EXCEPT ![w].pc = pc]

\* A request fails: the connection is marked as failed and made again later.
Fails(w, effect) ==
  /\ setupFaults < MaxSetupFaults /\ setupFaults' = setupFaults + 1
  /\ worker' = [worker EXCEPT ![w] = Idle]
  /\ cluster' \in {cluster, effect}
  /\ halfway' = (halfway \/ worker[w].pc \notin {"idle", "callbacks", "policy", "create"})
  /\ UNCHANGED <<conf, withILM>>

\* A GET or HEAD request leads to pc.
Asks(w, pc) ==
  \/ Goes(w, pc) /\ UNCHANGED <<conf, withILM, cluster, setupFaults, halfway>>
  \/ conf.client = "es" /\ Fails(w, cluster)

\* A PUT request changes the cluster and leads to pc.
Puts(w, pc, effect) ==
  \/ Goes(w, pc) /\ cluster' = effect /\ UNCHANGED <<conf, withILM, setupFaults, halfway>>
  \/ Fails(w, effect)

\* Nothing is asked for.
Skips(w, pc) == Goes(w, pc) /\ UNCHANGED <<conf, withILM, cluster, setupFaults, halfway>>

-----------------------------------------------------------------------------
(* The connection                                                          *)

\* Connect pings the host, which tells its version and its flavor.
Ping(w) == conf.client = "es" /\ At(w, "idle") /\ Asks(w, "lock")

\* Both registries are locked one after the other and until all callbacks have run.
Lock(w) ==
  /\ At(w, "lock")
  /\ conf.oneBeat => \A v \in Workers : worker[v].pc \in {"idle", "lock", "connected"}
  /\ worker' = [worker EXCEPT ![w].pc = "callbacks", ![w].todo = {"license", "version"}]
  /\ UNCHANGED <<conf, withILM, cluster, setupFaults, halfway>>

\* FetchAndVerify: an expired license is only logged.
Callback(w, name, pc) ==
  /\ At(w, "callbacks") /\ name \in worker[w].todo
  /\ \/ /\ worker' = [worker EXCEPT ![w].todo = @ \ {name}, ![w].pc = pc]
        /\ UNCHANGED <<conf, withILM, cluster, setupFaults, halfway>>
     \/ name # "version" /\ pc = "callbacks" /\ Fails(w, cluster)

FetchAndVerify(w) == Callback(w, "license", "callbacks")

\* registerESVersionCheckCallback: an older cluster is refused unless it is allowed.
VersionCheck(w) ==
  (conf.allowOlder \/ conf.serverless \/ conf.version = "same") /\ Callback(w, "version", "callbacks")

\* The callbacks of the second registry follow, in any order.
ConnectCallbacks(w) ==
  /\ At(w, "callbacks") /\ worker[w].todo = {}
  /\ worker' = [worker EXCEPT ![w].pc = "callbacks",
                              ![w].todo = {"uuid", "last"} \cup
                                (IF conf.tmplEnabled \/ LifecycleEnabled THEN {"index"} ELSE {})]
  /\ UNCHANGED <<conf, withILM, cluster, setupFaults, halfway>>

ClusterUUID(w) == Callback(w, "uuid", "callbacks")

indexSetupCallback(w) == HandlerOK /\ Callback(w, "index", "setup")

Connected(w) ==
  /\ At(w, "callbacks") /\ worker[w].todo = {"last"}
  /\ worker' = [worker EXCEPT ![w].pc = "connected"]
  /\ UNCHANGED <<conf, withILM, cluster, setupFaults, halfway>>

\* The connection is lost and made again.
Disconnect(w) ==
  /\ conf.client = "es" /\ At(w, "connected")
  /\ setupFaults < MaxSetupFaults /\ setupFaults' = setupFaults + 1
  /\ worker' = [worker EXCEPT ![w] = Idle]
  /\ UNCHANGED <<conf, withILM, cluster, halfway>>

\* The export and setup commands call Setup on a file client.
Export(w) ==
  /\ conf.client = "file" /\ HandlerOK /\ At(w, "idle")
  /\ \A v \in Workers : worker[v].pc \in {"idle", "connected"}
  /\ Skips(w, "setup")

-----------------------------------------------------------------------------
(* Setup                                                                   *)

\* setupWithILM: the version is looked at until lifecycles are known to be enabled.
Setup(w) ==
  /\ At(w, "setup") /\ (withILM[w] \/ ~CheckFails)
  /\ worker' = [worker EXCEPT ![w].pc = IF InstallsPolicy THEN "policy" ELSE "template",
                              ![w].overwriteTmpl = templateComponent.overwrite]
  /\ withILM' = [v \in Workers |-> withILM[v] \/ (CheckEnabled /\ (v = w \/ conf.oneBeat))]
  /\ UNCHANGED <<conf, cluster, setupFaults, halfway>>

EnsureOverwrites == ilmComponent.overwrite \/ HandlerOverwrite

\* EnsurePolicy: without check_exists nothing is done.  The policy is looked up
\* unless it is to be overwritten.
EnsurePolicy(w) ==
  /\ At(w, "policy")
  /\ \/ ~conf.checkExists /\ Skips(w, "template")
     \/ conf.checkExists /\ EnsureOverwrites /\ Skips(w, "create")
     \/ conf.checkExists /\ ~EnsureOverwrites
        /\ Asks(w, IF conf.client = "es" /\ cluster.policy # "none" THEN "template" ELSE "create")

\* CreatePolicyFromConfig of the Elasticsearch handler looks the policy up again, by the
\* setting alone, and leaves an existing one; the caller takes it as created.
LeavesPolicy == conf.client = "es" /\ ~conf.overwrite /\ cluster.policy # "none"

CreatePolicyFromConfig(w) ==
  /\ At(w, "create")
  /\ IF conf.client = "es" /\ ~conf.overwrite
     THEN Asks(w, IF LeavesPolicy THEN "created" ELSE "put policy")
     ELSE Skips(w, "put policy")

PutPolicy(w) == At(w, "put policy") /\ Puts(w, "created", [cluster EXCEPT !.policy = "beat"])

\* "The template should be updated if a new policy is created."
PolicyCreated(w) ==
  /\ At(w, "created")
  /\ worker' = [worker EXCEPT ![w].pc = "template",
                              ![w].overwriteTmpl = @ \/ templateComponent.enabled]
  /\ UNCHANGED <<conf, withILM, cluster, setupFaults, halfway>>

SetupDone == IF conf.client = "es" THEN "callbacks" ELSE "connected"

\* ESLoader.Load, FileLoader.Load: an existing template stays unless it is overwritten.
Load(w) ==
  /\ At(w, "template")
  /\ \/ ~templateComponent.load /\ Skips(w, SetupDone)
     \/ templateComponent.load /\ conf.client = "file" /\ Skips(w, "put template")
     \/ templateComponent.load /\ conf.client = "es"
        /\ Asks(w, IF cluster.template # "none" /\ ~worker[w].overwriteTmpl
                   THEN SetupDone ELSE "put template")

\* The template has the lifecycle of the handler if ilmComponent is enabled.
LoadTemplate(w) ==
  /\ At(w, "put template")
  /\ Puts(w, IF conf.client = "file" \/ conf.json = "index" THEN SetupDone ELSE "data stream",
          [cluster EXCEPT !.template = "beat", !.lifecycle = ilmComponent.enabled])

\* Mutant of CheckDataStream: only an existing data stream is looked after.
CheckDataStreamOnly(w) ==
  /\ At(w, "data stream")
  /\ Asks(w, IF cluster.stream /\ conf.serverless THEN "update lifecycle" ELSE SetupDone)

\* An existing data stream is kept; on serverless its lifecycle is brought up to date.
CheckDataStream(w) ==
  /\ At(w, "data stream")
  /\ Asks(w, IF ~cluster.stream THEN "put stream"
             ELSE IF conf.serverless THEN "update lifecycle" ELSE SetupDone)

PutDataStream(w) == At(w, "put stream") /\ Puts(w, SetupDone, [cluster EXCEPT !.stream = TRUE])

UpdateLifecycle(w) ==
  /\ At(w, "update lifecycle")
  /\ IF LeavesPolicy THEN Asks(w, SetupDone) ELSE Puts(w, SetupDone, [cluster EXCEPT !.policy = "beat"])

SetupStep(w) ==
  \/ Setup(w) \/ EnsurePolicy(w) \/ CreatePolicyFromConfig(w) \/ PutPolicy(w) \/ PolicyCreated(w)
  \/ Load(w) \/ LoadTemplate(w) \/ CheckDataStream(w) \/ PutDataStream(w) \/ UpdateLifecycle(w)

ConnectStep(w) ==
  \/ Ping(w) \/ Lock(w) \/ FetchAndVerify(w) \/ VersionCheck(w) \/ ConnectCallbacks(w)
  \/ ClusterUUID(w) \/ indexSetupCallback(w) \/ Connected(w) \/ Export(w)

SetupNext == \E w \in Workers : ConnectStep(w) \/ SetupStep(w) \/ Disconnect(w)

SetupFairness == \A w \in Workers : WF_setupVars(ConnectStep(w) \/ SetupStep(w))

-----------------------------------------------------------------------------

SetupTypeOK ==
  /\ ConfigOK(conf)
  /\ \A w \in Workers : worker[w].todo \subseteq {"license", "version", "uuid", "index", "last"}
  /\ cluster.policy \in {"none", "user", "beat"} /\ cluster.template \in {"none", "user", "beat"}
  /\ setupFaults \in 0 .. MaxSetupFaults /\ halfway \in BOOLEAN

\* A template that names the lifecycle policy is loaded only when the policy exists, in
\* whatever order two Beats get there and whichever requests fail, given that
\* VerifySetup has nothing against the load modes and policies are checked at all.
LifecycleBeforeTemplate ==
  (cluster.lifecycle /\ VerifySetup /\ conf.checkExists /\ ~DSLMode) => cluster.policy # "none"

\* The template of a user is replaced only if overwriting is asked for, or if the
\* policy was created (or was to be overwritten); that of a Beat has then been loaded.
TemplateKept ==
  [][\A w \in Workers :
       (cluster.template = "user" /\ cluster'.template = "beat")
         => \/ templateComponent.overwrite
            \/ EnsureOverwrites
            \/ cluster.policy = "beat"]_setupVars

\* Once all workers are connected, everything is there that they need: unless a request
\* failed half way, after which the checks for what exists skip the rest.
ConnectedIsSetUp ==
  ((\A w \in Workers : worker[w].pc = "connected") /\ ~halfway /\ templateComponent.load) =>
      /\ cluster.template # "none"
      /\ (cluster.template = "beat" /\ conf.client = "es" /\ conf.json # "index") => cluster.stream
      /\ (InstallsPolicy /\ conf.checkExists) => cluster.policy # "none"

\* The settings under which a connection cannot succeed.
Refused ==
  \/ ~HandlerOK /\ (conf.client = "file" \/ conf.tmplEnabled \/ LifecycleEnabled)
  \/ CheckFails
  \/ conf.version # "same" /\ ~conf.allowOlder /\ ~conf.serverless

\* Every worker gets its connection in the end: nobody keeps the locks, and a failed
\* setup is repeated.
WorkersConnect == Refused \/ <>(\A w \in Workers : worker[w].pc = "connected")

=============================================================================
