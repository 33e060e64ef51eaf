------------------------------ MODULE MCInputs ------------------------------
(***************************************************************************)
(* The services that start and stop inputs, one at a time: `part` says     *)
(* which of them a behaviour is about.  All of them run their              *)
(* configurations through the same list of runners.                        *)
(***************************************************************************)
EXTENDS Inputs

VARIABLE part

inputsVars ==
  <<part, workerVars, reloadMode, file, now, writes, gw, loop, forceReload, stopper, early,
    k8sVars, leaderVars, dockerVars, jolokiaVars>>

reloadOnly == <<reloadMode, file, now, writes, gw, loop, forceReload, stopper, early>>
discoverOnly == <<bus, wanted, meta, updated, retry, worker, stopping, overtaken>>

Providers == {"kubernetes", "leader", "docker", "jolokia"}

-----------------------------------------------------------------------------
(* Values of the constants                                                 *)

CONSTANTS good, bad   \* configurations of files
FileContents == {{good}, {good, bad}, Broken}

SomeTemplates ==
  {[name |-> "port", level |-> "container", net |-> TRUE, shared |-> FALSE],
   [name |-> "logs", level |-> "container", net |-> FALSE, shared |-> FALSE],
   [name |-> "pod", level |-> "pod", net |-> TRUE, shared |-> TRUE],
   [name |-> "all", level |-> "object", net |-> FALSE, shared |-> TRUE]}

SomeBad == {bad} \cup ({Everybody} \X {"pod"})

Resources == [kind : {"pod", "node", "service"}, delay : BOOLEAN]

-----------------------------------------------------------------------------

InputsInit ==
  /\ part \in {"reload"} \cup Providers
  /\ WorkerInit /\ ReloaderInit /\ K8sInit /\ LeaderInit /\ DockerInit /\ JolokiaInit
  /\ part # "reload" => reloadMode = "once" /\ \A f \in Files : file[f] = NoFile
  /\ part # "kubernetes" => resource = [kind |-> "pod", delay |-> FALSE]
  /\ part # "docker" => ~cleanup

InputsNext ==
  /\ UNCHANGED part
  /\ \/ part = "reload" /\ ReloaderNext /\ UNCHANGED <<discoverOnly, k8sVars, leaderVars, dockerVars, jolokiaVars>>
     \/ /\ part \in Providers /\ (WorkerStep \/ (part # "kubernetes" /\ StopListener))
        /\ UNCHANGED <<reloadOnly, k8sVars, leaderVars, dockerVars, jolokiaVars>>
     \/ part = "kubernetes" /\ K8sNext /\ UNCHANGED <<reloadOnly, leaderVars, dockerVars, jolokiaVars>>
     \/ part = "leader" /\ LeaderNext /\ UNCHANGED <<reloadOnly, k8sVars, dockerVars, jolokiaVars>>
     \/ part = "docker" /\ DockerNext /\ UNCHANGED <<reloadOnly, k8sVars, leaderVars, jolokiaVars>>
     \/ part = "jolokia" /\ JolokiaNext /\ UNCHANGED <<reloadOnly, k8sVars, leaderVars, dockerVars>>

\* The goroutines are scheduled fairly, timers fire and the clock of the grace period goes
\* on; a select does not ignore the closed channel for ever.  Nothing is assumed of what is discovered, of the files and of the callers of Stop.
InputsFairness ==
  /\ WF_inputsVars(part = "reload" /\ ReloaderStep /\ UNCHANGED <<part, discoverOnly, k8sVars, leaderVars,
                                                                  dockerVars, jolokiaVars>>)
  /\ SF_inputsVars(part = "reload" /\ NoticeDone /\ UNCHANGED <<part, discoverOnly, k8sVars, leaderVars,
                                                                dockerVars, jolokiaVars>>)
  /\ WF_inputsVars(part \in Providers /\ WorkerStep /\ UNCHANGED <<part, reloadOnly, k8sVars, leaderVars,
                                                                   dockerVars, jolokiaVars>>)
  /\ WF_inputsVars(part = "jolokia" /\ (JolokiaStep \/ Tick)
                     /\ UNCHANGED <<part, reloadOnly, k8sVars, leaderVars, dockerVars>>)

InputsSpec == InputsInit /\ [][InputsNext]_inputsVars /\ InputsFairness

\* What runs is on the list of runners, and nothing runs any more after a Stop
\* (cfgfile/list.go, reload.go, autodiscover/autodiscover.go).
RunnersAreListedAndStopped ==
  /\ part = "reload" => ReloaderTypeOK
  /\ part \in Providers => WorkerTypeOK
  /\ RunnersAreListed /\ StopLeavesNothing /\ NothingRunsAfterStop

\* What a provider discovered reaches the worker of autodiscover, and what is wanted and
\* what is run differ only as long as the worker knows; see ObjectsAreFollowed,
\* OnlyTheLeader, ContainersAreFollowed and InstancesAreFollowed (autodiscover/providers).
DiscoveredIsFollowed ==
  /\ K8sTypeOK /\ LeaderTypeOK /\ DockerTypeOK /\ JolokiaTypeOK
  /\ part \in Providers => ChangesAreKnown
  /\ part = "kubernetes" => ObjectsAreFollowed
  /\ part = "leader" => OnlyTheLeader
  /\ part = "docker" => ContainersAreFollowed
  /\ part = "jolokia" => InstancesAreFollowed

\* The runners become those that are wanted, by what was discovered or by the files, failed
\* starts included, and stay so once nothing changes any more; agents that are down for good
\* are given up; and every Stop returns.
WantedAreRunAtLast ==
  /\ part \in Providers => <>[]WantedAreRun
  /\ part = "reload" => FilesAreFollowed
  /\ DownAgentsStop
  /\ stopping = "runners" ~> stopping = "done"
  /\ stopper = "waiting" ~> (stopper = "returned" \/ reloadMode = "load")
=============================================================================
