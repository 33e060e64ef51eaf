----------------------------- MODULE MCServices -----------------------------
(***************************************************************************)
(* The instance TLC checks of three components that do not interact: the   *)
(* registry of state stores, the output controller of the pipeline, and    *)
(* what runs when Elasticsearch connections are made.  A behaviour is one  *)
(* of the component `part` names; the others stay in an initial state.     *)
(***************************************************************************)
EXTENDS StoreRegistry, Controller, IndexSetup

VARIABLE part

servicesVars == <<registryVars, controllerVars, setupVars, part>>

-----------------------------------------------------------------------------
(* Settings of the index management                                        *)

DefaultSettings ==
  [client |-> "es", ilm |-> "unset", dsl |-> "unset", loadTemplate |-> "enabled",
   loadILM |-> "enabled", json |-> "no", version |-> "same", tmplEnabled |-> TRUE,
   tmplOverwrite |-> FALSE, overwrite |-> FALSE, checkExists |-> TRUE, serverless |-> FALSE,
   oneBeat |-> TRUE, allowOlder |-> TRUE]

AllModes == {LoadModes[i] : i \in DOMAIN LoadModes}
Switch == {"unset", "on", "off"}

\* The settings that interact are varied together, the others stay at their defaults.
InterestingSettings ==
  UNION {
    {[DefaultSettings EXCEPT !.ilm = i, !.dsl = d, !.serverless = s, !.tmplEnabled = t] :
       i \in Switch, d \in Switch, s \in BOOLEAN, t \in BOOLEAN},
    {[DefaultSettings EXCEPT !.loadTemplate = t, !.loadILM = i] : t, i \in AllModes},
    {[DefaultSettings EXCEPT !.loadILM = i, !.overwrite = TRUE] : i \in AllModes},
    {[DefaultSettings EXCEPT !.client = "file", !.loadTemplate = t, !.loadILM = i] :
       t, i \in {"disabled", "enabled", "force"}},
    {[DefaultSettings EXCEPT !.json = j, !.tmplOverwrite = t, !.checkExists = c, !.serverless = s] :
       j \in {"no", "index", "stream"}, t \in BOOLEAN, c \in BOOLEAN, s \in BOOLEAN},
    {[DefaultSettings EXCEPT !.oneBeat = FALSE, !.serverless = s] : s \in BOOLEAN},
    {[DefaultSettings EXCEPT !.version = v, !.allowOlder = a, !.serverless = s] :
       v \in {"old", "ancient"}, a \in BOOLEAN, s \in BOOLEAN}}

-----------------------------------------------------------------------------

\* The inactive index management has one initial state.
SetupInactive ==
  /\ conf = DefaultSettings
  /\ cluster = [policy |-> "none", template |-> "none", lifecycle |-> FALSE, stream |-> FALSE]

ServicesInit ==
  /\ part \in {"registry", "controller", "setup"}
  /\ RegistryInit /\ ControllerInit /\ SetupInit
  /\ part # "setup" => SetupInactive

ServicesNext ==
  /\ UNCHANGED part
  /\ \/ part = "registry" /\ RegistryNext /\ UNCHANGED <<controllerVars, setupVars>>
     \/ part = "controller" /\ ControllerNext /\ UNCHANGED <<registryVars, setupVars>>
     \/ part = "setup" /\ SetupNext /\ UNCHANGED <<registryVars, controllerVars>>

\* The goroutines of the components are scheduled fairly.  A component that is not
\* active has no step, so its fairness asks for nothing.
ServicesFairness ==
  /\ WF_servicesVars(part = "controller" /\ SetStep /\ UNCHANGED <<registryVars, setupVars, part>>)
  /\ WF_servicesVars(part = "controller" /\ CloseStep /\ UNCHANGED <<registryVars, setupVars, part>>)
  /\ \A w \in Workers :
       WF_servicesVars(part = "setup" /\ (ConnectStep(w) \/ SetupStep(w))
                         /\ UNCHANGED <<registryVars, controllerVars, part>>)

ServicesSpec == ServicesInit /\ [][ServicesNext]_servicesVars /\ ServicesFairness

\* A store that somebody uses is open, it is removed once and with its last user, and a
\* closed registry is not in use (statestore/registry.go, store.go).
StoresAreShared ==
  RegistryTypeOK /\ InUseIsOpen /\ RemovedOnce /\ ClosedRegistryIsUnused

\* A worker that is connected finds everything set up, policies before the templates that
\* name them, and the template of a user is kept (idxmgmt, template).
ConnectedFindsSetup ==
  /\ [](SetupTypeOK /\ LifecycleBeforeTemplate /\ ConnectedIsSetUp)
  /\ TemplateKept

\* Whoever waits for the pipeline or for a connection gets an answer: clients their
\* producer or a refusal, the caller of WaitClose its return, workers their connection; and
\* nobody waits on a queue other than the one the consumer reads from (controller.go).
WaitingEnds ==
  /\ [](ControllerTypeOK /\ NobodyWaitsForTheQueue /\ ConsumerReadsTheQueue)
  /\ QueueMadeOnce /\ ConnectIsAnswered /\ WaitCloseEnds
  /\ part = "setup" => WorkersConnect
=============================================================================
