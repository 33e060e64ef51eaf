---------------------------- MODULE MCProcessing ----------------------------
(***************************************************************************)
(* The instance TLC checks of what happens to an event before the queue:   *)
(* the stages of the processing pipeline, one run of each stateless        *)
(* processor, and the processors that keep a state of their own.           *)
(* They do not share state, so a behaviour is one of the component that    *)
(* `part` names, and s1 to s16 are that component's variables.             *)
(***************************************************************************)
EXTENDS Naturals, Sequences, TLC

CONSTANT None

VARIABLES
  part, s1, s2, s3, s4, s5, s6, s7, s8, s9, s10, s11, s12, s13, s14, s15, s16

processingState ==
  <<part, s1, s2, s3, s4, s5, s6, s7, s8, s9, s10, s11, s12, s13, s14, s15, s16>>

-----------------------------------------------------------------------------
(* Values of the constants                                                 *)

Two == {"p", "q"}
ThreeKeys == {"j", "k", "l"}
TwoKeys == {"j", "k"}

ProviderLists ==
  {<<"aws", "ec2", "openstack">>, <<"azure", "gcp">>, <<"hetzner", "azure", "digitalocean">>}
CloudEvents == {{}, {<<"cloud", "own", "region">>}, {<<"orchestrator", "own", "x">>, <<"a", "own", "b">>}}

NoMap == [k \in {} |-> <<>>]
HostX(origin) == [k \in {"host"} |-> [s \in {"x"} |-> origin]]
Proc(name, does, closer, when) ==
  [name |-> name, does |-> does, closer |-> closer, when |-> when, then |-> <<>>, els |-> <<>>]

Default ==
  [normalize |-> TRUE, meta |-> FALSE, disableHost |-> FALSE, drop |-> FALSE, timeseries |-> FALSE,
   fields |-> NoMap, pipelineFields |-> NoMap, eventMetadata |-> NoMap, dyn |-> NoMap, local |-> <<>>]

Choice ==
  [Proc("L3", "if", FALSE, FALSE) EXCEPT !.then = <<Proc("F", "fail", FALSE, FALSE), Proc("P", "put", FALSE, FALSE)>>,
                                         !.els = <<Proc("D", "drop", FALSE, FALSE)>>]

\* The settings that decide about copies are varied together, the others one by one.
FirstClient ==
  {[Default EXCEPT !.meta = TRUE, !.fields = f, !.pipelineFields = p, !.eventMetadata = e, !.dyn = d] :
     f \in {NoMap, HostX("fields")}, p \in {NoMap, HostX("pipeline")}, e \in {NoMap, HostX("client")},
     d \in {NoMap, HostX("dyn")}}
  \cup {[Default EXCEPT !.normalize = FALSE, !.fields = f, !.dyn = d] :
          f \in {NoMap, HostX("fields")}, d \in {NoMap, HostX("dyn")}}
  \cup {[Default EXCEPT !.disableHost = h, !.local = l, !.dyn = d, !.meta = TRUE] : h \in BOOLEAN, d \in {HostX("dyn")},
          l \in {<<Proc("L1", "fail", TRUE, FALSE), Proc("L", "put", TRUE, FALSE)>>, <<Proc("L2", "put", TRUE, TRUE)>>,
                 <<Proc("L", "lose", TRUE, FALSE)>>, <<Choice>>}}
  \cup {[Default EXCEPT !.drop = TRUE], [Default EXCEPT !.timeseries = TRUE]}

SecondClient ==
  {[Default EXCEPT !.eventMetadata = HostX("client"), !.meta = TRUE],
   [Default EXCEPT !.local = <<Proc("L", "put", TRUE, FALSE)>>]}

PipeConfigs == {[c \in {"c1", "c2"} |-> IF c = "c1" THEN f ELSE s] : f \in FirstClient, s \in SecondClient}
GlobalLists == {<<>>, <<Proc("G", "put", TRUE, FALSE)>>}

-----------------------------------------------------------------------------
\* Components that share a module share its instance; the variables of each stand for s1, s2, ...
Stateless == INSTANCE ProcessorRuns WITH
  proc <- s1, conf <- s2, input <- s3, output <- s4, again <- s5

Pipe == INSTANCE EventPipeline WITH
  Clients <- {"c1", "c2"}, Configs <- PipeConfigs, MaxEvents <- 1,
  config <- s1, global <- s2, stages <- s3, maps <- s4, event <- s5, stage <- s6, outcome <- s7,
  events <- s8, open <- s9, builderOpen <- s10, closed <- s11

Caches == INSTANCE ProcessorCaches WITH
  Runners <- Two, CacheTTL <- 2, MaxTime <- 3, MaxChanges <- 2,
  hostTime <- s1, fqdn <- s2, lastUpdate <- s3, data <- s4, runner <- s5, updater <- s6, loads <- s7,
  failed <- s8, crossed <- s9, changes <- s10,
  Procs <- Two, StoreKeys <- ThreeKeys, TTL <- 1, Capacity <- 2, Effort <- 0, MaxClock <- 3,
  MaxPuts <- 3,
  clock <- s1, using <- s2, setLock <- s3, storeLock <- s4, listed <- s5, refs <- s6, cache <- s7,
  heap <- s8, dirty <- s9, file <- s10, puts <- s11, late <- s12, orphaned <- s13, torn <- s14,
  must <- s15, mustSaved <- s16,
  Callers <- Two, Rate <- 1, Depth <- 1, GCCalls <- 1, MaxNow <- 2, MaxCalls <- 4,
  bucketTime <- s1, bucket <- s2, made <- s3, tokens <- s4, lastReplenish <- s5, caller <- s6,
  gc <- s7, numCalls <- s8, calls <- s9, allowed <- s10, overlap <- s11,
  Lookers <- Two, Queries <- TwoKeys, Servers <- 2, MinTTL <- 1, FailureTTL <- 1, MaxSize <- 1,
  DnsClock <- 2, MaxLookups <- 2,
  time <- s1, fieldAction <- s2, success <- s3, failure <- s4, looker <- s5, lookups <- s6,
  answers <- s7

Metadata == INSTANCE MetadataProcessors WITH
  CloudWorkers <- {"w"},
  overwrite <- s1, fetcher <- s2, expired <- s3, lastTaken <- s4, responses <- s5, initOnce <- s6,
  metadata <- s7, cloudEvent <- s8, cloudInput <- s9,
  CacheKeys <- TwoKeys, CacheValues <- {1, 2}, CacheTimeout <- 1, MaxClock <- 3,
  accessExpire <- s1, elements <- s2, clock <- s3, recent <- s4,
  Pids <- {1, 2}, Mortals <- {1}, Runs <- Two, Expiration <- 1, Capacity <- 1, MaxLater <- 3,
  MaxLives <- 2, MaxLookups <- 2,
  os <- s1, since <- s2, procCache <- s3, objects <- s4, cids <- s5, run <- s6, procTime <- s7,
  ended <- s8,
  Pods <- Two, IPs <- {"i1"}, Timeout <- 1, MaxTime <- 3, MaxChanges <- 4,
  pods <- s1, changes <- s2, queue <- s3, stage <- s4, closed <- s5, podMetadata <- s6, deleted <- s7,
  podTime <- s8, used <- s9, kubePast <- s10

Script == INSTANCE Scripts WITH
  call <- s1, result <- s2,
  Workers <- Two, Sessions <- {"a", "b", "c", "d"}, MaxCached <- 2, MaxRuns <- 2,
  conf <- s1, pool <- s2, evt <- s3, interrupt <- s4, pc <- s5, held <- s6, timers <- s7, firing <- s8,
  own <- s9, late <- s10, out <- s11, runs <- s12,
  MaxPath <- 6, MaxArg <- 3

-----------------------------------------------------------------------------
\* The variables a part does not use.
Zero14 == s14 = 0 /\ s15 = 0 /\ s16 = 0
Zero13 == s13 = 0 /\ Zero14
Zero12 == s12 = 0 /\ Zero13
Zero11 == s11 = 0 /\ Zero12
Zero10 == s10 = 0 /\ Zero11
Zero9 == s9 = 0 /\ Zero10
Zero8 == s8 = 0 /\ Zero9
Zero6 == s6 = 0 /\ s7 = 0 /\ Zero8
Zero5 == s5 = 0 /\ Zero6
Zero3 == s3 = 0 /\ s4 = 0 /\ Zero5

tail14 == <<s14, s15, s16>>
tail13 == <<s13, tail14>>
tail12 == <<s12, tail13>>
tail11 == <<s11, tail12>>
tail10 == <<s10, tail11>>
tail9 == <<s9, tail10>>
tail8 == <<s8, tail9>>
tail6 == <<s6, s7, tail8>>
tail5 == <<s5, tail6>>
tail3 == <<s3, s4, tail5>>

ProcessingInit ==
  \/ part = "runs" /\ Stateless!RunInit /\ Zero6
  \/ part = "pipeline" /\ Pipe!PipeInit /\ Zero12
  \/ part = "host" /\ Caches!HostInit /\ Zero11
  \/ part = "cache" /\ Caches!CacheInit
  \/ part = "bucket" /\ Caches!BucketInit /\ Zero12
  \/ part = "dns" /\ Caches!DnsInit /\ Zero8
  \/ part = "cloud" /\ Metadata!CloudInit /\ Zero10
  \/ part = "expiring" /\ Metadata!CacheInit /\ Zero5
  \/ part = "process" /\ Metadata!ProcInit /\ Zero9
  \/ part = "kube" /\ Metadata!KubeInit /\ Zero11
  \/ part = "script" /\ Script!ScriptInit /\ Zero3
  \/ part = "sessions" /\ Script!SessionInit /\ Zero13
  \/ part = "windows" /\ Script!WindowsInit /\ Zero3

ProcessingNext ==
  /\ UNCHANGED part
  /\ \/ part = "runs" /\ Stateless!RunNext /\ UNCHANGED tail6
     \/ part = "pipeline" /\ Pipe!PipeNext /\ UNCHANGED tail12
     \/ part = "host" /\ Caches!HostNext /\ UNCHANGED tail11
     \/ part = "cache" /\ Caches!CacheNext
     \/ part = "bucket" /\ Caches!BucketNext /\ UNCHANGED tail12
     \/ part = "dns" /\ Caches!DnsNext /\ UNCHANGED tail8
     \/ part = "cloud" /\ Metadata!CloudNext /\ UNCHANGED tail10
     \/ part = "expiring" /\ Metadata!CacheNext /\ UNCHANGED tail5
     \/ part = "process" /\ Metadata!ProcNext /\ UNCHANGED tail9
     \/ part = "kube" /\ Metadata!KubeNext /\ UNCHANGED tail11
     \/ part = "script" /\ Script!ScriptNext /\ UNCHANGED tail3
     \/ part = "sessions" /\ Script!SessionNext /\ UNCHANGED tail13
     \/ part = "windows" /\ Script!WindowsNext /\ UNCHANGED tail3

ProcessingSpec == ProcessingInit /\ [][ProcessingNext]_processingState

-----------------------------------------------------------------------------
(* What the components promise, in the behaviours that are about them.  The *)
(* parts are stated in the components' modules.                            *)

\* No processor loses what an event carries: one that fails leaves the event as it was,
\* one that succeeds changes its targets only, a second run of it changes nothing more,
\* the static fields that events share are never changed by one of them, and what scripts
\* and their helpers for paths and command lines do is whole (processors/actions and the
\* other stateless processors, publisher/processing, processors/script).
EventsAreKept ==
  /\ part = "runs" =>
       /\ Stateless!FailureRestores /\ Stateless!OnlyTargetsChange /\ Stateless!NoValueLost
       /\ Stateless!SecondRunChangesNothing /\ Stateless!AppendedOnce
       /\ Stateless!TruncatedFits /\ Stateless!ConvertKeepsText
  /\ part = "pipeline" =>
       /\ Pipe!SharedMapsKept /\ Pipe!FieldPrecedence /\ Pipe!ClosedByOwner
       /\ Pipe!FailuresLoseNothing
  /\ part = "script" =>
       /\ Script!RenameIsWhole /\ Script!AppendKeeps /\ Script!CancelEndsChain
       /\ Script!AcceptedLoadsAgain
  /\ part = "windows" => Script!CleanIsStable /\ Script!DirAndBaseAgree /\ Script!ArgsAreRead

=============================================================================
