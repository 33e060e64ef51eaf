----------------------------- MODULE MCPlatform -----------------------------
(***************************************************************************)
(* The instance TLC checks of what surrounds the pipeline: the life of a   *)
(* Beat and its data path, its configuration, the connection to            *)
(* Elasticsearch, templates, modules and dashboards, partitions and        *)
(* selectors, the files of the disk queue, and monitoring.  They do not    *)
(* share state, so a behaviour is one of the component that `part` names,  *)
(* and s1 to s15 are that component's variables.                           *)
(***************************************************************************)
EXTENDS Naturals, Sequences, TLC

CONSTANT None

VARIABLES
  part, s1, s2, s3, s4, s5, s6, s7, s8, s9, s10, s11, s12, s13, s14, s15

platformState ==
  <<part, s1, s2, s3, s4, s5, s6, s7, s8, s9, s10, s11, s12, s13, s14, s15>>

-----------------------------------------------------------------------------
(* Values of the constants                                                 *)

\* References between dashboards and assets: shared ones, chains, and a dashboard that
\* refers to another.
ReferenceGraphs ==
  {[o \in {"d1", "d2", "a", "b", "c"} |->
      CASE o = "d1" -> x [] o = "d2" -> y [] o = "a" -> z [] OTHER -> <<>>] :
     x \in {<<"a">>, <<"a", "b">>, <<"b", "a">>}, y \in {<<>>, <<"a">>, <<"b", "c">>, <<"d1">>},
     z \in {<<>>, <<"b">>, <<"c", "b">>}}

\* Two inputs whose IDs give the same key of the registry, one without an ID.
InputIdentity ==
  [i1 |-> [id |-> "a.b", input |-> "x"], i2 |-> [id |-> "a_b", input |-> "y"],
   i3 |-> [id |-> "c", input |-> "y"], i4 |-> [id |-> "", input |-> "x"]]

-----------------------------------------------------------------------------
\* Components that share a module share its instance; the variables of each stand for s1, s2, ...
Settings == INSTANCE OutputSettings WITH
  Events <- {"e1", "e2", "e3"}, Keys <- {1, 6}, NoKey <- None, IntBits <- 3, Partitions <- 3,
  GroupSizes <- {1, 2}, MaxSends <- 4,
  strategy <- s1, eventKey <- s2, producer <- s3, leaders <- s4, cache <- s5, sends <- s6,
  call <- s1, result <- s2,
  Durations <- {1, 2, 3, 5, 8, 20}, MaxFails <- 7,
  strategyKind <- s1, limits <- s2, duration <- s3, reason <- s4, done <- s5, wait <- s6, fails <- s7

Sync == INSTANCE SyncClient WITH
  Publishers <- {"p1", "p2"}, MaxEvents <- 4, MaxBatch <- 2,
  nilPipe <- s1, budget <- s2, pc <- s3, left <- s4, holder <- s5, wg <- s6, queue <- s7,
  tracked <- s8, metrics <- s9, open <- s10, refused <- s11, quiet <- s12

Segment == INSTANCE SegmentFiles WITH
  DataSizes <- {1, 2}, MaxFrames <- 2, MaxTorn <- 1,
  version <- s1, enc <- s2, comp <- s3, phase <- s4, file <- s5, synced <- s6, stream <- s7, lz <- s8,
  buf <- s9, frames <- s10, reported <- s11, raced <- s12, torn <- s13, header <- s14, got <- s15

Fields == INSTANCE FieldMappings WITH call <- s1, result <- s2

Path == INSTANCE DataPath WITH
  Beats <- {"a", "b"}, RetryCount <- 2, MaxStarts <- 3,
  windows <- s1, dir <- s2, content <- s3, lockfiles <- s4, locked <- s5, starts <- s6, proc <- s7,
  flags <- s8

Process == INSTANCE Beat WITH
  MaxReloads <- 1,
  cmd <- s1, conf <- s2, pc <- s3, held <- s4, live <- s5, stop <- s6, signals <- s7,
  cancelled <- s8, callback <- s9, mgrBusy <- s10, watchers <- s11, changed <- s12, reexec <- s13,
  reloads <- s14, past <- s15,
  Inputs <- {"i1", "i2", "i3", "i4"}, Identity <- InputIdentity, MaxCount <- 2, MaxReports <- 2,
  running <- s1, registry <- s2, lastSnap <- s3, totals <- s4, reports <- s5, logged <- s6,
  counted <- s7, seen <- s8, lost <- s9, logLoop <- s10, panicked <- s11,
  Hosts <- {"h1", "h2"}, QueueSize <- 2, BatchSize <- 2, MaxSnapshots <- 2,
  server <- s1, init <- s2, loop <- s3, uuid <- s4, output <- s5, monitored <- s6, stopped <- s7,
  client <- s8, queue <- s9, host <- s10, snapshots <- s11, sent <- s12, dropped <- s13

Module == INSTANCE Modules WITH
  call <- s1, result <- s2,
  Runners <- {"r1", "r2"}, Output <- "out", Pipelines <- <<"p1", "p2">>, MaxConnects <- 1,
  overwrite <- s1, es <- s2, pc <- s3, todo <- s4, loaded <- s5, callbacks <- s6, pending <- s7,
  mutex <- s8, connects <- s9, past <- s10,
  Dashboards <- <<"d1", "d2">>, Assets <- {"a", "b", "c"}, References <- ReferenceGraphs,
  MaxRetries <- 1,
  refs <- s1, files <- s2, importConf <- s3, importer <- s4, attempt <- s5, assetsTodo <- s6,
  assetsLoaded <- s7, errors <- s8, kibana <- s9, sent <- s10

Conn == INSTANCE EsConnection WITH
  Docs <- {"d1", "d2"}, BadDocs <- {"b"}, MaxBody <- 2,
  conf <- s1, buf <- s2, clean <- s3, known <- s4, serverless <- s5, truth <- s6, last <- s7

-----------------------------------------------------------------------------
\* The variables a part does not use.
Zero14 == s14 = 0 /\ s15 = 0
Zero13 == s13 = 0 /\ Zero14
Zero12 == s12 = 0 /\ Zero13
Zero11 == s11 = 0 /\ Zero12
Zero9 == s9 = 0 /\ s10 = 0 /\ Zero11
Zero8 == s8 = 0 /\ Zero9
Zero7 == s7 = 0 /\ Zero8
Zero3 == s3 = 0 /\ s4 = 0 /\ s5 = 0 /\ s6 = 0 /\ Zero7

tail14 == <<s14, s15>>
tail13 == <<s13, tail14>>
tail12 == <<s12, tail13>>
tail11 == <<s11, tail12>>
tail9 == <<s9, s10, tail11>>
tail8 == <<s8, tail9>>
tail7 == <<s7, tail8>>
tail3 == <<s3, s4, s5, s6, tail7>>

PlatformInit ==
  \/ part = "kafka" /\ Settings!PartitionInit /\ Zero7
  \/ part = "select" /\ Settings!SelectorInit /\ Zero3
  \/ part = "backoff" /\ Settings!BackoffInit /\ Zero8
  \/ part = "config" /\ Settings!ConfigInit /\ Zero3
  \/ part = "sync" /\ Sync!SyncInit /\ Zero13
  \/ part = "segment" /\ Segment!SegInit
  \/ part = "fields" /\ Fields!FieldInit /\ Zero3
  \/ part = "path" /\ Path!PathInit /\ Zero9
  \/ part = "beat" /\ Process!LifeInit
  \/ part = "filesets" /\ Module!FilesetInit /\ Zero3
  \/ part = "runners" /\ Module!RunnersInit /\ Zero11
  \/ part = "es" /\ Conn!ConnInit /\ Zero8
  \/ part = "import" /\ Module!ImportInit /\ Zero11
  \/ part = "format" /\ Module!FormatInit /\ Zero3
  \/ part = "metrics" /\ Process!MetricInit /\ Zero12
  \/ part = "monitor" /\ Process!ReporterInit /\ Zero14

PlatformNext ==
  /\ UNCHANGED part
  /\ \/ part = "kafka" /\ Settings!PartitionNext /\ UNCHANGED tail7
     \/ part = "select" /\ Settings!SelectorNext /\ UNCHANGED tail3
     \/ part = "backoff" /\ Settings!BackoffNext /\ UNCHANGED tail8
     \/ part = "config" /\ Settings!ConfigNext /\ UNCHANGED tail3
     \/ part = "sync" /\ Sync!SyncNext /\ UNCHANGED tail13
     \/ part = "segment" /\ Segment!SegNext
     \/ part = "fields" /\ Fields!FieldNext /\ UNCHANGED tail3
     \/ part = "path" /\ Path!PathNext /\ UNCHANGED tail9
     \/ part = "beat" /\ Process!LifeNext
     \/ part = "filesets" /\ Module!FilesetNext /\ UNCHANGED tail3
     \/ part = "runners" /\ Module!RunnersNext /\ UNCHANGED tail11
     \/ part = "es" /\ Conn!ConnNext /\ UNCHANGED tail8
     \/ part = "import" /\ Module!ImportNext /\ UNCHANGED tail11
     \/ part = "format" /\ Module!FormatNext /\ UNCHANGED tail3
     \/ part = "metrics" /\ Process!MetricNext /\ UNCHANGED tail12
     \/ part = "monitor" /\ Process!ReporterNext /\ UNCHANGED tail14

PlatformSpec == PlatformInit /\ [][PlatformNext]_platformState

-----------------------------------------------------------------------------
(* What the components promise, in the behaviours that are about them.  The *)
(* parts are stated in the components' modules.                            *)

\* Events and batches go where the configuration says, and outputs wait as it says: to a
\* partition that exists and is kept over retries, to the first rule that matches, after
\* growing and bounded waits, with the preset's settings (outputs/kafka, outputs/outil,
\* common/backoff, outputs/elasticsearch, outputs/redis, publisher/pipeline).
OutputsAsConfigured ==
  /\ part = "kafka" =>
       /\ Settings!PartitionsExist /\ Settings!RetryKeepsPartition
       /\ Settings!SameKeySamePartition /\ Settings!GroupsRotate
  /\ part = "select" =>
       /\ Settings!FirstRuleWins /\ Settings!CaseIsEnforced /\ Settings!IndexIsNamed
       /\ Settings!ActionIsAsked
  /\ part = "backoff" => Settings!WaitsGrow /\ Settings!KafkaWaitsBounded
  /\ part = "config" =>
       /\ Settings!PresetWins /\ Settings!ChangesAreReported /\ Settings!QueueAsConfigured
       /\ Settings!RedisTLSAsAsked /\ Settings!SegmentsFit

\* What Beats keep on disk is used by one of them at a time and reads back as written: the
\* data path with its lock, its identity and its queue, and the frames of a segment file
\* through failed writes, crashes, compression and encryption (cmd/instance,
\* publisher/queue/diskqueue).
FilesAreSafe ==
  /\ [](/\ part = "path" =>
             Path!RunningIdentity /\ Path!PathIsExclusive /\ Path!QueueIsExclusive
        /\ part = "segment" =>
             Segment!ScanCountsWholeFrames /\ Segment!ReadsBack /\ Segment!EachUnitOnce)
  /\ [][part = "path" => Path!IdentityIsKept]_platformState

\* What is set up in Elasticsearch and Kibana is complete, or nothing is left of it:
\* templates and index patterns made of field definitions, the pipelines of filesets,
\* dashboards with what they refer to, over requests that are whole (template, kibana,
\* fileset, dashboards, esleg/eslegclient).
SetupIsComplete ==
  /\ [](/\ part = "fields" =>
             /\ Fields!LeavesAreMapped /\ Fields!DefaultFieldsExist /\ Fields!AnalyzersAgree
             /\ Fields!DynamicTemplatesNamedOnce /\ Fields!PatternFieldsExist
             /\ Fields!SettingsAreKept
        /\ part = "filesets" =>
             /\ Module!FilesetsAsConfigured /\ Module!VarsAsConfigured
             /\ Module!AdaptedIsUnderstood /\ Module!UnderstoodIsKept
        /\ part = "runners" => Module!FailedLoadLeavesNothing /\ Module!NoCallbackAfterStop
        /\ part = "es" => Conn!RequestsAreWhole /\ Conn!OneAuthorization
        /\ part = "import" =>
             Module!DashboardsComplete /\ Module!AssetsSentOnce /\ Module!DoneMeansImported
        /\ part = "format" =>
             Module!ImportUndoesExport /\ Module!IndexIsReplaced /\ Module!ExportIsSaved)
  /\ [][/\ part = "runners" => Module!CustomPipelinesKept /\ Module!ConnectedMeansLoaded
        /\ part = "es" => Conn!PathFitsServer]_platformState

\* A Beat releases what it started, whoever asks it to stop and whenever; a client
\* that waits for its events is released when they are reported and not before; and what
\* its metrics and the monitoring cluster are told adds up (cmd/instance,
\* publisher/pipeline/sync_client.go, monitoring).
BeatIsWellRun ==
  /\ part = "beat" =>
       /\ Process!LaunchCleansUp /\ Process!NotifiedIsReleased
       /\ Process!ChangeStopsBeat /\ Process!WatcherRestarts
  /\ part = "sync" =>
       /\ Sync!WaitMeansReported /\ Sync!NobodyWaitsForNothing /\ Sync!ActiveIsInFlight
  /\ part = "metrics" => Process!DeltasAddUp /\ Process!RunningIsListed
  /\ part = "monitor" =>
       /\ Process!SnapshotsAccounted /\ Process!OneClusterPerLoop /\ Process!OnlyToMonitoring
=============================================================================
