------------------------- MODULE MetadataProcessors -------------------------
(***************************************************************************)
(* The processors that enrich events with what they learn of their         *)
(* surroundings: the cloud provider, the process an event names and its    *)
(* container, and the pods of a Kubernetes cluster. They do not share      *)
(* state.                                                                  *)
(***************************************************************************)
EXTENDS Integers, Sequences, SequencesExt, FiniteSets, TLC

CONSTANT None

-----------------------------------------------------------------------------
(***************************************************************************)
(* The add_cloud_metadata processor.  The configured providers are asked   *)
(* in parallel when the processor is made; what has been received when the *)
(* timeout ends the wait decides which provider hosts this machine.  Every *)
(* event waits for that and gets the metadata.                             *)
(*                                                                         *)
(* Metadata and events are sets of leaves <<top-level key, rest>>; where   *)
(* an event keeps its own value, the leaf is marked with its origin.       *)
(***************************************************************************)

CONSTANTS
  ProviderLists,  \* values of the option "providers"
  CloudWorkers,   \* events on their way through the processor
  CloudEvents     \* the leaves events may have before

VARIABLES
  overwrite,   \* option "overwrite"
  fetcher,     \* provider type -> "asking", a result, or "taken"
  expired,     \* the timeout of fetchMetadata has passed
  lastTaken,   \* the select that saw the timeout has taken a result
  responses,   \* results received without an error
  initOnce,    \* "running" or "done"
  metadata,    \* the metadata found, {} for none
  cloudEvent,  \* worker -> [leaves, done]
  cloudInput   \* history: worker -> the leaves before

cloudVars == <<overwrite, fetcher, expired, lastTaken, responses, initOnce, metadata, cloudEvent, cloudInput>>

(* cloudMetaProviders: name -> type; the types that are enabled by default *)
cloudMetaProviders ==
  [alibaba |-> "alibaba-ecs", ecs |-> "alibaba-ecs", azure |-> "azure-compute", digitalocean |-> "digitalocean",
   aws |-> "aws-ec2", ec2 |-> "aws-ec2", gcp |-> "google-gce", openstack |-> "openstack-nova",
   nova |-> "openstack-nova", openstackssl |-> "openstack-nova-ssl", novassl |-> "openstack-nova-ssl",
   qcloud |-> "tencent-qcloud", tencent |-> "tencent-qcloud", huawei |-> "openstack-nova",
   hetzner |-> "hetzner-cloud"]

DefaultEnabled == {"azure-compute", "digitalocean", "aws-ec2", "google-gce", "openstack-nova",
                   "openstack-nova-ssl", "hetzner-cloud"}

priorityProviders == {"aws", "ec2", "azure"}

providersFilter(list, name) ==
  IF list = <<>> THEN cloudMetaProviders[name] \in DefaultEnabled
  ELSE \E i \in DOMAIN list : list[i] = name

filterMetaProviders(list) == {name \in DOMAIN cloudMetaProviders : providersFilter(list, name)}

(* One fetcher for each type of provider, whatever its aliases *)
setupFetchers(list) == {cloudMetaProviders[name] : name \in filterMetaProviders(list)}

----------------------------------------------------------------------------
(* The results a fetcher may come to *)
Failed(provider) == [provider |-> provider, err |-> TRUE, metadata |-> {}]
Cloud(provider, keys) ==
  [provider |-> provider, err |-> FALSE, metadata |-> {<<"cloud", k>> : k \in keys \cup {"provider", "service.name"}}]
Orchestrated(res, keys) == [res EXCEPT !.metadata = @ \cup {<<"orchestrator", k>> : k \in keys}]

(* An HTTP fetcher asks each of its URLs; one that fails is the end of it. *)
fetchRaw(reply) == reply = "ok"
httpFetch(provider, urls, keys) ==
  {IF \A u \in urls : fetchRaw(reply[u]) THEN Cloud(provider, keys) ELSE Failed(provider) :
     reply \in [urls -> {"ok", "no request", "no answer", "status", "body", "json"}]}

openstackNova == httpFetch("openstack", 1..2, {"instance.id", "machine.type", "instance.name", "availability_zone"})
hetzner == httpFetch("hetzner", 1..2, {"instance.id", "instance.name", "availability_zone", "region"})
alibaba == httpFetch("ecs", 1..2, {"instance.id", "region", "availability_zone"})
tencent == httpFetch("qcloud", 1..2, {"instance.id", "region", "availability_zone"})
digitalOcean == httpFetch("digitalocean", {1}, {"instance.id", "region"})

(* The instance's tags, from its metadata service as far as that answers, and
   then the name of the cluster from the API. *)
getTagsFromIMDS(category, values) ==
  IF category = "fail" THEN [tags |-> {}, ok |-> FALSE]
  ELSE LET n == Cardinality({i \in DOMAIN values : \A j \in 1..i : values[j] # "fail"})
       IN  [tags |-> {i \in 1..n : values[i] # "empty"}, ok |-> n = Len(values)]

clusterNameFromDescribeTag(reply) == IF reply = "one" THEN {1} ELSE {}

getTags(category, values, reply) ==
  LET imds == getTagsFromIMDS(category, values)
  IN  IF imds.ok THEN imds.tags ELSE imds.tags \cup clusterNameFromDescribeTag(reply)

(* Tag 1 is the cluster's name. *)
aws(identity, category, values, reply) ==
  IF identity = "fail" THEN Failed("aws")
  ELSE LET tags == getTags(category, values, reply)
           base == Cloud("aws", {"instance.id", "machine.type", "region", "availability_zone", "account.id",
                                 "image.id"})
           named == IF 1 \in tags THEN Orchestrated(base, {"cluster.id", "cluster.name"}) ELSE base
       IN  [named EXCEPT !.metadata = @ \cup {<<"aws", i>> : i \in tags}]

fetchRawProviderMetadata ==
  {aws(i, c, v, r) : i \in {"ok", "fail"}, c \in {"ok", "fail"}, v \in [1..2 -> {"ok", "empty", "fail"}],
                     r \in {"one", "none", "fail"}}

(* Azure: the cluster's name needs the subscription and the resource group
   the first answer has; the resource group is not kept. *)
fetchAzureClusterMeta(base, account, group, clusters) ==
  IF ~account \/ ~group \/ clusters = "fail" THEN base
  ELSE Orchestrated(base, {"cluster.id", "cluster.name"})

azure ==
  LET http == httpFetch("azure", {1}, {"account.id", "instance.id", "instance.name", "machine.type", "region"})
  IN  {r \in http : r.err} \cup
      {fetchAzureClusterMeta(r, a, g, c) : r \in {x \in http : ~x.err}, a, g \in BOOLEAN, c \in {"ok", "fail"}}

(* GCE: a cluster without a name is left out *)
gceSchema(instance, project, cluster, server) ==
  LET base == Cloud("gcp", (IF instance THEN {"instance.id", "instance.name", "machine.type", "availability_zone",
                                             "region"} ELSE {})
                           \cup (IF project THEN {"project.id", "account.id"} ELSE {}))
  IN  IF instance /\ cluster
      THEN Orchestrated(base, {"cluster.name"} \cup (IF server THEN {"cluster.url"} ELSE {}))
      ELSE base

gce == {Failed("gcp")} \cup {gceSchema(i, p, c, s) : i, p, c, s \in BOOLEAN}

Results(type) ==
  CASE type = "aws-ec2" -> fetchRawProviderMetadata
    [] type = "azure-compute" -> azure
    [] type = "google-gce" -> gce
    [] type = "alibaba-ecs" -> alibaba
    [] type = "tencent-qcloud" -> tencent
    [] type = "hetzner-cloud" -> hetzner
    [] type = "digitalocean" -> digitalOcean
    [] OTHER -> openstackNova

----------------------------------------------------------------------------
CloudInit ==
  /\ overwrite \in BOOLEAN
  /\ \E list \in ProviderLists : fetcher = [t \in setupFetchers(list) |-> [state |-> "asking"]]
  /\ expired = FALSE /\ lastTaken = FALSE
  /\ responses = <<>> /\ initOnce = "running" /\ metadata = {}
  /\ cloudInput \in [CloudWorkers -> CloudEvents]
  /\ cloudEvent = [w \in CloudWorkers |-> [leaves |-> cloudInput[w], done |-> FALSE]]

Answer(t) ==
  /\ fetcher[t].state = "asking" /\ ~expired
  /\ \E r \in Results(t) : fetcher' = [fetcher EXCEPT ![t] = [state |-> "ready", result |-> r]]
  /\ UNCHANGED <<overwrite, expired, lastTaken, responses, initOnce, metadata, cloudEvent, cloudInput>>

(* fetchMetadata takes results until the timeout; the select that the timeout
   ends may take one more. *)
fetchMetadata(t) ==
  /\ initOnce = "running" /\ fetcher[t].state = "ready"
  /\ ~expired \/ ~lastTaken
  /\ lastTaken' = expired
  /\ responses' = IF fetcher[t].result.err THEN responses ELSE Append(responses, fetcher[t].result)
  /\ fetcher' = [fetcher EXCEPT ![t] = [state |-> "taken"]]
  /\ UNCHANGED <<overwrite, expired, initOnce, metadata, cloudEvent, cloudInput>>

CloudTimeout ==
  /\ ~expired /\ expired' = TRUE
  /\ UNCHANGED <<overwrite, fetcher, lastTaken, responses, initOnce, metadata, cloudEvent, cloudInput>>

priorityResult(rs) ==
  LET prior == SelectSeq(rs, LAMBDA r : r.provider \in priorityProviders)
  IN  IF prior # <<>> THEN Head(prior) ELSE Head(rs)

init ==
  /\ initOnce = "running" /\ expired
  /\ initOnce' = "done"
  /\ metadata' = IF responses = <<>> THEN {} ELSE priorityResult(responses).metadata
  /\ UNCHANGED <<overwrite, fetcher, expired, lastTaken, responses, cloudEvent, cloudInput>>

Tops(leaves) == {l[1] : l \in leaves}

(* addMeta: a key of the metadata that the event has is left alone, or is
   replaced as a whole. *)
addMeta(leaves, meta) ==
  LET put == IF overwrite THEN Tops(meta) ELSE Tops(meta) \ Tops(leaves)
  IN  {l \in leaves : l[1] \notin put} \cup {<<l[1], "meta", l[2]>> : l \in {m \in meta : m[1] \in put}}

CloudRun(w) ==
  /\ initOnce = "done" /\ ~cloudEvent[w].done
  /\ cloudEvent' = [cloudEvent EXCEPT ![w] = [leaves |-> addMeta(@.leaves, metadata), done |-> TRUE]]
  /\ UNCHANGED <<overwrite, fetcher, expired, lastTaken, responses, initOnce, metadata, cloudInput>>

CloudNext ==
  \/ CloudTimeout \/ init
  \/ \E t \in DOMAIN fetcher : Answer(t) \/ fetchMetadata(t)
  \/ \E w \in CloudWorkers : CloudRun(w)

----------------------------------------------------------------------------
(* When a provider with priority has been heard, the metadata are those of
   such a provider, in whatever order the answers came. *)
PriorityWins ==
  (initOnce = "done" /\ \E i \in DOMAIN responses : responses[i].provider \in priorityProviders) =>
    \E i \in DOMAIN responses : responses[i].provider \in priorityProviders /\ responses[i].metadata = metadata

(* What an enriched event has under one key comes from one source: the cloud
   fields of an event are never a mixture of its own and the processor's. *)
OneSource ==
  \A w \in CloudWorkers : cloudEvent[w].done =>
    \A l, m \in cloudEvent[w].leaves : l[1] = m[1] => l[2] = m[2]

(* Without overwrite, an event keeps every field it has. *)
OwnFieldsKept ==
  ~overwrite => \A w \in CloudWorkers : cloudInput[w] \subseteq cloudEvent[w].leaves

-----------------------------------------------------------------------------
(***************************************************************************)
(* The Cache of common/cache.go, which processors and outputs keep looked  *)
(* up values in: elements are visible until they expire, a given time      *)
(* after they were written or, for most caches, last asked for; expired    *)
(* ones stay stored until CleanUp.  Next to the elements runs the map a    *)
(* caller thinks of, with the time of the last write or access.            *)
(***************************************************************************)

CONSTANTS
  CacheKeys,
  CacheValues,
  CacheTimeout,  \* the cache's timeout
  MaxClock       \* bound: the clock

VARIABLES
  accessExpire,  \* expire by the time of access, not of addition
  elements,      \* key -> [expiration, timeout, value]
  clock,
  recent         \* key -> [at, timeout, value]: the last write or access

cacheVars == <<accessExpire, elements, clock, recent>>

CacheInit == accessExpire \in BOOLEAN /\ elements = <<>> /\ clock = 0 /\ recent = <<>>

Without(f, k) == [x \in DOMAIN f \ {k} |-> f[x]]
With(f, k, v) == [x \in DOMAIN f \cup {k} |-> IF x = k THEN v ELSE f[x]]

IsExpired(e, t) == t > e.expiration

(* get: the value or None, and the elements with the access time updated *)
get(els, k, t, access) ==
  IF k \notin DOMAIN els \/ IsExpired(els[k], t) THEN [value |-> None, elements |-> els]
  ELSE [value |-> els[k].value,
        elements |-> IF access THEN [els EXCEPT ![k].expiration = t + els[k].timeout] ELSE els]

put(els, k, v, timeout, default, t) ==
  LET d == IF timeout <= 0 THEN default ELSE timeout
  IN With(els, k, [expiration |-> t + d, timeout |-> d, value |-> v])

(* What a caller expects to see *)
Live(k) == k \in DOMAIN recent /\ clock <= recent[k].at + recent[k].timeout
Accessed(k) == IF Live(k) /\ accessExpire THEN With(recent, k, [recent[k] EXCEPT !.at = clock]) ELSE recent
Written(k, v, timeout) == With(recent, k, [at |-> clock, timeout |-> IF timeout = 0 THEN CacheTimeout ELSE timeout, value |-> v])

PutWithTimeout(k, v, timeout) ==
  /\ elements' = put(get(elements, k, clock, accessExpire).elements, k, v, timeout, CacheTimeout, clock)
  /\ recent' = Written(k, v, timeout) /\ UNCHANGED <<accessExpire, clock>>

PutIfAbsentWithTimeout(k, v, timeout) ==
  LET g == get(elements, k, clock, accessExpire)
  IN /\ elements' = IF g.value # None THEN g.elements ELSE put(g.elements, k, v, timeout, CacheTimeout, clock)
     /\ recent' = IF Live(k) THEN Accessed(k) ELSE Written(k, v, timeout)
     /\ UNCHANGED <<accessExpire, clock>>

ReplaceWithTimeout(k, v, timeout) ==
  LET g == get(elements, k, clock, accessExpire)
  IN /\ elements' = IF g.value = None THEN g.elements ELSE put(g.elements, k, v, timeout, CacheTimeout, clock)
     /\ recent' = IF Live(k) THEN Written(k, v, timeout) ELSE recent
     /\ UNCHANGED <<accessExpire, clock>>

CacheGet(k) ==
  /\ elements' = get(elements, k, clock, accessExpire).elements
  /\ recent' = Accessed(k) /\ UNCHANGED <<accessExpire, clock>>

CacheDelete(k) == elements' = Without(elements, k) /\ recent' = Without(recent, k) /\ UNCHANGED <<accessExpire, clock>>

cleaned(els, t) == [k \in {x \in DOMAIN els : ~IsExpired(els[x], t)} |-> els[k]]

(* CleanUp, by the janitor or a caller *)
CleanUp == elements' = cleaned(elements, clock) /\ UNCHANGED <<accessExpire, clock, recent>>

CacheTick == clock < MaxClock /\ clock' = clock + 1 /\ UNCHANGED <<accessExpire, elements, recent>>

CacheNext ==
  \/ \E k \in CacheKeys : \/ \E v \in CacheValues, timeout \in {0, CacheTimeout + 1} :
                               \/ PutWithTimeout(k, v, timeout)
                               \/ PutIfAbsentWithTimeout(k, v, timeout)
                               \/ ReplaceWithTimeout(k, v, timeout)
                          \/ CacheGet(k)
                          \/ CacheDelete(k)
  \/ CleanUp
  \/ CacheTick

(* Entries: what is visible *)
Entries == [k \in {x \in DOMAIN elements : ~IsExpired(elements[x], clock)} |-> elements[k].value]

(* Callers see exactly the values that were written, and accessed where that
   counts, less than the element's own timeout ago: an access keeps the timeout
   the element was written with, an expired element is never revived by Replace
   nor kept from PutIfAbsent, and CleanUp takes nothing that is visible *)
VisibleIsRecent == Entries = [k \in {x \in DOMAIN recent : Live(x)} |-> recent[k].value]

-----------------------------------------------------------------------------
(***************************************************************************)
(* add_process_metadata: events that name a process are given what the     *)
(* system knows of it (processors/add_process_metadata).  What was looked  *)
(* up is shared by all processors of the Beat in one process cache of a    *)
(* limited size, errors included; the container ID comes from a cache of   *)
(* the processor's own and is put into the shared metadata.                *)
(***************************************************************************)

CONSTANTS
  Pids,
  Mortals,     \* bound: the pids whose processes end
  Runs,        \* processors running concurrently
  Expiration,  \* cacheExpiration, of both caches
  Capacity,    \* cacheCapacity
  MaxLater,    \* bound: the clock
  MaxLives,    \* bound: processes that have one pid, one after the other
  MaxLookups   \* bound: lookups that find a process or fail

VARIABLES
  os,         \* pid -> which process has it: 0 none, n the nth
  since,      \* pid -> time of the last start or exit, history
  procCache,  \* procCache: pid -> [meta, expiration], meta an object or None for an error
  objects,    \* the metadata maps: object -> [pid, life, container]
  cids,       \* pidCidCache: pid -> elements of common.Cache
  run,        \* processor -> its state
  procTime,
  ended       \* the processes that have ended

procVars == <<os, since, procCache, objects, cids, run, procTime, ended>>

Idle == [pc |-> "idle", pid |-> 0, meta |-> None, container |-> None, result |-> None]

ProcInit ==
  /\ os \in {f \in [Pids -> {0, 1}] : \A p \in Pids \ Mortals : f[p] = 1} /\ since = [p \in Pids |-> 0] /\ procCache = <<>> /\ objects = <<>> /\ cids = <<>>
  /\ run = [r \in Runs |-> Idle] /\ procTime = 0 /\ ended = {}

(* The container of a process, 0 for none: the first process with a pid runs in one *)
ContainerOf(p, life) == IF life = 1 THEN p ELSE 0

(***************************** process cache *****************************)

valid(p) == p \in DOMAIN procCache /\ procCache[p].expiration > procTime

(* GetProcessMetadata, under the read lock *)
Lookup(r, p) ==
  /\ run[r].pc = "idle" /\ (valid(p) \/ Cardinality(DOMAIN objects) < MaxLookups)
  /\ run' = [run EXCEPT ![r] = IF valid(p) THEN [Idle EXCEPT !.pc = "found", !.pid = p, !.meta = procCache[p].meta]
                                           ELSE [Idle EXCEPT !.pc = "missing", !.pid = p]]
  /\ UNCHANGED <<os, since, procCache, objects, cids, procTime, ended>>

(* tryEvictExpired looks at a sample of the entries *)
Expired == {p \in DOMAIN procCache : procTime > procCache[p].expiration}

(* evictRandomEntry, when the cache is full *)
evictRandomEntry(c) == IF Cardinality(DOMAIN c) >= Capacity THEN {[q \in DOMAIN c \ {p} |-> c[q]] : p \in DOMAIN c} ELSE {c}

(* and under the write lock: entries go before it is known whether one is needed *)
Generate(r) ==
  LET p == run[r].pid IN
  /\ run[r].pc = "missing"
  /\ \E sample \in SUBSET Expired :
       \E c \in evictRandomEntry([q \in DOMAIN procCache \ sample |-> procCache[q]]) :
         IF p \in DOMAIN c /\ c[p].expiration > procTime
         THEN procCache' = c /\ run' = [run EXCEPT ![r].pc = "found", ![r].meta = c[p].meta] /\ UNCHANGED objects
         ELSE LET o == Cardinality(DOMAIN objects) + 1
                  m == IF os[p] = 0 THEN None ELSE o
              IN /\ objects' = [x \in DOMAIN objects \cup {o} |-> IF x = o THEN [pid |-> p, life |-> os[p], container |-> None] ELSE objects[x]]
                 /\ procCache' = [q \in DOMAIN c \cup {p} |-> IF q = p THEN [meta |-> m, expiration |-> procTime + Expiration] ELSE c[q]]
                 /\ run' = [run EXCEPT ![r].pc = "found", ![r].meta = m]
  /\ UNCHANGED <<os, since, cids, procTime, ended>>

(******************************* enrich **********************************)

(* GetCid: from the cache, where an access keeps it, or from the process's cgroups;
   the ID goes into the metadata, which is the object in the cache *)
GetCid(r) ==
  LET p == run[r].pid
      g == get(cids, p, procTime, TRUE)
      cid == IF g.value # None THEN g.value ELSE IF os[p] = 0 THEN None ELSE ContainerOf(p, os[p])
      c == IF cid \in {None, 0} THEN None ELSE cid
      m == run[r].meta
  IN /\ run[r].pc = "found"
     /\ cids' = IF g.value = None /\ cid # None THEN put(g.elements, p, cid, 0, Expiration, procTime) ELSE g.elements
     /\ objects' = IF m # None /\ c # None THEN [objects EXCEPT ![m].container = c] ELSE objects
     /\ run' = [run EXCEPT ![r].pc = IF m = None /\ c = None THEN "ErrNoProcess" ELSE "enrich",
                           ![r].container = IF m = None THEN c ELSE None]
     /\ UNCHANGED <<os, since, procCache, procTime, ended>>

(* The mapped fields are copied to a clone of the event; without overwrite_keys a
   field that is there makes the whole enrichment fail and the event stays as it was *)
Enrich(r, blocked) ==
  LET m == run[r].meta
  IN /\ run[r].pc = "enrich"
     /\ run' = IF blocked
               THEN [run EXCEPT ![r].pc = "failed"]
               ELSE [run EXCEPT ![r].pc = "done",
                                ![r].result = IF m = None THEN [life |-> 0, pid |-> run[r].pid, container |-> run[r].container]
                                              ELSE objects[m]]
     /\ UNCHANGED <<os, since, procCache, objects, cids, procTime, ended>>

Ended == {"done", "failed", "ErrNoProcess"}
NextEvent(r) == run[r].pc \in Ended /\ run' = [run EXCEPT ![r] = Idle]
                /\ UNCHANGED <<os, since, procCache, objects, cids, procTime, ended>>

(* The janitor of the processor's cache, until Close *)
Janitor == cids' = cleaned(cids, procTime) /\ UNCHANGED <<os, since, procCache, objects, run, procTime, ended>>

(******************************* system **********************************)

Lives(p) == Cardinality({x \in ended : x[1] = p})
Exit(p) ==
  /\ os[p] # 0 /\ os' = [os EXCEPT ![p] = 0] /\ since' = [since EXCEPT ![p] = procTime] /\ ended' = ended \cup {<<p, os[p]>>}
  /\ UNCHANGED <<procCache, objects, cids, run, procTime>>
Start(p) ==
  /\ os[p] = 0 /\ Lives(p) + 1 <= MaxLives /\ os' = [os EXCEPT ![p] = Lives(p) + 1] /\ since' = [since EXCEPT ![p] = procTime]
  /\ UNCHANGED <<procCache, objects, cids, run, procTime, ended>>

(* A run takes less time than the caches keep their entries *)
Elapse == procTime < MaxLater /\ (\A r \in Runs : run[r].pc = "idle") /\ procTime' = procTime + 1
          /\ UNCHANGED <<os, since, procCache, objects, cids, run, ended>>

ProcNext ==
  \/ \E r \in Runs : \/ \E p \in Pids : Lookup(r, p)
                     \/ Generate(r)
                     \/ GetCid(r)
                     \/ \E blocked \in BOOLEAN : Enrich(r, blocked)
                     \/ NextEvent(r)
  \/ Janitor
  \/ \E p \in Mortals : Exit(p) \/ Start(p)
  \/ Elapse

(***************************** properties ********************************)

(* The shared cache never holds more processes than its capacity, however many
   runs miss at the same time *)
CacheIsBounded == Cardinality(DOMAIN procCache) <= Capacity

(* An event gets the metadata of a process that has its pid, or had it no longer
   than the cache keeps entries; an event for which no process is found names a
   pid that had none in that time *)
MetadataIsRecent ==
  \A r \in Runs :
    /\ (run[r].pc = "done" /\ run[r].result.life # 0) =>
         /\ run[r].result.pid = run[r].pid
         /\ (run[r].result.life = os[run[r].pid] \/ procTime <= since[run[r].pid] + Expiration)
    /\ run[r].pc = "ErrNoProcess" => (os[run[r].pid] = 0 \/ procTime <= since[run[r].pid] + Expiration)

(* As long as a pid belongs to one process, the container ID given to its events
   is the one of that process; when the pid is used again, the old ID stays as
   long as events keep asking for it, in both caches *)
ContainerIsOwn ==
  \A r \in Runs : (run[r].pc = "done" /\ run[r].result.container # None) =>
    LET p == run[r].pid
    IN (os[p] = 1 \/ (os[p] = 0 /\ Lives(p) = 1)) => run[r].result.container = ContainerOf(p, 1)

(* All events of a process in a container that has its pid for longer than the
   caches keep entries carry the container's ID, not only the first *)
ContainerIsKnown ==
  \A r \in Runs :
    (run[r].pc = "done" /\ os[run[r].pid] = 1 /\ procTime > since[run[r].pid] + Expiration) => run[r].result.container # None

-----------------------------------------------------------------------------
(***************************************************************************)
(* add_kubernetes_metadata: the processor watches the pods of a cluster    *)
(* and keeps their metadata under the keys its indexers compute, the pod's *)
(* name, its IP and the IDs of its containers; an event is looked up under *)
(* the key its matchers find (processors/add_kubernetes_metadata).  A pod  *)
(* that is gone stays in the cache while events ask for it.                *)
(***************************************************************************)

CONSTANTS
  Pods,       \* names of pods
  IPs,        \* addresses that pods get
  Timeout,    \* cleanup_timeout
  MaxTime,    \* bound: the clock
  MaxChanges  \* bound: changes of the cluster

VARIABLES
  pods,         \* pod -> [ip, cid, done, deleting] or None
  changes,      \* changes of the cluster so far
  queue,        \* the watcher's events, in order
  stage,        \* of init: "retry", "watching", "gave up"
  closed,       \* Close was called
  podMetadata,  \* cache.metadata: key -> pod
  deleted,      \* cache.deleted: key -> when it is to be deleted
  podTime,
  used,         \* key -> when it was last deleted, or asked for in time, history
  kubePast      \* what happened: "renamed" a pod lost a key, "reused" a key had two pods, "early" Close before the watcher

kubeVars == <<pods, changes, queue, stage, closed, podMetadata, deleted, podTime, used, kubePast>>

Put(f, k, v) == [x \in DOMAIN f \cup {k} |-> IF x = k THEN v ELSE f[x]]
Drop(f, ks) == [x \in DOMAIN f \ ks |-> f[x]]

KubeInit ==
  /\ pods = [p \in Pods |-> None] /\ changes = 0 /\ queue = <<>> /\ stage = "retry" /\ closed = FALSE
  /\ podMetadata = <<>> /\ deleted = <<>> /\ podTime = 0 /\ used = <<>> /\ kubePast = {}

(******************************* indexers ********************************)

(* The pod's name; its address, once it has one; its container, once it runs *)
NameKey(p) == <<"name", p>>
IPPortIndexes(obj) == IF obj.ip = None THEN {} ELSE {<<"ip", obj.ip>>}
ContainerIndexes(p, obj) == IF obj.cid = 0 THEN {} ELSE {<<"cid", p, obj.cid>>}
GetIndexes(p, obj) == {NameKey(p)} \cup IPPortIndexes(obj) \cup ContainerIndexes(p, obj)

(******************************** cache **********************************)

(* Deadlines beyond the end of the bounded clock are one *)
Deadline(t) == IF t + Timeout > MaxTime THEN MaxTime ELSE t + Timeout

(* set of several keys, delete of several keys *)
SetAll(c, ks, p) == [metadata |-> [k \in DOMAIN c.metadata \cup ks |-> IF k \in ks THEN p ELSE c.metadata[k]],
                     deleted |-> Drop(c.deleted, ks)]
DeleteAll(c, ks) == [c EXCEPT !.deleted = [k \in DOMAIN @ \cup ks |-> IF k \in ks THEN Deadline(podTime) ELSE @[k]]]

Cache == [metadata |-> podMetadata, deleted |-> deleted]

addPod(c, p, obj) == SetAll(c, GetIndexes(p, obj), p)

removePod(c, p, obj) == DeleteAll(c, GetIndexes(p, obj))
updatePod(c, p, obj) == LET r == removePod(c, p, obj) IN IF obj.deleting THEN r ELSE addPod(r, p, obj)

(* The watcher calls the handlers one after the other *)
HandleEvent ==
  /\ stage = "watching" /\ queue # <<>> /\ (closed => "early" \in kubePast)
  /\ LET e == Head(queue)
         c == CASE e.kind = "add" -> addPod(Cache, e.pod, e.obj)
                [] e.kind = "update" -> updatePod(Cache, e.pod, e.obj)
                [] e.kind = "delete" -> removePod(Cache, e.pod, e.obj)
         ks == GetIndexes(e.pod, e.obj)
     IN /\ podMetadata' = c.metadata /\ deleted' = c.deleted
        /\ used' = [k \in DOMAIN used \cup ks |-> IF k \in ks THEN podTime ELSE used[k]]
  /\ queue' = Tail(queue) /\ UNCHANGED <<pods, changes, stage, closed, podTime, kubePast>>

(* MetadataIndex: the first matcher with a key decides; Run looks it up, which
   keeps an entry that is to be deleted for another timeout *)
MetadataIndex(keys) == LET found == SelectSeq(keys, LAMBDA k : k # None) IN IF found = <<>> THEN None ELSE Head(found)

Run(keys) ==
  LET k == MetadataIndex(keys)
  IN /\ stage = "watching" /\ k # None
     /\ deleted' = (IF k \in DOMAIN deleted THEN Put(deleted, k, Deadline(deleted[k])) ELSE deleted)
     /\ used' = (IF k \in DOMAIN deleted /\ podTime <= deleted[k] THEN Put(used, k, podTime) ELSE used)
     /\ UNCHANGED <<pods, changes, queue, stage, closed, podMetadata, podTime, kubePast>>

(* cleanup: a tick of its timer *)
Cleanup ==
  /\ ~closed
  /\ LET due == {k \in DOMAIN deleted : podTime > deleted[k]}
     IN due # {} /\ deleted' = Drop(deleted, due) /\ podMetadata' = Drop(podMetadata, due) /\ used' = Drop(used, due)
  /\ UNCHANGED <<pods, changes, queue, stage, closed, podTime, kubePast>>

(***************************** init, Close *******************************)

(* The watcher begins with the pods that exist *)
InitProcessor ==
  /\ stage = "retry"
  /\ \/ /\ stage' = "watching"
        /\ queue' = SetToSeq({[kind |-> "add", pod |-> p, obj |-> pods[p]] : p \in {q \in Pods : pods[q] # None}})
     \/ stage' = "gave up" /\ UNCHANGED queue
  /\ UNCHANGED <<pods, changes, closed, podMetadata, deleted, podTime, used, kubePast>>

(* Close stops the watchers it finds, and the cache's timer *)
Close ==
  /\ ~closed /\ closed' = TRUE /\ kubePast' = kubePast \cup (IF stage = "retry" THEN {"early"} ELSE {})
  /\ UNCHANGED <<pods, changes, queue, stage, podMetadata, deleted, podTime, used>>

(******************************* cluster *********************************)

Notify(kind, p, obj) == queue' = IF stage = "watching" THEN Append(queue, [kind |-> kind, pod |-> p, obj |-> obj]) ELSE queue

Change(p, kind, obj) ==
  /\ changes < MaxChanges /\ changes' = changes + 1
  /\ pods' = [pods EXCEPT ![p] = IF kind = "delete" THEN None ELSE obj]
  /\ Notify(kind, p, obj)
  /\ UNCHANGED <<stage, closed, podMetadata, deleted, podTime, used>>

CreatePod(p) ==
  /\ pods[p] = None /\ UNCHANGED kubePast
  /\ Change(p, "add", [ip |-> None, cid |-> 0, done |-> FALSE, deleting |-> FALSE])

(* The pod runs: it gets an address that no pod uses any more, and a container *)
StartPod(p) ==
  /\ pods[p] # None /\ pods[p].ip = None
  /\ \E ip \in IPs :
       /\ \A q \in Pods : pods[q] # None /\ pods[q].ip = ip => pods[q].done
       /\ kubePast' = kubePast \cup (IF \E q \in Pods : pods[q] # None /\ pods[q].ip = ip THEN {"reused"} ELSE {})
       /\ Change(p, "update", [pods[p] EXCEPT !.ip = ip, !.cid = 1])

(* A container is started again under another ID *)
RestartContainer(p) ==
  /\ pods[p] # None /\ pods[p].cid = 1 /\ ~pods[p].deleting
  /\ kubePast' = kubePast \cup {"renamed"} /\ Change(p, "update", [pods[p] EXCEPT !.cid = 2])

FinishPod(p) ==
  /\ pods[p] # None /\ pods[p].ip # None /\ ~pods[p].done
  /\ UNCHANGED kubePast /\ Change(p, "update", [pods[p] EXCEPT !.done = TRUE])

TerminatePod(p) ==
  /\ pods[p] # None /\ ~pods[p].deleting
  /\ UNCHANGED kubePast /\ Change(p, "update", [pods[p] EXCEPT !.deleting = TRUE])

DeletePod(p) ==
  /\ pods[p] # None /\ UNCHANGED kubePast /\ Change(p, "delete", pods[p])

PodTick == podTime < MaxTime /\ podTime' = podTime + 1 /\ UNCHANGED <<pods, changes, queue, stage, closed, podMetadata, deleted, used, kubePast>>

KubeNext ==
  \/ \E p \in Pods : \/ CreatePod(p)
                     \/ StartPod(p)
                     \/ RestartContainer(p)
                     \/ FinishPod(p)
                     \/ TerminatePod(p)
                     \/ DeletePod(p)
                     \/ \E keys \in {<<None, NameKey(p)>>, <<<<"cid", p, 1>>, NameKey(p)>>} : Run(keys)
  \/ HandleEvent
  \/ Cleanup
  \/ InitProcessor
  \/ Close
  \/ PodTick

(***************************** properties ********************************)

Settled == stage = "watching" /\ queue = <<>>

(* When the watcher's events are handled, every pod that is not being deleted
   is found under all of its keys and stays there, whatever of it was removed
   before; the exception is an address that a finished pod still had *)
LivePodsAreFound ==
  (Settled /\ "reused" \notin kubePast /\ (closed => "early" \in kubePast)) =>
    \A p \in Pods : (pods[p] # None /\ ~pods[p].deleting)
      => \A k \in GetIndexes(p, pods[p]) : k \in DOMAIN podMetadata /\ podMetadata[k] = p /\ k \notin DOMAIN deleted

(* What is in the cache belongs to a pod that is there, or is on its way out;
   only a container's old ID stays for good when the container is started again *)
NothingStaysForever ==
  (Settled /\ "renamed" \notin kubePast /\ ~closed) =>
    \A k \in DOMAIN podMetadata \ DOMAIN deleted :
      \E p \in Pods : pods[p] # None /\ k \in GetIndexes(p, pods[p])

(* Metadata is kept for the whole cleanup_timeout after the pod was removed, and
   after each event that asked for it in that time: late events of a pod find its
   metadata *)
KeptWhileUsed ==
  \A k \in DOMAIN podMetadata \ DOMAIN podMetadata' : podTime > used[k] + Timeout

(* A closed processor handles no events of the cluster any more, unless it was
   closed before init had made the watcher *)
ClosedIsQuiet ==
  (closed /\ "early" \notin kubePast) => UNCHANGED podMetadata
=============================================================================
