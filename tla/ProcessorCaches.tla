-------------------------- MODULE ProcessorCaches ---------------------------
(***************************************************************************)
(* The processors that keep a state of their own between events: the       *)
(* stores of the cache processor, the answers of the dns processor, the    *)
(* token buckets of rate_limit and the data of add_host_metadata. They do  *)
(* not share state.                                                        *)
(***************************************************************************)
EXTENDS Integers, Sequences, FiniteSets, FiniteSetsExt, TLC

-----------------------------------------------------------------------------
(***************************************************************************)
(* The store behind the cache processor (processors/cache): a map with a   *)
(* heap of expiry times, shared by the processors that name it, kept in a  *)
(* file by the file store.  Entries expire, make room for others, are      *)
(* deleted, and are read back after a restart.                             *)
(*                                                                         *)
(* One store is modelled.  The lock of the set of stores and the lock of   *)
(* the store are taken in opposite orders by get and dropFrom, so each is  *)
(* two steps; the operations on an open store are one step each, as they   *)
(* hold its lock throughout.                                               *)
(***************************************************************************)

CONSTANTS
  Procs,      \* the processors that use the store
  StoreKeys,  \* keys
  TTL,        \* put.ttl
  Capacity,   \* backend.capacity, 0 for no limit
  Effort,     \* backend.eviction_effort, 0 for no limit
  MaxClock,   \* bound: the clock
  MaxPuts     \* bound: puts

VARIABLES
  clock,
  using,      \* processor -> "out", "getting", "in" or "dropping"
  setLock,    \* holder of the lock of the set of stores, or "free"
  storeLock,  \* holder of the lock of the store, or "free"
  listed,     \* the set of stores has the store
  refs,       \* its reference count
  cache,      \* key -> the entry in the map
  heap,       \* the entries in the heap
  dirty,      \* the map has changed since it was written
  file,       \* the entries in the file
  puts,       \* counts puts; the number is the value put
  late,       \* a released store may still write: its ticker was waiting
  orphaned,   \* history: keys of which Get has left an expired entry in the heap
  torn,       \* history: keys that a write which failed or came late took out of the file
  must,       \* history: key -> the entry that must still be there
  mustSaved   \* history: the same of the file

cacheVars == <<clock, using, setLock, storeLock, listed, refs, cache, heap, dirty, file, puts, late, orphaned,
               torn, must, mustSaved>>
locks == <<using, setLock, storeLock, listed, refs>>

Empty == [k \in {} |-> 0]
Drop(f, ks) == [k \in DOMAIN f \ ks |-> f[k]]
Live(f) == [k \in {x \in DOMAIN f : f[x].expires >= clock} |-> f[k]]

CacheInit ==
  /\ clock = 1
  /\ using = [p \in Procs |-> "out"]
  /\ setLock = "free" /\ storeLock = "free"
  /\ listed = FALSE /\ refs = 0
  /\ cache = Empty /\ heap = {} /\ dirty = FALSE /\ file = {}
  /\ puts = 0 /\ late = FALSE /\ orphaned = {} /\ torn = {}
  /\ must = Empty /\ mustSaved = Empty

CacheTick ==
  /\ clock < MaxClock
  /\ clock' = clock + 1
  /\ UNCHANGED <<late, locks, cache, heap, dirty, file, puts, orphaned, torn, must, mustSaved>>

(* memStoreSet.get and fileStoreSet.get: under the lock of the set the store
   is found, or made from its file; then its own lock is taken to count the
   reference.  Of two entries of a file with one key the later one wins. *)
readState(entries) ==
  LET live == {e \in entries : e.expires >= clock}
  IN  {[k \in {e.key : e \in live} |-> pick[k]] :
         pick \in {f \in [{e.key : e \in live} -> live] : \A k \in DOMAIN f : f[k].key = k}}

Get1(p) ==
  /\ using[p] = "out" /\ setLock = "free"
  /\ using' = [using EXCEPT ![p] = "getting"]
  /\ setLock' = p
  /\ IF listed THEN UNCHANGED <<cache, heap, dirty, must, file>>
     ELSE /\ cache' \in readState(file)
          /\ heap' = {e \in file : e.expires >= clock}
          /\ dirty' = \E e \in file : e.expires < clock
          /\ file' = IF heap' = {} THEN {} ELSE file
          /\ must' = mustSaved
  /\ listed' = TRUE
  /\ UNCHANGED <<late, clock, storeLock, refs, puts, orphaned, torn, mustSaved>>

add(p) ==
  /\ using[p] = "getting" /\ storeLock = "free"
  /\ refs' = refs + 1
  /\ using' = [using EXCEPT ![p] = "in"]
  /\ setLock' = "free"
  /\ UNCHANGED <<late, clock, storeLock, listed, cache, heap, dirty, file, puts, orphaned, torn, must, mustSaved>>


(* The keys whose live entries are in the file and not among those that replace it *)
TornOut(entries) == {k \in DOMAIN mustSaved : mustSaved[k].expires > clock /\ \A e \in entries : e.key # k}

(* writeState: the file is replaced by the live entries of the heap.  When
   writing one of them fails, what has been written replaces it all the same. *)
writeState(final) ==
  IF ~dirty THEN UNCHANGED <<file, dirty, torn, mustSaved>>
  ELSE IF final /\ cache = Empty
  THEN /\ file' = {} /\ mustSaved' = Empty /\ UNCHANGED <<dirty, torn>>
  ELSE LET live == {e \in heap : e.expires >= clock}
       IN  \/ /\ file' = live
              /\ dirty' = FALSE
              /\ mustSaved' = must
              /\ UNCHANGED torn
           \/ UNCHANGED <<file, dirty, torn, mustSaved>>     \* no temporary file
           \/ /\ live # {}
              /\ \E part \in SUBSET live :
                   /\ part # live /\ file' = part
                   /\ mustSaved' = [k \in {x \in DOMAIN must : must[x] \in part} |-> must[k]]
                   /\ torn' = torn \cup (TornOut(part) \cap DOMAIN must)
              /\ UNCHANGED dirty

(* dropFrom: under the lock of the store the last reference is found, the
   file written, and then the lock of the set is taken. *)
dropFrom(p) ==
  /\ using[p] = "in" /\ storeLock = "free"
  /\ refs' = refs - 1
  /\ IF refs' > 0
     THEN /\ using' = [using EXCEPT ![p] = "out"]
          /\ UNCHANGED <<storeLock, file, dirty, torn, mustSaved>>
     ELSE /\ using' = [using EXCEPT ![p] = "dropping"]
          /\ storeLock' = p
          /\ writeState(TRUE)
  /\ UNCHANGED <<late, clock, setLock, listed, cache, heap, puts, orphaned, must>>

free(p) ==
  /\ using[p] = "dropping" /\ setLock = "free"
  /\ listed' = FALSE
  /\ storeLock' = "free"
  /\ using' = [using EXCEPT ![p] = "out"]
  /\ cache' = Empty /\ heap' = {} /\ dirty' = FALSE
  /\ late' = (late \/ dirty)
  /\ must' = mustSaved
  /\ UNCHANGED <<clock, setLock, refs, file, puts, orphaned, torn, mustSaved>>

(* The ticker of a store that was released with unwritten changes fires before
   it sees the cancellation: an empty store is written over the file. *)
LateWriteOut ==
  /\ late /\ late' = FALSE
  /\ file' = {} /\ mustSaved' = Empty
  /\ torn' = torn \cup TornOut({})
  /\ UNCHANGED <<clock, locks, cache, heap, dirty, puts, orphaned, must>>

----------------------------------------------------------------------------
(* evictExpired: the expired entries at the top of the heap, as many as the
   effort allows, and then the oldest ones until there is room.  State is the
   map and the heap, and what capacity has taken. *)
Top(h) == {e \in h : \A f \in h : e.expires <= f.expires}

RECURSIVE EvictOld(_, _), EvictForRoom(_)
EvictOld(s, n) ==
  IF (Effort > 0 /\ n = Effort) \/ s.cache = Empty \/ (\A e \in Top(s.heap) : e.expires > clock) THEN {s}
  ELSE UNION {EvictOld([s EXCEPT !.cache = Drop(@, {e.key}), !.heap = @ \ {e}], n + 1) : e \in Top(s.heap)}

EvictForRoom(s) ==
  IF Capacity = 0 \/ Cardinality(DOMAIN s.cache) < Capacity THEN {s}
  ELSE UNION {EvictForRoom([s EXCEPT !.cache = Drop(@, {e.key}), !.heap = @ \ {e}, !.taken = @ \cup {e.key}]) :
                e \in Top(s.heap)}

evictExpired == UNION {EvictForRoom(s) : s \in EvictOld([cache |-> cache, heap |-> heap, taken |-> {}], 0)}

(* Put: the entry of a key that is there is changed in place, in the heap too *)
Put(p, k) ==
  /\ using[p] = "in" /\ storeLock = "free" /\ puts < MaxPuts
  /\ puts' = puts + 1
  /\ \E s \in evictExpired :
       LET e == [key |-> k, val |-> puts', expires |-> clock + TTL]
           old == IF k \in DOMAIN s.cache THEN {s.cache[k]} ELSE {}
       IN  /\ cache' = (k :> e) @@ s.cache
           /\ heap' = (s.heap \ old) \cup {e}
           /\ must' = (k :> e) @@ Drop(must, s.taken)
  /\ dirty' = TRUE
  /\ UNCHANGED <<late, clock, locks, file, orphaned, torn, mustSaved>>

(* Get: an expired entry leaves the map, and stays in the heap *)
Get(p, k) ==
  /\ using[p] = "in" /\ storeLock = "free"
  /\ k \in DOMAIN cache /\ cache[k].expires < clock
  /\ cache' = Drop(cache, {k})
  /\ orphaned' = orphaned \cup {k}
  /\ UNCHANGED <<late, clock, locks, heap, dirty, file, puts, torn, must, mustSaved>>

Delete(p, k) ==
  /\ using[p] = "in" /\ storeLock = "free" /\ k \in DOMAIN cache
  /\ heap' = heap \ {cache[k]}
  /\ cache' = Drop(cache, {k})
  /\ must' = Drop(must, {k})
  /\ dirty' = TRUE
  /\ UNCHANGED <<late, clock, locks, file, puts, orphaned, torn, mustSaved>>

periodicWriteOut ==
  /\ listed /\ storeLock = "free" /\ dirty
  /\ writeState(FALSE)
  /\ UNCHANGED <<late, clock, locks, cache, heap, puts, orphaned, must>>

(* The process ends without Close and starts again *)
CacheCrash ==
  /\ listed
  /\ using' = [p \in Procs |-> "out"]
  /\ setLock' = "free" /\ storeLock' = "free"
  /\ listed' = FALSE /\ refs' = 0
  /\ cache' = Empty /\ heap' = {} /\ dirty' = FALSE
  /\ late' = FALSE
  /\ must' = mustSaved
  /\ UNCHANGED <<clock, file, puts, orphaned, torn, mustSaved>>

CacheNext ==
  \/ CacheTick \/ periodicWriteOut \/ LateWriteOut \/ CacheCrash
  \/ \E p \in Procs : Get1(p) \/ add(p) \/ dropFrom(p) \/ free(p)
  \/ \E p \in Procs, k \in StoreKeys : Put(p, k) \/ Get(p, k) \/ Delete(p, k)

----------------------------------------------------------------------------
(* Every entry of the map is in the heap, where Put and Delete look it up by
   its index. *)
CachedIsInHeap == \A k \in DOMAIN cache : cache[k].key = k /\ cache[k] \in heap

Readable(k) == k \in DOMAIN cache /\ cache[k].val = must[k].val

(* Get returns the value of a key that has not "expired" (mem_store.go:150-152):
   a value that was put, and not deleted or pushed out by the capacity since, can
   be read until it expires.  Not so in the code: Get leaves an expired entry in
   the heap (mem_store.go:160-162), and when that one is evicted it takes the
   new value of its key out of the map (mem_store.go:203-204). *)
FreshIsAlwaysKept == listed => \A k \in DOMAIN must : must[k].expires > clock => Readable(k)

(* What holds: every value that was put, and not deleted or pushed out since, can
   be read until it expires, unless Get has found an older value of its key
   expired.  After a restart this holds of the values the file was given last. *)
FreshIsKept == listed => \A k \in DOMAIN must \ orphaned : must[k].expires > clock => Readable(k)

(* "The memStore is guaranteed not to grow larger than cap elements"
   (mem_store.go:86), entries left behind in the heap or not. *)
CapacityKept == Capacity > 0 => Cardinality(DOMAIN cache) <= Capacity

(* A write tries to be atomic (file_store.go:279): one that fails, or that comes
   when the store has been released, takes no live entry out of the file.  Not so
   in the code: the file that was written half-way is renamed all the same
   (file_store.go:268-283, 296-299), and a ticker that waited for the lock writes
   the emptied store (file_store.go:232-235).  What holds is FreshIsKept, which
   asks for no more than the file was given. *)
WritesTakeNothing == torn = {}

(* References are counted: the store is in the set while a processor uses it,
   and the count is the number of those that do. *)
ReferencesCounted ==
  /\ refs = Cardinality({p \in Procs : using[p] = "in"})
  /\ refs > 0 => listed

(* "dropFrom is safe for concurrent use" (mem_store.go:133-134): no two processors
   wait for each other, one with the lock of the set that wants the store's, one
   the other way round.  Not so in the code: get takes the store's lock under that
   of the set (mem_store.go:48), dropFrom that of the set under the store's
   (mem_store.go:142).  What holds is ReferencesCounted: the count they guard is
   right whenever they get through. *)
DropIsSafe ==
  ~\E p, q \in Procs : using[p] = "getting" /\ using[q] = "dropping" /\ setLock = p /\ storeLock = q

-----------------------------------------------------------------------------
(***************************************************************************)
(* The dns processor (processors/dns): a field is looked up with the name  *)
(* servers in turn; answers are cached for their time to live, failures    *)
(* for a configured time, in two caches of bounded size.  Each access to a *)
(* cache is one step; other events are processed in between.               *)
(***************************************************************************)

CONSTANTS
  Lookers,     \* events being processed
  Queries,     \* field values to look up
  Servers,     \* number of name servers
  MinTTL,      \* success_cache.min_ttl
  FailureTTL,  \* failure_cache.ttl
  MaxSize,     \* capacity.max of both caches
  DnsClock,    \* bound: the clock
  MaxLookups   \* bound: lookups

VARIABLES
  time,
  fieldAction,  \* option "action": "append" or "replace"
  success,      \* query -> [data, expires]
  failure,      \* query -> expires
  looker,       \* looker -> [pc, q, now, target]
  lookups,      \* lookups so far
  answers       \* history: the answers of the resolver, [q, data, at, ttl]

dnsVars == <<time, fieldAction, success, failure, looker, lookups, answers>>

NoQuery == [pc |-> "idle", q |-> "", now |-> 0, target |-> <<>>, tagged |-> FALSE]

DnsInit ==
  /\ time = 0 /\ fieldAction \in {"append", "replace"}
  /\ success = [q \in {} |-> 0] /\ failure = [q \in {} |-> 0]
  /\ looker = [l \in Lookers |-> NoQuery]
  /\ lookups = 0 /\ answers = {}

DnsTick ==
  /\ time < DnsClock
  /\ time' = time + 1
  /\ UNCHANGED <<fieldAction, success, failure, looker, lookups, answers>>

AnswerExpired(expires, now) == now > expires

(* A cache that is full gives up any one key, be it the one to be set *)
evict(c) ==
  IF Cardinality(DOMAIN c) < MaxSize THEN {c}
  ELSE {[q \in DOMAIN c \ {k} |-> c[q]] : k \in DOMAIN c}

set(c, q, r) == {(q :> r) @@ rest : rest \in evict(c)}

(* The target of a field: an answer replaces or is appended to what is there *)
setFieldSliceValue(old, value) == IF fieldAction = "replace" THEN value ELSE old \o value
Answered(w, data) ==
  [w EXCEPT !.pc = "idle", !.target = setFieldSliceValue(@, <<[q |-> w.q, data |-> data, now |-> w.now]>>)]

processField(l, q) ==
  /\ looker[l].pc = "idle" /\ lookups < MaxLookups
  /\ lookups' = lookups + 1
  /\ looker' = [looker EXCEPT ![l] = [@ EXCEPT !.pc = "success", !.q = q, !.now = time]]
  /\ UNCHANGED <<time, fieldAction, success, failure, answers>>

successGet(l) ==
  LET w == looker[l]
      hit == w.q \in DOMAIN success /\ ~AnswerExpired(success[w.q].expires, w.now)
  IN  /\ w.pc = "success"
      /\ looker' = [looker EXCEPT ![l] = IF hit THEN Answered(w, success[w.q].data) ELSE [w EXCEPT !.pc = "failure"]]
      /\ UNCHANGED <<time, fieldAction, success, failure, lookups, answers>>

failureGet(l) ==
  LET w == looker[l]
      hit == w.q \in DOMAIN failure /\ ~AnswerExpired(failure[w.q], w.now)
  IN  /\ w.pc = "failure"
      /\ looker' = [looker EXCEPT ![l] = IF hit THEN [w EXCEPT !.pc = "idle", !.tagged = TRUE]
                                         ELSE [w EXCEPT !.pc = "resolve"]]
      /\ UNCHANGED <<time, fieldAction, success, failure, lookups, answers>>

(* miekgResolver.Lookup: the first server that answers decides.  An answer is
   the least time to live of its records, 0 for no record of the type asked. *)
Reply == {"unreachable", "rcode"}
resolverLookup(replies) ==
  LET heard == {i \in DOMAIN replies : replies[i] # "unreachable"}
  IN  IF heard = {} \/ replies[Min(heard)] = "rcode" THEN "error" ELSE "answer"

Lookup(l) ==
  LET w == looker[l]
  IN  /\ w.pc = "resolve"
      /\ \E replies \in [1..Servers -> Reply \cup {"records"}], ttl \in 0..2 :
           IF resolverLookup(replies) = "error"
           THEN /\ failure' \in set(failure, w.q, w.now + FailureTTL)
                /\ looker' = [looker EXCEPT ![l].pc = "idle", ![l].tagged = TRUE]
                /\ UNCHANGED <<success, answers>>
           ELSE /\ success' \in set(success, w.q, [data |-> time, expires |-> w.now + Max({ttl, MinTTL})])
                /\ answers' = answers \cup {[q |-> w.q, data |-> time, at |-> w.now, ttl |-> ttl]}
                /\ looker' = [looker EXCEPT ![l] = Answered(w, time)]
                /\ UNCHANGED failure
      /\ UNCHANGED <<time, fieldAction, lookups>>

DnsNext ==
  \/ DnsTick
  \/ \E l \in Lookers : (\E q \in Queries : processField(l, q)) \/ successGet(l) \/ failureGet(l) \/ Lookup(l)

----------------------------------------------------------------------------
(* Every answer an event gets was given for its query, by a resolver that was
   asked no longer ago than the answer lives, or the configured minimum. *)
AnswersAreCurrent ==
  \A l \in Lookers : \A i \in DOMAIN looker[l].target :
    LET t == looker[l].target[i]
    IN  \E a \in answers : a.q = t.q /\ a.data = t.data /\ t.now <= a.at + Max({a.ttl, MinTTL})

(* Neither cache outgrows its capacity. *)
CachesBounded == Cardinality(DOMAIN success) <= MaxSize /\ Cardinality(DOMAIN failure) <= MaxSize

-----------------------------------------------------------------------------
(***************************************************************************)
(* The rate_limit processor (processors/ratelimit): events of one key draw *)
(* tokens from a bucket that is refilled at the configured rate; full      *)
(* buckets are deleted by a background collection.  The buckets are not    *)
(* locked: a refill and a withdrawal are a read and a write each.          *)
(***************************************************************************)

CONSTANTS
  Callers,  \* pipeline workers that run the processor
  Rate,     \* tokens per unit of time (rate.valuePerSecond)
  Depth,    \* limit times burst_multiplier
  GCCalls,  \* gc.num_calls
  MaxNow,   \* bound: the clock
  MaxCalls  \* bound: calls of IsAllowed

VARIABLES
  bucketTime,
  bucket,         \* the bucket the map has for the key, 0 when it has none
  made,           \* buckets made so far
  tokens,         \* bucket -> tokens
  lastReplenish,  \* bucket -> time
  caller,         \* caller -> [pc, b, tokens]
  gc,             \* the collection: [pc, b, tokens]
  numCalls,       \* calls since the last collection
  calls,          \* calls so far
  allowed,        \* history: events let through
  overlap         \* history: how often two users of a bucket have met

bucketVars == <<bucketTime, bucket, made, tokens, lastReplenish, caller, gc, numCalls, calls, allowed, overlap>>

IdleCaller == [pc |-> "idle", b |-> 0, tokens |-> 0]

BucketInit ==
  /\ bucketTime = 0 /\ bucket = 0 /\ made = 0
  /\ tokens = [b \in {} |-> 0] /\ lastReplenish = [b \in {} |-> 0]
  /\ caller = [c \in Callers |-> IdleCaller] /\ gc = IdleCaller
  /\ numCalls = 0 /\ calls = 0 /\ allowed = 0 /\ overlap = 0

(* A user of bucket b is between its read and its write *)
Held(b) ==
  \/ \E c \in Callers : caller[c].pc \in {"replenish", "take"} /\ caller[c].b = b
  \/ gc.pc \in {"write", "delete"} /\ gc.b = b

Met(cond) == IF cond THEN 1 ELSE 0

BucketTick ==
  /\ bucketTime < MaxNow
  /\ bucketTime' = bucketTime + 1
  /\ UNCHANGED <<bucket, made, tokens, lastReplenish, caller, gc, numCalls, calls, allowed, overlap>>

(* IsAllowed: the collection is started when enough calls were made and none
   is running; the bucket is found, or made full.  Reading a bucket that is
   there is the first half of replenish. *)
runGC == numCalls >= GCCalls /\ gc.pc = "idle"

getBucket(c) ==
  /\ caller[c].pc = "idle" /\ calls < MaxCalls
  /\ calls' = calls + 1
  /\ gc' = IF runGC THEN [IdleCaller EXCEPT !.pc = "range"] ELSE gc
  /\ overlap' = overlap + Met(bucket # 0 /\ Held(bucket))
  /\ IF bucket = 0
     THEN /\ made' = made + 1
          /\ bucket' = made'
          /\ tokens' = [b \in 1..made' |-> IF b = made' THEN Depth ELSE tokens[b]]
          /\ lastReplenish' = [b \in 1..made' |-> IF b = made' THEN bucketTime ELSE lastReplenish[b]]
          /\ caller' = [caller EXCEPT ![c] = [pc |-> "withdraw", b |-> made', tokens |-> 0]]
     ELSE /\ caller' = [caller EXCEPT ![c] = [pc |-> "replenish", b |-> bucket,
                          tokens |-> tokens[bucket] + (bucketTime - lastReplenish[bucket]) * Rate]]
          /\ UNCHANGED <<made, bucket, tokens, lastReplenish>>
  /\ UNCHANGED <<bucketTime, numCalls, allowed>>

replenish(c) ==
  /\ caller[c].pc = "replenish"
  /\ tokens' = [tokens EXCEPT ![caller[c].b] = caller[c].tokens]
  /\ lastReplenish' = [lastReplenish EXCEPT ![caller[c].b] = bucketTime]
  /\ caller' = [caller EXCEPT ![c].pc = "withdraw"]
  /\ UNCHANGED <<bucketTime, bucket, made, gc, numCalls, calls, allowed, overlap>>

withdraw(c) ==
  /\ caller[c].pc = "withdraw"
  /\ caller' = [caller EXCEPT ![c].pc = IF tokens[caller[c].b] < 1 THEN "done" ELSE "take",
                              ![c].tokens = tokens[caller[c].b]]
  /\ overlap' = overlap + Met(Held(caller[c].b))
  /\ UNCHANGED <<bucketTime, bucket, made, tokens, lastReplenish, gc, numCalls, calls, allowed>>

take(c) ==
  /\ caller[c].pc = "take"
  /\ tokens' = [tokens EXCEPT ![caller[c].b] = caller[c].tokens - 1]
  /\ caller' = [caller EXCEPT ![c].pc = "done"]
  /\ allowed' = allowed + 1
  /\ UNCHANGED <<bucketTime, bucket, made, lastReplenish, gc, numCalls, calls, overlap>>

IsAllowed(c) ==
  /\ caller[c].pc = "done"
  /\ numCalls' = numCalls + 1
  /\ caller' = [caller EXCEPT ![c] = IdleCaller]
  /\ UNCHANGED <<bucketTime, bucket, made, tokens, lastReplenish, gc, calls, allowed, overlap>>

(* The collection: every bucket is refilled, and deleted when it is full *)
gcRead ==
  /\ gc.pc = "range"
  /\ gc' = IF bucket = 0 THEN [gc EXCEPT !.pc = "reset"]
           ELSE [pc |-> "write", b |-> bucket, tokens |-> tokens[bucket] + (bucketTime - lastReplenish[bucket]) * Rate]
  /\ overlap' = overlap + Met(bucket # 0 /\ Held(bucket))
  /\ UNCHANGED <<bucketTime, bucket, made, tokens, lastReplenish, caller, numCalls, calls, allowed>>

gcWrite ==
  /\ gc.pc = "write"
  /\ tokens' = [tokens EXCEPT ![gc.b] = gc.tokens]
  /\ lastReplenish' = [lastReplenish EXCEPT ![gc.b] = bucketTime]
  /\ gc' = [gc EXCEPT !.pc = IF gc.tokens >= Depth THEN "delete" ELSE "reset"]
  /\ UNCHANGED <<bucketTime, bucket, made, caller, numCalls, calls, allowed, overlap>>

gcDelete ==
  /\ gc.pc = "delete"
  /\ bucket' = 0
  /\ gc' = [gc EXCEPT !.pc = "reset"]
  /\ overlap' = overlap + Met(\E c \in Callers : caller[c].b = gc.b)
  /\ UNCHANGED <<bucketTime, made, tokens, lastReplenish, caller, numCalls, calls, allowed>>

gcReset ==
  /\ gc.pc = "reset"
  /\ numCalls' = 0
  /\ gc' = IdleCaller
  /\ UNCHANGED <<bucketTime, bucket, made, tokens, lastReplenish, caller, calls, allowed, overlap>>

BucketNext ==
  \/ BucketTick \/ gcRead \/ gcWrite \/ gcDelete \/ gcReset
  \/ \E c \in Callers : getBucket(c) \/ replenish(c) \/ withdraw(c) \/ take(c) \/ IsAllowed(c)

----------------------------------------------------------------------------
(* The events let through are at most the depth and what the rate has refilled
   since the start.  Not so in the code: buckets are not locked, so callers and
   the collection that meet at one can undo a withdrawal or count a refill twice
   (token_bucket.go:139-153, 177). *)
RateAlwaysKept == allowed <= Depth + Rate * bucketTime

(* What holds: the rate is kept while no two users of a bucket meet - a deleted
   bucket was full, so its successor gives nothing away - and each time two meet
   no more is given away than all that one bucket can hold by then. *)
RateKept == allowed <= (Depth + Rate * bucketTime) * (1 + overlap)

-----------------------------------------------------------------------------
(***************************************************************************)
(* The processor add_host_metadata: one value of host data, loaded when it *)
(* is older than the TTL, and reloaded when the FQDN feature is switched.  *)
(* Several pipeline clients run it at once.  add_observer_metadata is the  *)
(* same without the feature, and without the error of New.                 *)
(*                                                                         *)
(* The data say only whether the name in them is fully qualified.          *)
(***************************************************************************)

CONSTANTS
  Runners,    \* the goroutines that run the processor
  CacheTTL,   \* cache.ttl, 0 for none
  MaxTime,    \* bound: the clock
  MaxChanges  \* bound: switches of the feature

VARIABLES
  hostTime,    \* the clock
  fqdn,        \* features.FQDN()
  lastUpdate,  \* p.lastUpdate, 0 for the zero time
  data,        \* p.data: whether the name is fully qualified, and when it was set
  runner,      \* runner -> where it is in Run, and the flag it has read
  updater,     \* the callback of the feature: "idle" or "waiting"
  loads,       \* the loading goroutines of updateOrExpire that have not ended
  failed,      \* history: a load has failed
  crossed,     \* history: a load has set data for the other value of the feature
  changes      \* bound counter

hostVars == <<hostTime, fqdn, lastUpdate, data, runner, updater, loads, failed, crossed, changes>>

IdleRunner == [at |-> "idle", flag |-> FALSE, claimed |-> 0]

(* New loads the data once, before any event *)
HostInit ==
  /\ hostTime = 1
  /\ fqdn = FALSE
  /\ lastUpdate = 1
  /\ data = [flag |-> FALSE, at |-> 1]
  /\ runner = [r \in Runners |-> IdleRunner]
  /\ updater = "idle"
  /\ loads = {}
  /\ failed = FALSE
  /\ crossed = FALSE
  /\ changes = 0

HostTick ==
  /\ hostTime < MaxTime
  /\ hostTime' = hostTime + 1
  /\ UNCHANGED <<fqdn, lastUpdate, data, runner, updater, loads, failed, crossed, changes>>

(* The lock of lastUpdate is held while the callback waits *)
Unlocked == updater = "idle"
hostExpired == CacheTTL = 0 \/ lastUpdate = 0 \/ lastUpdate + CacheTTL <= hostTime

(* Run: the feature is read, then the cache is checked.  The one that finds
   it expired claims the update at once; the others go on with what is there. *)
StartRun(r) ==
  /\ runner[r].at = "idle"
  /\ runner' = [runner EXCEPT ![r] = [at |-> "check", flag |-> fqdn, claimed |-> 0]]
  /\ UNCHANGED <<hostTime, fqdn, lastUpdate, data, updater, loads, failed, crossed, changes>>

CheckExpired(r) ==
  /\ runner[r].at = "check" /\ Unlocked
  /\ runner' = [runner EXCEPT ![r].at = IF hostExpired THEN "load" ELSE "use", ![r].claimed = hostTime]
  /\ lastUpdate' = IF hostExpired /\ CacheTTL > 0 THEN hostTime ELSE lastUpdate
  /\ UNCHANGED <<hostTime, fqdn, data, updater, loads, failed, crossed, changes>>

SetData(flag) ==
  /\ data' = [flag |-> flag, at |-> hostTime]
  /\ crossed' = (crossed \/ flag # fqdn)

LoadDone(r) ==
  /\ runner[r].at = "load"
  /\ SetData(runner[r].flag)
  /\ runner' = [runner EXCEPT ![r].at = "use"]
  /\ UNCHANGED <<hostTime, fqdn, lastUpdate, updater, loads, failed, changes>>

(* The event is dropped, and the claim of the update stays *)
LoadFailed(r) ==
  /\ runner[r].at = "load"
  /\ failed' = TRUE
  /\ runner' = [runner EXCEPT ![r] = IdleRunner]
  /\ UNCHANGED <<hostTime, fqdn, lastUpdate, data, updater, loads, crossed, changes>>

Enrich(r) ==
  /\ runner[r].at = "use"
  /\ runner' = [runner EXCEPT ![r] = IdleRunner]
  /\ UNCHANGED <<hostTime, fqdn, lastUpdate, data, updater, loads, failed, crossed, changes>>

(* handleFQDNReportingChange, called with the new value in place *)
ChangeFeature ==
  /\ changes < MaxChanges /\ updater = "idle"
  /\ fqdn' = ~fqdn
  /\ changes' = changes + 1
  /\ IF CacheTTL = 0 THEN UNCHANGED <<updater, loads>>
     ELSE /\ updater' = "waiting"
          /\ loads' = loads \cup {[flag |-> ~fqdn, of |-> changes', is |-> "loading"]}
  /\ UNCHANGED <<hostTime, lastUpdate, data, runner, failed, crossed>>

(* The loading goroutine sets the data, or fails, and offers the result on an
   unbuffered channel: once the callback has given up, it stays there. *)
UpdateLoaded(l) ==
  /\ l \in loads /\ l.is = "loading"
  /\ loads' = (loads \ {l}) \cup {[l EXCEPT !.is = "ok"]}
  /\ SetData(l.flag)
  /\ UNCHANGED <<hostTime, fqdn, lastUpdate, runner, updater, failed, changes>>

UpdateFailed(l) ==
  /\ l \in loads /\ l.is = "loading"
  /\ loads' = (loads \ {l}) \cup {[l EXCEPT !.is = "failed"]}
  /\ failed' = TRUE
  /\ UNCHANGED <<hostTime, fqdn, lastUpdate, data, runner, updater, crossed, changes>>

UpdateReceived(l) ==
  /\ l \in loads /\ l.is # "loading" /\ l.of = changes /\ updater = "waiting"
  /\ loads' = loads \ {l}
  /\ updater' = "idle"
  /\ lastUpdate' = IF l.is = "ok" THEN hostTime ELSE 0
  /\ UNCHANGED <<hostTime, fqdn, data, runner, failed, crossed, changes>>

UpdateTimeout ==
  /\ updater = "waiting"
  /\ updater' = "idle"
  /\ lastUpdate' = 0
  /\ UNCHANGED <<hostTime, fqdn, data, runner, loads, failed, crossed, changes>>

HostNext ==
  \/ HostTick \/ ChangeFeature \/ UpdateTimeout
  \/ \E l \in loads : UpdateLoaded(l) \/ UpdateFailed(l) \/ UpdateReceived(l)
  \/ \E r \in Runners : StartRun(r) \/ CheckExpired(r) \/ LoadDone(r) \/ LoadFailed(r) \/ Enrich(r)

----------------------------------------------------------------------------
Loading == \E r \in Runners : runner[r].at = "load"

(* Once a switch of the feature has been handled, what is cached is for its
   new value or is about to be replaced, unless a load that began before the
   switch has overtaken it or a load has failed. *)
NameFollowsFeature ==
  (updater = "idle" /\ ~failed /\ ~crossed /\ CacheTTL > 0) =>
     \/ data.flag = fqdn
     \/ lastUpdate = 0
     \/ Loading

(* While the feature stays as it is, the data are not loaded twice within a
   TTL, however many goroutines find them expired. *)
OneClaimPerTTL ==
  \A r, q \in Runners :
    (r # q /\ runner[r].at = "load" /\ runner[q].at = "load" /\ changes = 0 /\ CacheTTL > 0) =>
       runner[r].claimed + CacheTTL <= runner[q].claimed \/ runner[q].claimed + CacheTTL <= runner[r].claimed
=============================================================================
