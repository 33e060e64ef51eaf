--------------------------- MODULE StoreRegistry ---------------------------
(***************************************************************************)
(* The registry of state stores, statestore/registry.go and store.go: a    *)
(* store is opened by name, shared by its users and closed with the last.  *)
(*                                                                         *)
(* A user is a goroutine with its own Store, on which others may run       *)
(* operations.  What runs under Registry.mu is one step, and so is an      *)
(* atomic operation on refCount.                                           *)
(***************************************************************************)
EXTENDS Integers, FiniteSets

CONSTANTS
  Users, Names,
  MaxShared,    \* bound: how many sharedStores are made
  MaxOps,       \* bound: operations running on one Store
  NoStore

VARIABLES
  active,       \* Registry.active: the sharedStore of each name
  made,         \* the number of sharedStores made so far; they are 1..made
  refCount, backendOpen,  \* of each sharedStore
  user,         \* each user: where it is, its Store and the operations on it
  waiting,      \* the counter of Registry.wg
  waited,       \* Close: the sharedStores made when its Wait returned
  registryClosed, panicked,
  revived       \* history: Get has found a sharedStore that nobody held

registryVars ==
  <<active, made, refCount, backendOpen, user, waiting, waited, registryClosed, panicked, revived>>

Shared == 1..MaxShared

IdleUser == [pc |-> "idle", shared |-> NoStore, name |-> NoStore, ops |-> 0]

RegistryInit ==
  /\ active = [n \in Names |-> NoStore] /\ made = 0
  /\ refCount = [s \in Shared |-> 0] /\ backendOpen = {}
  /\ user = [u \in Users |-> IdleUser]
  /\ waiting = 0 /\ waited = NoStore
  /\ registryClosed = FALSE /\ panicked = FALSE /\ revived = FALSE

\* The backend opens the store, which it refuses once it is closed.  newSharedStore
\* counts a reference and newStore another; Get releases the first when it returns.
GetNew(u, name) ==
  /\ user[u].pc = "idle" /\ active[name] = NoStore
  /\ ~registryClosed /\ made < MaxShared
  /\ made' = made + 1
  /\ active' = [active EXCEPT ![name] = made + 1]
  /\ refCount' = [refCount EXCEPT ![made + 1] = 1]
  /\ backendOpen' = backendOpen \cup {made + 1}
  /\ user' = [user EXCEPT ![u] = [pc |-> "open", shared |-> made + 1, name |-> name, ops |-> 0]]
  /\ waiting' = waiting + 1
  /\ UNCHANGED <<waited, registryClosed, panicked, revived>>

\* Mutant: the new Store is not counted.
GetSharedUncounted(u, name) ==
  /\ user[u].pc = "idle" /\ active[name] # NoStore
  /\ user' = [user EXCEPT ![u] = [pc |-> "open", shared |-> active[name], name |-> name, ops |-> 0]]
  /\ UNCHANGED <<active, made, refCount, backendOpen, waiting, waited, registryClosed, panicked, revived>>

GetShared(u, name) ==
  /\ user[u].pc = "idle" /\ active[name] # NoStore
  /\ LET s == active[name]
     IN /\ refCount' = [refCount EXCEPT ![s] = @ + 1]
        /\ user' = [user EXCEPT ![u] = [pc |-> "open", shared |-> s, name |-> name, ops |-> 0]]
        /\ revived' = (revived \/ refCount[s] = 0)
  /\ UNCHANGED <<active, made, backendOpen, waiting, waited, registryClosed, panicked>>

\* Has, Get, Set, Remove and Each enter Store.active and leave it.
BeginOp(u) ==
  /\ user[u].pc = "open" /\ user[u].ops < MaxOps
  /\ user' = [user EXCEPT ![u].ops = @ + 1]
  /\ UNCHANGED <<active, made, refCount, backendOpen, waiting, waited, registryClosed, panicked, revived>>

EndOp(u) ==
  /\ user[u].ops > 0
  /\ user' = [user EXCEPT ![u].ops = @ - 1]
  /\ UNCHANGED <<active, made, refCount, backendOpen, waiting, waited, registryClosed, panicked, revived>>

\* Close lets no further operation in, then waits for those that are running.
CloseStore(u) ==
  /\ user[u].pc = "open"
  /\ user' = [user EXCEPT ![u].pc = "closing"]
  /\ UNCHANGED <<active, made, refCount, backendOpen, waiting, waited, registryClosed, panicked, revived>>

\* Release: the last reference is given up.
Release(u) ==
  /\ user[u].pc = "closing" /\ user[u].ops = 0
  /\ LET s == user[u].shared
     IN /\ refCount' = [refCount EXCEPT ![s] = @ - 1]
        /\ user' = [user EXCEPT ![u] = IF refCount[s] = 1 THEN [@ EXCEPT !.pc = "unregister"]
                                       ELSE IdleUser]
  /\ UNCHANGED <<active, made, backendOpen, waiting, waited, registryClosed, panicked, revived>>

\* tryUnregister: the store may have been retained in the meantime.
TryUnregister(u) ==
  /\ user[u].pc = "unregister"
  /\ \/ /\ refCount[user[u].shared] > 0
        /\ user' = [user EXCEPT ![u] = IdleUser]
        /\ UNCHANGED <<active, waiting, panicked>>
     \/ /\ refCount[user[u].shared] = 0 /\ active[user[u].name] # NoStore
        /\ active' = [active EXCEPT ![user[u].name] = NoStore]
        /\ waiting' = waiting - 1
        /\ user' = [user EXCEPT ![u].pc = "close backend"]
        /\ UNCHANGED panicked
     \/ /\ refCount[user[u].shared] = 0 /\ active[user[u].name] = NoStore
        /\ user' = [user EXCEPT ![u] = IdleUser]
        /\ panicked' = TRUE
        /\ UNCHANGED <<active, waiting>>
  /\ UNCHANGED <<made, refCount, backendOpen, waited, registryClosed, revived>>

CloseBackend(u) ==
  /\ user[u].pc = "close backend"
  /\ backendOpen' = backendOpen \ {user[u].shared}
  /\ user' = [user EXCEPT ![u] = IdleUser]
  /\ UNCHANGED <<active, made, refCount, waiting, waited, registryClosed, panicked, revived>>

\* Registry.Close waits until no store is registered, and then closes the backend.
CloseRegistryWaits ==
  /\ waited = NoStore /\ waiting = 0
  /\ waited' = made
  /\ UNCHANGED <<active, made, refCount, backendOpen, user, waiting, registryClosed, panicked,
                 revived>>

CloseRegistry ==
  /\ waited # NoStore /\ ~registryClosed
  /\ registryClosed' = TRUE
  /\ UNCHANGED <<active, made, refCount, backendOpen, user, waiting, waited, panicked, revived>>

RegistryProgress ==
  \E u \in Users : EndOp(u) \/ Release(u) \/ TryUnregister(u) \/ CloseBackend(u)

RegistryNext ==
  \/ \E u \in Users, name \in Names : GetNew(u, name) \/ GetShared(u, name)
  \/ \E u \in Users : BeginOp(u) \/ CloseStore(u)
  \/ RegistryProgress
  \/ CloseRegistryWaits \/ CloseRegistry

-----------------------------------------------------------------------------

RegistryTypeOK ==
  /\ active \in [Names -> Shared \cup {NoStore}]
  /\ made \in 0..MaxShared
  /\ refCount \in [Shared -> Int] /\ backendOpen \subseteq Shared
  /\ user \in [Users -> [pc : {"idle", "open", "closing", "unregister", "close backend"},
                         shared : Shared \cup {NoStore}, name : Names \cup {NoStore}, ops : Nat]]
  /\ waiting \in Int /\ waited \in 0..MaxShared \cup {NoStore}
  /\ {registryClosed, panicked, revived} \subseteq BOOLEAN

\* Store: "The backend will be closed only after the last instance have been closed."
\* An operation of a Store runs on an open backend, and so does every Store that
\* was not closed; unless Get came between the last release and the removal.
InUseIsOpen ==
  revived \/ \A u \in Users : user[u].pc \in {"open", "closing"} \/ user[u].ops > 0
                               => user[u].shared \in backendOpen

\* unregisterStore asserts that the store is known: nobody removes a store that
\* was removed already, and no two users close the same backend.
RemovedOnce ==
  revived \/
    /\ ~panicked
    /\ \A u, v \in Users :
         {user[u].pc, user[v].pc} \subseteq {"unregister", "close backend"}
           => u = v \/ user[u].shared # user[v].shared

\* Registry: "Close blocks until all stores in use are closed".  When the backend is closed
\* no store is in use.
ClosedMeansUnused ==
  registryClosed => \A u \in Users : user[u].pc \notin {"open", "closing"}

\* What holds: a store in use once Close has waited was opened after that, when Get could
\* still slip in before the backend was closed; unless Get came between the last release
\* and the removal.
ClosedRegistryIsUnused ==
  revived \/ waited = NoStore
    \/ \A u \in Users : user[u].pc \in {"open", "closing"} => user[u].shared > waited

=============================================================================
