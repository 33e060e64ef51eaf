----------------------------- MODULE DataPath ------------------------------
(***************************************************************************)
(* Beat processes that share a data path: the identity kept in meta.json   *)
(* (loadMeta in cmd/instance/beat.go), the lock file of the path           *)
(* (cmd/instance/locks), and the queue that createBeater opens below it.   *)
(* A file has a number; the directory gives the file a name stands for, and*)
(* a process keeps the file it has open when the name is removed.  A       *)
(* process may be killed at any moment, and every step that can fail may   *)
(* fail.  The mode under the agent, which takes no lock, is left out.      *)
(***************************************************************************)
EXTENDS Integers, Sequences, FiniteSets

CONSTANTS
  Beats,      \* processes
  RetryCount, \* attempts to lock the data path, 4 in locks.New
  MaxStarts,  \* bound: processes that are started
  None

VARIABLES
  windows,    \* the platform: Unlock releases the lock before it removes the file; never changes
  dir,        \* files of meta.json, meta.json.new and the lock file, 0 for none
  content,    \* what every file of the identity holds
  lockfiles,  \* lock files created so far
  locked,     \* lock file -> the process that has locked it
  starts,     \* processes started so far; the id a fresh process makes up is its number
  proc,       \* the processes, see NewBeat
  flags       \* what happened: "overlap", "late", "command", "unclosed"

pathVars == <<windows, dir, content, lockfiles, locked, starts, proc, flags>>

Meta(i, first) == [id |-> i, first |-> first]
Empty == Meta(0, FALSE)
Garbage == Meta(-1, FALSE)
IsMeta(c) == c.id > 0

(* A new process makes up an id, which meta.json may replace *)
NewBeat(cmd, n) == [pc |-> "readmeta", cmd |-> cmd, id |-> n, fd |-> 0, tries |-> 0, queue |-> FALSE]
Off == [NewBeat("run", 0) EXCEPT !.pc = "off"]

PathInit ==
  /\ windows \in BOOLEAN
  /\ \/ dir = [meta |-> 0, temp |-> 0, lock |-> 0] /\ content = <<>>
     \/ /\ dir = [meta |-> 1, temp |-> 0, lock |-> 0]
        /\ \E c \in {Meta(100, TRUE), Meta(100, FALSE), Empty, Garbage} : content = <<c>>
  /\ lockfiles = 0 /\ locked = [f \in 1..MaxStarts |-> None]
  /\ starts = 0 /\ proc = [b \in Beats |-> Off] /\ flags = {}

At(b, where) == proc[b].pc = where
Go(b, to) == proc' = [proc EXCEPT ![b].pc = to]
Meanwhile(b, where) == \E o \in Beats \ {b} : proc[o].pc \in where

(* The system closes the files of a process that ends, which releases its lock *)
Ended(b) ==
  /\ proc' = [proc EXCEPT ![b] = Off]
  /\ locked' = [f \in DOMAIN locked |-> IF locked[f] = b THEN None ELSE locked[f]]

Run(b, cmd) ==
  /\ At(b, "off") /\ starts < MaxStarts /\ starts' = starts + 1
  /\ proc' = [proc EXCEPT ![b] = NewBeat(cmd, starts + 1)]
  /\ UNCHANGED <<windows, dir, content, lockfiles, locked, flags>>

Kill(b) == ~At(b, "off") /\ Ended(b) /\ UNCHANGED <<windows, dir, content, lockfiles, starts, flags>>

(***************************** meta.json *********************************)

openRegular == IF dir.meta = 0 THEN Empty ELSE content[dir.meta]

(* An empty file is read as an empty record; what is no record is an error *)
ReadMeta(b) ==
  /\ At(b, "readmeta") /\ UNCHANGED <<windows, dir, content, lockfiles, starts>>
  /\ LET c == openRegular complete == IsMeta(c) /\ c.first
     IN IF c = Garbage THEN Ended(b) /\ UNCHANGED flags
        ELSE /\ proc' = [proc EXCEPT ![b].id = IF IsMeta(c) THEN c.id ELSE @, ![b].pc = IF complete THEN "configure" ELSE "create"]
             /\ flags' = IF ~complete /\ Meanwhile(b, {"create", "encode", "rotate"}) THEN flags \cup {"overlap"} ELSE flags
             /\ UNCHANGED locked

(* The temporary file is truncated when it is there, also when another process writes it *)
CreateTemp(b) ==
  /\ At(b, "create") /\ UNCHANGED <<windows, lockfiles, locked, starts, flags>>
  /\ LET f == IF dir.temp = 0 THEN Len(content) + 1 ELSE dir.temp
     IN /\ dir' = [dir EXCEPT !.temp = f]
        /\ content' = IF dir.temp = 0 THEN Append(content, Empty) ELSE [content EXCEPT ![f] = Empty]
        /\ proc' = [proc EXCEPT ![b].pc = "encode", ![b].fd = f]

(* Encode, Sync and Close; what fails leaves the temporary file behind *)
EncodeMeta(b) ==
  /\ At(b, "encode") /\ UNCHANGED <<windows, dir, lockfiles, starts, flags>>
  /\ \/ /\ content' = [content EXCEPT ![proc[b].fd] = Meta(proc[b].id, TRUE)]
        /\ proc' = [proc EXCEPT ![b].pc = "rotate", ![b].fd = 0] /\ UNCHANGED locked
     \/ content' = [content EXCEPT ![proc[b].fd] = Garbage] /\ Ended(b)

(* SafeFileRotate renames the temporary file over meta.json *)
RotateMeta(b) ==
  /\ At(b, "rotate") /\ UNCHANGED <<windows, content, lockfiles, starts, flags>>
  /\ IF dir.temp = 0 THEN Ended(b) /\ UNCHANGED dir
     ELSE Go(b, "configure") /\ dir' = [dir EXCEPT !.meta = dir.temp, !.temp = 0] /\ UNCHANGED locked

(* The other steps of configure; the commands create the Beater at once *)
Configure(b) ==
  /\ At(b, "configure") /\ UNCHANGED <<windows, dir, content, lockfiles, starts, flags>>
  /\ \/ Go(b, IF proc[b].cmd = "run" THEN "open" ELSE "beater") /\ UNCHANGED locked
     \/ Ended(b)

(***************************** the lock **********************************)

(* TryLock opens the file, or creates it, *)
OpenLock(b) ==
  /\ At(b, "open") /\ UNCHANGED <<windows, content, locked, starts, flags>>
  /\ LET f == IF dir.lock = 0 THEN lockfiles + 1 ELSE dir.lock
     IN /\ dir' = [dir EXCEPT !.lock = f] /\ lockfiles' = IF dir.lock = 0 THEN lockfiles + 1 ELSE lockfiles
        /\ proc' = [proc EXCEPT ![b].pc = "flock", ![b].fd = f]

(* Mutant: the last attempt counts as a success *)
TryLockGivesUp(b) ==
  /\ At(b, "flock") /\ UNCHANGED <<windows, dir, content, lockfiles, starts>>
  /\ IF locked[proc[b].fd] = None
     THEN /\ locked' = [locked EXCEPT ![proc[b].fd] = b] /\ Go(b, "beater")
          /\ flags' = IF dir.lock = proc[b].fd THEN flags ELSE flags \cup {"late"}
     ELSE /\ UNCHANGED <<locked, flags>>
          /\ proc' = [proc EXCEPT ![b].tries = @ + 1, ![b].fd = 0, ![b].pc = IF proc[b].tries + 1 = RetryCount THEN "beater" ELSE "open"]

(* and then tries to lock what it opened; Lock tries again a few times.  "late": the file has lost its name *)
TryLock(b) ==
  /\ At(b, "flock") /\ UNCHANGED <<windows, dir, content, lockfiles, starts>>
  /\ IF locked[proc[b].fd] = None
     THEN /\ locked' = [locked EXCEPT ![proc[b].fd] = b] /\ Go(b, "beater")
          /\ flags' = IF dir.lock = proc[b].fd THEN flags ELSE flags \cup {"late"}
     ELSE /\ UNCHANGED <<locked, flags>>
          /\ proc' = [proc EXCEPT ![b].tries = @ + 1, ![b].fd = 0, ![b].pc = IF proc[b].tries + 1 = RetryCount THEN "exit" ELSE "open"]

(* createBeater opens the queue; the step may fail before or after that *)
CreateBeater(b) ==
  /\ At(b, "beater") /\ UNCHANGED <<windows, dir, content, lockfiles, locked, starts>>
  /\ \/ Go(b, "unlock") /\ UNCHANGED flags
     \/ /\ \E to \in {"run", "unlock"} : proc' = [proc EXCEPT ![b].queue = TRUE, ![b].pc = to]
        /\ flags' = IF proc[b].cmd = "run" THEN flags ELSE flags \cup {"command"}

(* Run ends: stopBeat closes the publisher before, but Run may also return by itself *)
EndRun(b) ==
  /\ At(b, "run") /\ \E open \in BOOLEAN : proc' = [proc EXCEPT ![b].queue = open, ![b].pc = "unlock"]
  /\ UNCHANGED <<windows, dir, content, lockfiles, locked, starts, flags>>

Remove == dir' = [dir EXCEPT !.lock = 0]
Release(b) == locked' = [locked EXCEPT ![proc[b].fd] = None]

(* Unlock removes the file and then releases the lock; on Windows it is the
   other way round, and a file that somebody has open is not removed *)
UnlockFirst(b) ==
  /\ At(b, "unlock") /\ UNCHANGED <<windows, content, lockfiles, starts>>
  /\ IF proc[b].cmd # "run" THEN Go(b, "exit") /\ UNCHANGED <<dir, locked, flags>>
     ELSE /\ Go(b, "unlock2")
          /\ flags' = IF proc[b].queue THEN flags \cup {"unclosed"} ELSE flags
          /\ IF windows THEN Release(b) /\ UNCHANGED dir ELSE Remove /\ UNCHANGED locked

UnlockSecond(b) ==
  /\ At(b, "unlock2") /\ proc' = [proc EXCEPT ![b].pc = "exit", ![b].fd = 0]
  /\ IF windows
     THEN /\ (IF \E o \in Beats \ {b} : proc[o].pc \in {"flock", "beater", "run", "unlock", "unlock2"} /\ proc[o].fd = dir.lock THEN UNCHANGED dir ELSE Remove)
          /\ UNCHANGED locked
     ELSE Release(b) /\ UNCHANGED dir
  /\ UNCHANGED <<windows, content, lockfiles, starts, flags>>

Exit(b) == At(b, "exit") /\ Ended(b) /\ UNCHANGED <<windows, dir, content, lockfiles, starts, flags>>

PathNext ==
  \E b \in Beats :
    \/ \E cmd \in {"run", "test"} : Run(b, cmd)
    \/ Kill(b)
    \/ ReadMeta(b)
    \/ CreateTemp(b)
    \/ EncodeMeta(b)
    \/ RotateMeta(b)
    \/ Configure(b)
    \/ OpenLock(b)
    \/ TryLock(b)
    \/ CreateBeater(b)
    \/ EndRun(b)
    \/ UnlockFirst(b)
    \/ UnlockSecond(b)
    \/ Exit(b)

(***************************** properties ********************************)

Stored == IF dir.meta # 0 /\ IsMeta(content[dir.meta]) THEN content[dir.meta].id ELSE 0

(* A Beat that runs has the identity that meta.json holds, whatever earlier
   processes left behind, unless two processes created the file at the same
   time: loadMeta runs before the data path is locked *)
RunningIdentity ==
  "overlap" \in flags \/ \A b \in Beats : At(b, "run") => Stored = proc[b].id

(* The identity, once stored, is never replaced: not by a start after a crash
   between the writing of the temporary file and its renaming, not by the
   completion of a record of an older version *)
IdentityIsKept ==
  Stored # 0 /\ "overlap" \notin flags' => Stored' = Stored

Owners == {b \in Beats : proc[b].cmd = "run" /\ proc[b].pc \in {"beater", "run", "unlock"}}

(* Two Beats do not work on the data path, unless one of them locked a file
   that its owner had removed between the other's open and lock *)
PathIsExclusive ==
  "late" \in flags \/ Cardinality(Owners) <= 1

(* lock.go: "If another Beats instance already has a lock on the same data
   path an ErrAlreadyLocked error is returned." *)
PathLockedOnce == Cardinality(Owners) <= 1

(* The queue is open in one process at a time, with two more exceptions: a Beat
   that is run to check the configuration or to set up the services creates
   the pipeline without the lock, and a launch that fails or whose Beater
   returns by itself gives up the lock without closing the publisher *)
QueueIsExclusive ==
  flags \cap {"late", "command", "unclosed"} # {} \/ Cardinality({b \in Beats : proc[b].queue}) <= 1

=============================================================================
