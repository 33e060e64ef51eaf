------------------------------- MODULE MemLog -------------------------------
(***************************************************************************)
(* The memlog backend of the state store, statestore/backend/memlog: a     *)
(* table in memory, an update log, and checkpoints of the whole table in   *)
(* data files named by transaction id.  The process may be killed and the  *)
(* machine may fail between any two steps; any file operation may fail.    *)
(*                                                                         *)
(* Set, Remove and Checkpoint run under the lock of the store, so one      *)
(* operation is under way at a time, and pc is where it stands.            *)
(***************************************************************************)
EXTENDS Integers, Sequences, FiniteSets

CONSTANTS
  Key, Value,
  Unencodable,     \* values the JSON encoder refuses, such as NaN
  Absent,          \* no value
  Garbage,         \* bytes in the log that are no entry
  NoOp,            \* no operation to log: an explicit Checkpoint
  CheckpointSize,  \* the predicate: checkpoint when the log has this size
  IDSpace,         \* 2^64, the number of transaction ids
  FirstIDs,        \* ids of the data file the directory starts with
  Faults,          \* what may fail
  MaxOps,          \* bound: operations
  MaxFaults        \* bound: faults, crashes included

ASSUME MemLogAssumption ==
  /\ Unencodable \subseteq Value
  /\ Absent \notin Value
  /\ CheckpointSize \in Nat \ {0}
  /\ IDSpace \in Nat \ {0} /\ FirstIDs \subseteq 0..(IDSpace - 1)
  /\ Faults \subseteq {"open", "write", "truncate", "checkpoint", "rename", "remove",
                       "kill", "outage", "corrupt"}
  /\ MaxOps \in Nat /\ MaxFaults \in Nat

TxID == 0..(IDSpace - 1)

Table == [Key -> Value \cup {Absent}]

EmptyTable == [k \in Key |-> Absent]

VARIABLES
  \* on disk
  home, dataFiles, log,
  \* store and diskstore
  pc, mem, op, nextTxID, logFile, logFileSize, logInvalid, logNeedsTruncate,
  activeDataFile, oldDataFiles,
  \* logBuf: an error it remembers, bytes of an entry that was given up
  bufFailed, bufStale,
  \* openStore: the entry of the log that is next, the last id seen
  loadPos, txid,
  \* history: the tables there were, the one in memory, the last one reported
  \* as stored, the last one known to be synced, how many entries of the log are
  \* synced too, whether a data file was ever damaged
  versions, version, acked, synced, syncedLog, damaged,
  ops, faults

diskVars == <<home, dataFiles, log>>
fileVars == <<activeDataFile, oldDataFiles>>
bufVars == <<bufFailed, bufStale>>
logVars == <<logFile, logFileSize, logInvalid, logNeedsTruncate, bufVars>>
loadVars == <<loadPos, txid>>
pastVars == <<versions, acked, synced, syncedLog, damaged>>
vars == <<diskVars, pc, mem, op, nextTxID, logVars, fileVars, loadVars, pastVars,
          version, ops, faults>>

\* A data file and a log entry.  version is history: the table of the file, and
\* the table after the entry.
DataFile == [txid : TxID, table : Table, version : Nat, decodes : BOOLEAN]
Entry == [id : TxID, key : Key, value : Value \cup {Absent}, version : Nat]

Init ==
  /\ \/ home = "none" /\ dataFiles = {}
     \/ /\ home = "ready"
        /\ \E id \in FirstIDs :
             dataFiles = {[txid |-> id, table |-> EmptyTable, version |-> 1, decodes |-> TRUE]}
  /\ log = <<>>
  /\ pc = "down" /\ mem = EmptyTable /\ op = NoOp /\ nextTxID = 0
  /\ logFile = "nil" /\ logFileSize = 0 /\ logInvalid = FALSE
  /\ logNeedsTruncate = FALSE /\ bufFailed = FALSE /\ bufStale = FALSE
  /\ activeDataFile = {} /\ oldDataFiles = <<>>
  /\ loadPos = 1 /\ txid = 0
  /\ versions = <<EmptyTable>> /\ version = 1 /\ acked = 1 /\ synced = 1 /\ syncedLog = 0
  /\ damaged = FALSE
  /\ ops = 0 /\ faults = 0

\* A file operation of this kind fails.
Fails(kind) == kind \in Faults /\ faults < MaxFaults /\ faults' = faults + 1

Succeeds == UNCHANGED faults

-----------------------------------------------------------------------------
(* Opening the store                                                       *)

IsTxIDLessEqual(a, b) ==
  LET distance == (a - b) % IDSpace
  IN distance = 0 \/ 2 * distance >= IDSpace

NextID(id) == (id + 1) % IDSpace

\* listDataFiles: in the order of their ids.
ListDataFiles ==
  CHOOSE s \in [1..Cardinality(dataFiles) -> {f.txid : f \in dataFiles}] :
    \A i, j \in DOMAIN s : i < j => s[i] # s[j] /\ IsTxIDLessEqual(s[i], s[j])

MakeHome ==
  /\ pc = "down" /\ home = "none"
  /\ home' = "made" /\ pc' = "meta"
  /\ Succeeds
  /\ UNCHANGED <<dataFiles, log, mem, op, nextTxID, logVars, fileVars, loadVars,
                 pastVars, version, ops>>

WriteMetaFile ==
  /\ pc = "meta"
  /\ home' = "ready" /\ pc' = "down"
  /\ Succeeds
  /\ UNCHANGED <<dataFiles, log, mem, op, nextTxID, logVars, fileVars, loadVars,
                 pastVars, version, ops>>

\* The newest data file is loaded; one that does not decode is renamed, and its
\* id is kept as the last one seen.
LoadDataFile ==
  /\ pc = "down" /\ home = "ready"
  /\ pc' = "load" /\ loadPos' = 1
  /\ LET files == ListDataFiles
         n == Len(files)
         active == CHOOSE f \in dataFiles : f.txid = files[n]
     IN IF n = 0
        THEN /\ mem' = EmptyTable /\ txid' = 0 /\ version' = 1
             /\ activeDataFile' = {} /\ oldDataFiles' = <<>>
             /\ UNCHANGED dataFiles /\ Succeeds
        ELSE /\ txid' = active.txid
             /\ activeDataFile' = {active.txid}
             /\ oldDataFiles' = SubSeq(files, 1, n - 1)
             /\ \/ /\ active.decodes
                   /\ mem' = active.table /\ version' = active.version
                   /\ Succeeds /\ UNCHANGED dataFiles
                \/ /\ ~active.decodes
                   /\ mem' = EmptyTable /\ version' = 0
                   /\ \/ Succeeds /\ dataFiles' = dataFiles \ {active}
                      \/ Fails("rename") /\ UNCHANGED dataFiles
  /\ UNCHANGED <<home, log, op, nextTxID, logVars, pastVars, ops>>

\* Mutant: entries older than the data file are applied too.
LoadEntryOld ==
  /\ pc = "load" /\ loadPos <= Len(log)
  /\ log[loadPos] # Garbage
  /\ txid' = log[loadPos].id
  /\ mem' = [mem EXCEPT ![log[loadPos].key] = log[loadPos].value]
  /\ version' = IF version = 0 THEN 0 ELSE log[loadPos].version
  /\ loadPos' = loadPos + 1
  /\ Succeeds
  /\ UNCHANGED <<diskVars, pc, op, nextTxID, logVars, fileVars, pastVars, ops>>

\* One entry of loadLogFile.
LoadEntry ==
  /\ pc = "load" /\ loadPos <= Len(log)
  /\ log[loadPos] # Garbage
  /\ LET entry == log[loadPos]
     IN \/ /\ IsTxIDLessEqual(entry.id, txid)
           /\ UNCHANGED <<txid, mem, version>>
        \/ /\ ~IsTxIDLessEqual(entry.id, txid)
           /\ entry.id = NextID(txid)
           /\ txid' = entry.id
           /\ mem' = [mem EXCEPT ![entry.key] = entry.value]
           /\ version' = IF version = 0 THEN 0 ELSE entry.version
  /\ loadPos' = loadPos + 1
  /\ Succeeds
  /\ UNCHANGED <<diskVars, pc, op, nextTxID, logVars, fileVars, pastVars, ops>>

\* The log ends, or an entry does not decode or is not the next one.
LogIsRead == loadPos > Len(log)
LogIsBroken ==
  /\ ~LogIsRead
  /\ \/ log[loadPos] = Garbage
     \/ /\ log[loadPos] # Garbage
        /\ ~IsTxIDLessEqual(log[loadPos].id, txid)
        /\ log[loadPos].id # NextID(txid)

\* newDiskStore.  A log that cannot be opened is tried again by the first
\* operation.  What is left when a data file did not decode is a new version of
\* the table (version is 0 until then).
NewDiskStore ==
  /\ pc = "load" /\ (LogIsRead \/ LogIsBroken)
  /\ pc' = "ready"
  /\ nextTxID' = NextID(txid)
  /\ logInvalid' = LogIsBroken
  /\ logNeedsTruncate' = FALSE /\ bufFailed' = FALSE /\ bufStale' = FALSE
  /\ \/ Succeeds /\ logFile' = "open" /\ logFileSize' = Len(log)
     \/ Fails("open") /\ logFile' = "nil" /\ logFileSize' = 0
  /\ IF version = 0
     THEN /\ versions' = Append(versions, mem)
          /\ version' = Len(versions') /\ acked' = Len(versions')
     ELSE UNCHANGED <<versions, version, acked>>
  /\ UNCHANGED <<diskVars, mem, op, fileVars, loadVars, synced, syncedLog, damaged,
                 ops>>

-----------------------------------------------------------------------------
(* Set, Remove and Checkpoint                                              *)

MustCheckpoint == logInvalid \/ logFileSize >= CheckpointSize

\* Set, and Remove for the value Absent: the table first, then the disk.
Update(key, value) ==
  /\ pc = "ready" /\ ops < MaxOps
  /\ mem' = [mem EXCEPT ![key] = value]
  /\ versions' = Append(versions, mem')
  /\ version' = Len(versions')
  /\ op' = [key |-> key, value |-> value]
  /\ pc' = IF MustCheckpoint THEN "tmpfile" ELSE "log"
  /\ ops' = ops + 1
  /\ Succeeds
  /\ UNCHANGED <<diskVars, nextTxID, logVars, fileVars, loadVars, acked, synced, syncedLog,
                 damaged>>

Checkpoint ==
  /\ pc = "ready" /\ ops < MaxOps
  /\ op' = NoOp
  /\ pc' = "tmpfile"
  /\ ops' = ops + 1
  /\ Succeeds
  /\ UNCHANGED <<diskVars, mem, nextTxID, logVars, fileVars, loadVars, pastVars, version>>

\* The operation returns, and reports whether the table is stored.
Return(ok) ==
  /\ pc' = "ready" /\ op' = NoOp
  /\ acked' = IF ok THEN version ELSE acked

\* tryOpenLog opens the log, if it is not open.
OpenLog ==
  IF logFile = "nil" /\ logNeedsTruncate THEN <<>> ELSE log

OpenedSize ==
  IF logFile = "nil" THEN Len(OpenLog) ELSE logFileSize

LogEntry == [id |-> nextTxID, key |-> op.key, value |-> op.value, version |-> version]

\* The log is not used, or it cannot be opened.
LogRefused ==
  /\ pc \in {"log", "fallback"}
  /\ \/ logInvalid /\ Succeeds
     \/ ~logInvalid /\ logFile = "nil" /\ Fails("open")
  /\ logInvalid' = TRUE
  /\ Return(FALSE)
  /\ UNCHANGED <<diskVars, mem, nextTxID, logFile, logFileSize, logNeedsTruncate, bufVars,
                 fileVars, loadVars, versions, synced, syncedLog, damaged, version, ops>>

\* The log is open, or is opened now.
LogUsed ==
  /\ pc \in {"log", "fallback"} /\ ~logInvalid
  /\ logFile' = "open" /\ logNeedsTruncate' = FALSE
  /\ syncedLog' = IF OpenLog = <<>> THEN 0 ELSE syncedLog
  /\ UNCHANGED <<home, dataFiles, mem, fileVars, loadVars, versions, synced, damaged,
                 version, ops>>

\* A new buffer is made when the log is opened.
BufFailed == logFile = "open" /\ bufFailed
BufStale == logFile = "open" /\ bufStale

\* LogOperation appends the entry, after what was left in the buffer.
LogWritten ==
  /\ LogUsed /\ ~BufFailed /\ op.value \notin Unencodable
  /\ log' = (IF BufStale THEN Append(OpenLog, Garbage) ELSE OpenLog) \o <<LogEntry>>
  /\ logFileSize' = OpenedSize + 1
  /\ nextTxID' = NextID(nextTxID)
  /\ bufFailed' = FALSE /\ bufStale' = FALSE
  /\ Return(pc = "log")
  /\ Succeeds
  /\ UNCHANGED logInvalid

\* The entry does not encode: its first bytes stay in the buffer.
LogNotEncoded ==
  /\ LogUsed /\ ~BufFailed /\ op.value \in Unencodable
  /\ log' = OpenLog
  /\ logFileSize' = OpenedSize + 1
  /\ bufFailed' = FALSE /\ bufStale' = TRUE
  /\ logInvalid' = TRUE
  /\ Return(FALSE)
  /\ Succeeds
  /\ UNCHANGED nextTxID

\* The file does not take all of the entry, and the buffer remembers the error;
\* or it remembers one from an earlier entry.
LogNotWritten ==
  /\ LogUsed
  /\ \/ BufFailed /\ log' = log /\ logFileSize' = logFileSize /\ Succeeds
     \/ /\ ~BufFailed /\ Fails("write")
        /\ \/ log' \in {OpenLog, Append(OpenLog, Garbage)}
           \/ ~BufStale /\ log' = Append(OpenLog, LogEntry)
        /\ logFileSize' = OpenedSize + 1
  /\ bufFailed' = TRUE /\ bufStale' = BufStale
  /\ logInvalid' = TRUE
  /\ Return(FALSE)
  /\ UNCHANGED nextTxID

-----------------------------------------------------------------------------
(* WriteCheckpoint                                                         *)

\* An update falls back on the log.
CheckpointFails ==
  /\ IF op = NoOp THEN Return(FALSE) ELSE pc' = "fallback" /\ UNCHANGED <<op, acked>>
  /\ UNCHANGED <<diskVars, mem, nextTxID, logVars, fileVars, loadVars, versions, synced,
                 syncedLog, damaged, version, ops>>

CheckpointTmpFile ==
  /\ pc = "tmpfile"
  /\ \A k \in Key : mem[k] \notin Unencodable
  /\ pc' = "rename"
  /\ Succeeds
  /\ UNCHANGED <<diskVars, mem, op, nextTxID, logVars, fileVars, loadVars, pastVars,
                 version, ops>>

CheckpointTmpFileFails ==
  /\ pc = "tmpfile"
  /\ \/ (\E k \in Key : mem[k] \in Unencodable) /\ Succeeds
     \/ Fails("checkpoint")
  /\ CheckpointFails

\* The table is on disk, and is synced, once the file has its name.
CheckpointRename ==
  /\ pc = "rename"
  /\ dataFiles' = {f \in dataFiles : f.txid # nextTxID} \cup
                    {[txid |-> nextTxID, table |-> mem, version |-> version,
                      decodes |-> TRUE]}
  /\ synced' = version
  /\ pc' = "clear"
  /\ Succeeds
  /\ UNCHANGED <<home, log, mem, op, nextTxID, logVars, fileVars, loadVars, versions, acked,
                 syncedLog, damaged, version, ops>>

CheckpointRenameFails ==
  /\ pc = "rename"
  /\ Fails("checkpoint")
  /\ CheckpointFails

\* Mutant: the id of the checkpoint is used again.
CheckpointActivatesSameID ==
  /\ pc = "clear"
  /\ pc' = "remove"
  /\ oldDataFiles' = oldDataFiles \o
       (IF activeDataFile = {} THEN <<>> ELSE <<CHOOSE id \in activeDataFile : TRUE>>)
  /\ activeDataFile' = {nextTxID}
  /\ UNCHANGED <<home, dataFiles, nextTxID, mem, op, bufVars, loadVars, versions, acked,
                 synced, damaged, version, ops>>

\* What follows checkpointClearLog.
CheckpointActivates ==
  /\ pc = "clear"
  /\ pc' = "remove"
  /\ nextTxID' = NextID(nextTxID)
  /\ oldDataFiles' = oldDataFiles \o
       (IF activeDataFile = {} THEN <<>> ELSE <<CHOOSE id \in activeDataFile : TRUE>>)
  /\ activeDataFile' = {nextTxID}
  /\ UNCHANGED <<home, dataFiles, mem, op, bufVars, loadVars, versions, acked, synced,
                 damaged, version, ops>>

CheckpointClearLog ==
  /\ CheckpointActivates /\ logFile = "open"
  /\ log' = <<>> /\ syncedLog' = 0
  /\ logFileSize' = 0
  /\ \/ Succeeds /\ logInvalid' = FALSE /\ UNCHANGED <<logFile, logNeedsTruncate>>
     \/ Fails("truncate") /\ logInvalid' = TRUE /\ logFile' = "nil" /\ logNeedsTruncate' = TRUE

\* The log is not open, or cannot be truncated.
CheckpointKeepsLog ==
  /\ CheckpointActivates
  /\ \/ logFile = "nil" /\ Succeeds /\ UNCHANGED <<logInvalid, logFileSize>>
     \/ logFile = "open" /\ Fails("truncate") /\ logInvalid' = TRUE /\ logFileSize' = 0
  /\ logFile' = "nil" /\ logNeedsTruncate' = TRUE
  /\ UNCHANGED <<log, syncedLog>>

\* removeOldDataFiles, up to the first that cannot be removed.
RemoveOldDataFiles(n) ==
  /\ pc = "remove" /\ n <= Len(oldDataFiles)
  /\ IF n = Len(oldDataFiles) THEN Succeeds ELSE Fails("remove")
  /\ dataFiles' = {f \in dataFiles : \A i \in 1..n : f.txid # oldDataFiles[i]}
  /\ oldDataFiles' = SubSeq(oldDataFiles, n + 1, Len(oldDataFiles))
  /\ Return(TRUE)
  /\ UNCHANGED <<home, log, mem, nextTxID, logVars, activeDataFile, loadVars, versions,
                 synced, syncedLog, damaged, version, ops>>

-----------------------------------------------------------------------------
(* The end of the process                                                  *)

\* What the process had in memory is gone.
ProcessEnds ==
  /\ pc' = "down" /\ mem' = EmptyTable /\ op' = NoOp /\ nextTxID' = 0
  /\ logFile' = "nil" /\ logFileSize' = 0 /\ logInvalid' = FALSE
  /\ logNeedsTruncate' = FALSE /\ bufFailed' = FALSE /\ bufStale' = FALSE
  /\ activeDataFile' = {} /\ oldDataFiles' = <<>>
  /\ loadPos' = 1 /\ txid' = 0 /\ version' = 1
  /\ UNCHANGED <<home, dataFiles, damaged, versions, ops>>

\* Close flushes and syncs the log.
Close ==
  /\ pc = "ready" /\ ProcessEnds
  /\ log' = IF BufStale /\ ~BufFailed THEN Append(log, Garbage) ELSE log
  /\ IF logFile = "open" /\ ~bufFailed
     THEN syncedLog' = Len(log') /\ synced' = acked
     ELSE UNCHANGED <<syncedLog, synced>>
  /\ Succeeds
  /\ UNCHANGED acked

\* The process is killed.  An entry under way may be in the log in part.
Kill ==
  /\ pc # "down" /\ Fails("kill") /\ ProcessEnds
  /\ \/ UNCHANGED <<log, syncedLog>>
     \/ /\ pc \in {"log", "fallback"} /\ ~logInvalid /\ ~BufFailed
        /\ log' \in {OpenLog, Append(OpenLog, Garbage)}
        /\ syncedLog' = IF OpenLog = <<>> THEN 0 ELSE syncedLog
  /\ UNCHANGED <<acked, synced>>

\* The machine fails: the part of the log that was not synced may be lost.
Outage ==
  /\ Fails("outage") /\ ProcessEnds
  /\ \E n \in syncedLog..Len(log) : log' = SubSeq(log, 1, n)
  /\ acked' = synced
  /\ UNCHANGED <<synced, syncedLog>>

\* A data file is damaged while the process is down.
Corrupt ==
  /\ pc = "down" /\ Fails("corrupt")
  /\ \E f \in dataFiles : dataFiles' = (dataFiles \ {f}) \cup {[f EXCEPT !.decodes = FALSE]}
  /\ damaged' = TRUE
  /\ UNCHANGED <<home, log, pc, mem, op, nextTxID, logVars, fileVars, loadVars, versions,
                 acked, synced, syncedLog, version, ops>>

-----------------------------------------------------------------------------
Open == MakeHome \/ WriteMetaFile \/ LoadDataFile \/ LoadEntry \/ NewDiskStore

LogOperation == LogRefused \/ LogWritten \/ LogNotEncoded \/ LogNotWritten

WriteCheckpoint ==
  \/ CheckpointTmpFile \/ CheckpointTmpFileFails
  \/ CheckpointRename \/ CheckpointRenameFails
  \/ CheckpointClearLog \/ CheckpointKeepsLog
  \/ \E n \in 0..Len(oldDataFiles) : RemoveOldDataFiles(n)

Next ==
  \/ Open
  \/ \E k \in Key, v \in Value \cup {Absent} : Update(k, v)
  \/ Checkpoint \/ LogOperation \/ WriteCheckpoint
  \/ Close \/ Kill \/ Outage \/ Corrupt

Spec == Init /\ [][Next]_vars

-----------------------------------------------------------------------------
(* Properties                                                              *)

\* Every variable has its type.
TypeOK ==
  /\ home \in {"none", "made", "ready"}
  /\ dataFiles \subseteq DataFile /\ damaged \in BOOLEAN
  /\ log \in Seq(Entry \cup {Garbage})
  /\ pc \in {"down", "meta", "load", "ready", "log", "fallback", "tmpfile", "rename",
             "clear", "remove"}
  /\ mem \in Table
  /\ op \in [key : Key, value : Value \cup {Absent}] \cup {NoOp}
  /\ {nextTxID, txid} \subseteq TxID
  /\ logFile \in {"open", "nil"} /\ logFileSize \in Nat
  /\ {logInvalid, logNeedsTruncate, bufFailed, bufStale} \subseteq BOOLEAN
  /\ activeDataFile \subseteq TxID /\ Cardinality(activeDataFile) <= 1
  /\ oldDataFiles \in Seq(TxID)
  /\ loadPos \in Nat \ {0}
  /\ versions \in Seq(Table) /\ version \in 0..Len(versions)
  /\ acked \in 1..Len(versions) /\ synced \in 1..Len(versions) /\ syncedLog \in 0..Len(log)

\* Package memlog: "When opening the store we read up until it is possible,
\* reconstructing a last known valid state".  The table in memory is always one
\* that a sequence of updates produced: no update is missing below a later one
\* that was applied, whatever failed in between, short of a damaged data file.
TableIsAVersion ==
  pc \notin {"down", "meta", "load"} /\ ~damaged => mem = versions[version]

\* "Ordinary restarts should not lead to any problems."  An update that was
\* reported as stored is still there after the process ended, in whatever way,
\* and after an outage if it was synced.
OrdinaryRestarts == pc = "ready" => version >= acked \/ mem = versions[acked]

\* No data file was damaged, and no value was set that does not encode.
Undisturbed ==
  ~damaged /\ \A i \in DOMAIN versions : \A k \in Key : versions[i][k] \notin Unencodable

\* As long as no data file was damaged and every value encodes, openStore finds
\* every update that Set, Remove or Checkpoint reported as stored, whatever
\* operations on files failed and wherever the process was killed.
StoredSurvives == Undisturbed => OrdinaryRestarts

\* "Older data files will continiously tried to be cleaned up on checkpoint
\* operations": no data file is forgotten.
DataFilesTracked ==
  pc = "ready" =>
    \A f \in dataFiles :
      f.txid \in activeDataFile \/ \E i \in 1..Len(oldDataFiles) : f.txid = oldDataFiles[i]
=============================================================================
