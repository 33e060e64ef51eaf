------------------------------- MODULE MCDisk -------------------------------
(***************************************************************************)
(* The instance TLC checks of what the Beat keeps on disk, the state store *)
(* and the disk queue, for their safety properties and with their faults.  *)
(* A behaviour is one of the component that `part` names; the variables of *)
(* the other one, d1 to d18 in the case of the disk queue, do not change.  *)
(***************************************************************************)
EXTENDS MemLog

CONSTANTS k1, k2, v1, nan, None

VARIABLES part,
  d1, d2, d3, d4, d5, d6, d7, d8, d9, d10, d11, d12, d13, d14, d15, d16, d17, d18

diskQueueState ==
  <<d1, d2, d3, d4, d5, d6, d7, d8, d9, d10, d11, d12, d13, d14, d15, d16, d17, d18>>
allVars == <<vars, part, diskQueueState>>

-----------------------------------------------------------------------------
(* Values of the constants                                                 *)

StoreFaults ==
  {"open", "write", "truncate", "checkpoint", "rename", "remove", "kill", "outage", "corrupt"}

SmallSizes == {[maxSegment |-> 2, maxBuffer |-> 5]}
QueueFaults == {"kill", "torn frame", "torn position", "delete", "write"}

-----------------------------------------------------------------------------
DQ == INSTANCE DiskQueue WITH
  WriteAheadLimit <- 2, ReadAheadLimit <- 1, Sizes <- SmallSizes, ProducerCount <- 1, MaxEvents <- 4,
  MaxSessions <- 3, Faults <- QueueFaults,
  files <- d1, state <- d2, pc <- d3, q <- d4, w <- d5, r <- d6, output <- d7, d <- d8,
  held <- d9, a <- d10, events <- d11, written <- d12, consumed <- d13, before <- d14,
  delivered <- d15, sessions <- d16, damaged <- d17, reported <- d18

NoQueue ==
  /\ d1 = 0 /\ d2 = 0 /\ d3 = 0 /\ d4 = 0 /\ d5 = 0 /\ d6 = 0 /\ d7 = 0 /\ d8 = 0 /\ d9 = 0
  /\ d10 = 0 /\ d11 = 0 /\ d12 = 0 /\ d13 = 0 /\ d14 = 0 /\ d15 = 0 /\ d16 = 0 /\ d17 = 0
  /\ d18 = 0

DiskInit ==
  \/ part = "store" /\ Init /\ NoQueue
  \/ part = "queue" /\ Init /\ home = "none" /\ DQ!Init

DiskNext ==
  /\ UNCHANGED part
  /\ \/ part = "store" /\ Next /\ UNCHANGED diskQueueState
     \/ part = "queue" /\ DQ!Next /\ UNCHANGED vars

DiskSpec == DiskInit /\ [][DiskNext]_allVars

-----------------------------------------------------------------------------
\* What the store promises: its table is always one that its updates produced, and no data
\* file is forgotten.
StoreIsSound == TypeOK /\ TableIsAVersion /\ DataFilesTracked

\* What the disk queue promises, in its behaviours; the parts are stated in DiskQueue.

\* No event that was written and not consumed is lost, unless a kill fell between the
\* writes of a position.
NothingLost == part = "queue" => DQ!NothingLost

\* Events are read in order, none is skipped, and the lists of segments are in order.
DeliveredInOrder ==
  part = "queue" => DQ!TypeOK /\ DQ!DeliveredInOrder /\ DQ!SegmentsInOrder
=============================================================================
