----------------------------- MODULE DiskQueue -----------------------------
(***************************************************************************)
(* The disk queue, publisher/queue/diskqueue: the core loop, its helper    *)
(* loops that write, read and delete segment files, the consumer and its   *)
(* acknowledgements, the saved position, shutdown, kill and restart.       *)
(*                                                                         *)
(* The core loop serves one message at a time and never blocks, so serving *)
(* a message is one step.  A helper loop serves one request, frame by      *)
(* frame or file by file, and its answer is a rendezvous.  Frames and file *)
(* headers have size 1; a frame that no segment can hold is never accepted.*)
(***************************************************************************)
EXTENDS Naturals, Sequences, FiniteSets, SequencesExt

CONSTANTS
  Sizes,        \* settings MaxSegmentSize and MaxBufferSize, of which 0 is no limit
  WriteAheadLimit, ReadAheadLimit,  \* more settings
  ProducerCount,    \* bound: publishers blocked at the same time
  MaxEvents,    \* bound: events published
  MaxSessions,  \* bound: how often the queue is opened
  Faults,       \* what may go wrong
  None          \* no segment, no request

ASSUME DiskQueueAssumption ==
  /\ Sizes \subseteq [maxSegment : Nat \ {0, 1}, maxBuffer : Nat]
  /\ \A size \in Sizes : size.maxBuffer > 0 => size.maxBuffer >= 2 * size.maxSegment
  /\ {WriteAheadLimit, ReadAheadLimit} \subseteq Nat \ {0}
  /\ {ProducerCount, MaxEvents, MaxSessions} \subseteq Nat
  /\ Faults \subseteq {"kill", "torn frame", "torn position", "delete", "write"}

Header == 1

VARIABLES
  files, state,   \* on disk: the segment files, the saved position
  pc, q,          \* the core loop
  w,              \* the writer loop
  r, output,      \* the reader loop, and the frames it read ahead
  d,              \* the deleter loop: the results so far
  held, a,        \* batches of the consumer, diskQueueACKs
  \* history: the number of events taken, those written, those whose producers were told so,
  \* those acknowledged, those acknowledged before this session, those read in this
  \* session, and whether a position was saved in part
  events, written, reported, consumed, before, delivered, sessions, damaged

diskVars == <<files, state>>
pastVars == <<events, written, reported, consumed, before, delivered, sessions, damaged>>
vars == <<diskVars, pc, q, w, r, output, d, held, a, pastVars>>

FileSize(f) == Header + Len(f.frames) + (IF f.torn THEN 1 ELSE 0)

NoPosition == [seg |-> 0, byte |-> 0, frame |-> 0]

-----------------------------------------------------------------------------
(* The core loop                                                           *)

\* segments.sizeOnDisk and currentSize: what is on disk, and what is about to be.
SizeOnDisk(s) ==
  FoldLeft(LAMBDA sum, id : sum + s.seg[id].byteCount, 0,
           s.writing \o s.reading \o s.acking \o s.acked)

\* settings.maxValidFrameSize: what a segment can hold.
MaxValidFrameSize(s) == s.size.maxSegment - Header

CurrentSize(s) == Len(s.pendingFrames) + Len(s.writeRequest) + SizeOnDisk(s)

CanAcceptFrame(s) ==
  /\ Len(s.pendingFrames) < WriteAheadLimit
  /\ s.size.maxBuffer = 0 \/ CurrentSize(s) + 1 <= s.size.maxBuffer

\* A new segment is counted without its first frame.
EnqueueWriteFrame(s, e) ==
  LET roll == s.writing = <<>> \/ s.writingSegmentSize + 1 > s.size.maxSegment
      id == IF roll THEN s.nextID ELSE Last(s.writing)
      t == IF roll
           THEN [s EXCEPT !.writing = Append(@, id), !.nextID = @ + 1,
                          !.seg = (id :> [byteCount |-> 0, firstFrameID |-> 0]) @@ @]
           ELSE s
  IN [t EXCEPT !.writingSegmentSize = IF roll THEN Header ELSE @ + 1,
               !.pendingFrames = Append(@, [event |-> e, seg |-> id])]

MaybeWritePending(s) ==
  IF s.writeRequest # <<>> \/ s.pendingFrames = <<>> THEN s
  ELSE [s EXCEPT !.writeRequest = s.pendingFrames, !.pendingFrames = <<>>]

\* Blocked producers are served in order, up to the first there is no room for.
MaybeUnblockProducers(s) ==
  FoldLeft(LAMBDA t, e : IF e = Head(t.blocked) /\ CanAcceptFrame(t)
                         THEN [EnqueueWriteFrame(t, e) EXCEPT !.blocked = Tail(@)]
                         ELSE t,
           s, s.blocked)

ReadingSegment(s) ==
  IF s.reading # <<>> THEN Head(s.reading)
  ELSE IF s.writing # <<>> THEN Head(s.writing) ELSE None

\* Mutant: the position in the old segment is kept.
MaybeAdvanceReadingListKeeps(s) ==
  IF s.reading # <<>> /\ s.nextReadPosition >= s.seg[Head(s.reading)].byteCount
  THEN [s EXCEPT !.acking = Append(@, Head(s.reading)), !.reading = Tail(@)]
  ELSE s

MaybeAdvanceReadingList(s) ==
  IF s.reading # <<>> /\ s.nextReadPosition >= s.seg[Head(s.reading)].byteCount
  THEN [s EXCEPT !.acking = Append(@, Head(s.reading)), !.reading = Tail(@),
                 !.nextReadPosition = 0]
  ELSE s

MaybeReadPending(s) ==
  LET t == MaybeAdvanceReadingList(s)
      id == ReadingSegment(t)
      first == t.nextReadPosition = 0
      start == IF first THEN Header ELSE t.nextReadPosition
  IN IF s.readRequest # None THEN s
     ELSE IF id = None \/ t.nextReadPosition >= t.seg[id].byteCount THEN t
     ELSE [t EXCEPT !.seg[id].firstFrameID = IF first THEN t.nextReadFrameID ELSE @,
                    !.nextReadPosition = start,
                    !.readRequest = [seg |-> id, startFrameID |-> t.nextReadFrameID,
                                     startPosition |-> start,
                                     endPosition |-> t.seg[id].byteCount]]

MaybeDeleteACKed(s) ==
  IF s.deleteRequest = <<>> THEN [s EXCEPT !.deleteRequest = s.acked] ELSE s

\* response holds the bytes written to each of the first segments of writing.
\* All of them but the last are closed.
HandleWriterLoopResponse(s, response) ==
  LET n == Len(response)
      bytes(id) == IF \E i \in 1..n : s.writing[i] = id
                   THEN response[CHOOSE i \in 1..n : s.writing[i] = id] ELSE 0
  IN [s EXCEPT !.seg = [id \in DOMAIN @ |-> [@[id] EXCEPT !.byteCount = @ + bytes(id)]],
               !.reading = @ \o SubSeq(s.writing, 1, n - 1),
               !.writing = SubSeq(@, n, Len(@)),
               !.writeRequest = <<>>]

\* After an error the rest of the segment is skipped.
HandleReaderLoopResponse(s, count, failed) ==
  [s EXCEPT !.nextReadFrameID = @ + count,
            !.nextReadPosition = IF failed THEN s.seg[ReadingSegment(s)].byteCount
                                 ELSE @ + count,
            !.readRequest = None]

\* Segments that could not be deleted stay, those acked in the meantime too.
HandleDeleterLoopResponse(s, removed) ==
  LET kept == SelectSeq([i \in DOMAIN removed |-> i], LAMBDA i : ~removed[i])
  IN [s EXCEPT !.acked = [i \in DOMAIN kept |-> @[kept[i]]]
                           \o SubSeq(@, Len(removed) + 1, Len(@)),
               !.deleteRequest = <<>>]

HandleSegmentACK(s, id) ==
  LET n == Cardinality({i \in DOMAIN s.acking : \A j \in 1..i : s.acking[j] <= id})
  IN [s EXCEPT !.acked = @ \o SubSeq(s.acking, 1, n),
               !.acking = SubSeq(@, n + 1, Len(@))]

-----------------------------------------------------------------------------
(* NewQueue                                                                *)

\* A saved position without a frame index counts as the start of its segment.
SavedPosition == IF state.frame = 0 THEN [state EXCEPT !.byte = 0] ELSE state

\* scanExistingSegments ignores files without a complete frame.
ScanExistingSegments ==
  SetToSortSeq({id \in DOMAIN files : files[id].frames # <<>>}, <)

IdleWriter ==
  [segment |-> None, count |-> 0, response |-> <<>>, bytes |-> 0, stop |-> FALSE,
   told |-> FALSE]

IdleReader == [count |-> 0, failed |-> FALSE, stop |-> FALSE]

NextSegmentID(found) == IF found = <<>> THEN 0 ELSE Last(found) + 1

NewQueue(size) ==
  LET found == ScanExistingSegments
      old == SelectSeq(found, LAMBDA id : id < SavedPosition.seg)
      rest == SelectSeq(found, LAMBDA id : id >= SavedPosition.seg)
      position == IF rest # <<>> /\ SavedPosition.seg < Head(rest)
                  THEN [NoPosition EXCEPT !.seg = Head(rest)] ELSE SavedPosition
      new == [writing |-> <<>>, reading |-> rest, acking |-> <<>>, acked |-> old,
              seg |-> [id \in ToSet(found) |->
                         [byteCount |-> FileSize(files[id]), firstFrameID |-> 0]],
              nextID |-> NextSegmentID(found),
              writingSegmentSize |-> 0,
              nextReadFrameID |-> 0, nextReadPosition |-> position.byte,
              pendingFrames |-> <<>>, blocked |-> <<>>,
              writeRequest |-> <<>>, readRequest |-> None, deleteRequest |-> <<>>,
              size |-> size]
  IN /\ q' = MaybeDeleteACKed(MaybeReadPending(new))
     /\ a' = [nextFrameID |-> 0, position |-> position, acked |-> {},
              chan |-> <<>>, blocked |-> None]

Init ==
  /\ files = <<>> /\ state = NoPosition
  /\ pc = "down" /\ q = None /\ a = None
  /\ w = IdleWriter /\ r = IdleReader /\ d = <<>> /\ output = <<>> /\ held = {}
  /\ events = 0 /\ written = {} /\ reported = {} /\ consumed = {} /\ before = {} /\ delivered = <<>>
  /\ sessions = 0 /\ damaged = FALSE

\* The queue is gone from memory.
Ends ==
  /\ pc' = "down" /\ q' = None /\ a' = None
  /\ w' = IdleWriter /\ r' = IdleReader /\ d' = <<>> /\ output' = <<>> /\ held' = {}

Open(size) ==
  /\ pc = "down" /\ sessions < MaxSessions
  /\ pc' = "run" /\ sessions' = sessions + 1
  /\ NewQueue(size)
  /\ before' = consumed /\ delivered' = <<>>
  /\ UNCHANGED <<diskVars, w, r, output, d, held, events, written, reported, consumed, damaged>>

-----------------------------------------------------------------------------
(* ProducerCount                                                               *)

\* A frame that is too large is rejected at once, also for a producer that blocks.
HandleProducerWriteRequest(frameSize, shouldBlock) ==
  /\ pc = "run" /\ events < MaxEvents /\ Len(q.blocked) < ProducerCount
  /\ LET valid == frameSize <= MaxValidFrameSize(q)
         accept == valid /\ q.blocked = <<>> /\ CanAcceptFrame(q)
         wait == valid /\ ~accept /\ shouldBlock
         e == events + 1
     IN /\ q' = MaybeWritePending(IF accept THEN EnqueueWriteFrame(q, e)
                                  ELSE IF wait THEN [q EXCEPT !.blocked = Append(@, e)] ELSE q)
        /\ events' = IF accept \/ wait THEN e ELSE events
  /\ UNCHANGED <<diskVars, pc, w, r, output, d, held, a, written, reported, consumed, before,
                 delivered, sessions, damaged>>

-----------------------------------------------------------------------------
(* The writer loop                                                         *)

WriterBusy == pc # "down" /\ q.writeRequest # <<>>

WriterAtEnd == WriterBusy /\ (w.stop \/ w.count = Len(q.writeRequest))

WriterFinished == WriterAtEnd /\ w.told

\* The request channel is closed: the loop is to stop.
WriterClosed == pc \in {"stopWriter", "stopDeleter", "lastDelete"}

\* One frame.  The file of another segment is closed and the new one created
\* first.  After each frame the loop looks whether it is to stop.
WriterFrame ==
  /\ WriterBusy /\ ~WriterAtEnd
  /\ LET frame == q.writeRequest[w.count + 1]
         create == w.segment # frame.seg
         close == create /\ w.segment # None
         file == IF create THEN [frames |-> <<>>, torn |-> FALSE] ELSE files[frame.seg]
     IN /\ files' = (frame.seg :> [file EXCEPT !.frames = Append(@, frame.event)]) @@ files
        /\ w' = [segment |-> frame.seg, count |-> w.count + 1,
                 response |-> IF close THEN Append(w.response, w.bytes) ELSE w.response,
                 bytes |-> (IF create THEN Header ELSE w.bytes) + 1,
                 stop |-> WriterClosed, told |-> FALSE]
        /\ written' = written \cup {frame.event}
  /\ UNCHANGED <<state, pc, q, r, output, d, held, a, events, reported, consumed, before,
                 delivered, sessions, damaged>>

WriterMayGiveUp == "write" \in Faults /\ WriterBusy /\ ~WriterAtEnd /\ WriterClosed

\* A write that keeps failing is given up when the loop is to stop.
WriterAborts ==
  /\ WriterMayGiveUp
  /\ w.segment = q.writeRequest[w.count + 1].seg
  /\ \E torn \in BOOLEAN : files' = [files EXCEPT ![w.segment].torn = torn]
  /\ w' = [w EXCEPT !.stop = TRUE]
  /\ UNCHANGED <<state, pc, q, r, output, d, held, a, pastVars>>

\* So is the creation of a segment that keeps failing, but then there is no file to
\* sync: the process ends in a nil dereference, and no producer is told what was written.
\* The new file may be there, without a frame.
WriterPanics ==
  /\ WriterMayGiveUp
  /\ LET id == q.writeRequest[w.count + 1].seg
     IN /\ w.segment # id
        /\ files' \in {files, (id :> [frames |-> <<>>, torn |-> FALSE]) @@ files}
  /\ Ends
  /\ UNCHANGED <<state, pastVars>>

\* The file is synced, and the producers learn which of their frames are written.
WriterReports ==
  /\ WriterAtEnd /\ ~w.told
  /\ w' = [w EXCEPT !.told = TRUE]
  /\ reported' = reported \cup {q.writeRequest[i].event : i \in 1..w.count}
  /\ UNCHANGED <<diskVars, pc, q, r, output, d, held, a, events, written, consumed, before,
                 delivered, sessions, damaged>>

WriterResponse == Append(w.response, w.bytes)

WriterAnswers ==
  /\ WriterFinished
  /\ w' = [IdleWriter EXCEPT !.segment = w.segment]

\* Mutant: the reader is not told.
HandleWriterAnswerUnread ==
  /\ pc = "run" /\ WriterAnswers
  /\ q' = MaybeUnblockProducers(MaybeWritePending(
            HandleWriterLoopResponse(q, WriterResponse)))
  /\ UNCHANGED <<diskVars, pc, r, output, d, held, a, pastVars>>

HandleWriterAnswer ==
  /\ pc = "run" /\ WriterAnswers
  /\ q' = MaybeUnblockProducers(MaybeReadPending(MaybeWritePending(
            HandleWriterLoopResponse(q, WriterResponse))))
  /\ UNCHANGED <<diskVars, pc, r, output, d, held, a, pastVars>>

-----------------------------------------------------------------------------
(* The reader loop                                                         *)

ReaderBusy == pc # "down" /\ q.readRequest # None

ReaderFinished ==
  /\ ReaderBusy
  /\ r.stop \/ r.failed \/ q.readRequest.startPosition + r.count >= q.readRequest.endPosition

NextFrameIndex == q.readRequest.startPosition + r.count - Header + 1

\* One frame is read and sent to the consumer.
ReaderFrame ==
  /\ ReaderBusy /\ ~ReaderFinished
  /\ LET frames == files[q.readRequest.seg].frames
         event == frames[NextFrameIndex]
     IN /\ NextFrameIndex <= Len(frames)
        /\ Len(output) < ReadAheadLimit
        /\ output' = Append(output, [id |-> q.readRequest.startFrameID + r.count,
                                     seg |-> q.readRequest.seg, event |-> event])
        /\ delivered' = Append(delivered, event)
  /\ r' = [r EXCEPT !.count = @ + 1, !.stop = pc # "run"]
  /\ UNCHANGED <<diskVars, pc, q, w, d, held, a, events, written, reported, consumed,
                 before, sessions, damaged>>

\* The frame is not complete; or the request channel is closed.
ReaderStops ==
  /\ ReaderBusy /\ ~ReaderFinished
  /\ \/ /\ NextFrameIndex > Len(files[q.readRequest.seg].frames)
        /\ r' = [r EXCEPT !.failed = TRUE]
     \/ pc # "run" /\ r' = [r EXCEPT !.stop = TRUE]
  /\ UNCHANGED <<diskVars, pc, q, w, output, d, held, a, pastVars>>

ReaderAnswers == ReaderFinished /\ r' = IdleReader

HandleReaderAnswer ==
  /\ pc = "run" /\ ReaderAnswers
  /\ q' = MaybeReadPending(HandleReaderLoopResponse(q, r.count, r.failed))
  /\ UNCHANGED <<diskVars, pc, w, output, d, held, a, pastVars>>

-----------------------------------------------------------------------------
(* The deleter loop                                                        *)

DeleterBusy == pc # "down" /\ q.deleteRequest # <<>>

DeleterFinished == DeleterBusy /\ Len(d) = Len(q.deleteRequest)

DeleteFile ==
  /\ DeleterBusy /\ ~DeleterFinished
  /\ LET id == q.deleteRequest[Len(d) + 1]
     IN \/ /\ files' = [other \in DOMAIN files \ {id} |-> files[other]]
           /\ d' = Append(d, TRUE)
        \/ "delete" \in Faults /\ d' = Append(d, FALSE) /\ UNCHANGED files
  /\ UNCHANGED <<state, pc, q, w, r, output, held, a, pastVars>>

DeleterAnswers == DeleterFinished /\ d' = <<>>

HandleDeleterAnswer ==
  /\ pc = "run" /\ DeleterAnswers
  /\ q' = MaybeUnblockProducers(MaybeDeleteACKed(HandleDeleterLoopResponse(q, d)))
  /\ UNCHANGED <<diskVars, pc, w, r, output, held, a, pastVars>>

-----------------------------------------------------------------------------
(* The consumer, and diskQueueACKs                                         *)

\* A batch takes some of the frames that are there.
Get ==
  /\ pc # "down"
  /\ \E n \in 1..Len(output) :
       /\ held' = held \cup {SubSeq(output, 1, n)}
       /\ output' = SubSeq(output, n + 1, Len(output))
  /\ UNCHANGED <<diskVars, pc, q, w, r, d, a, pastVars>>

\* The acknowledged frames, with those of a batch.  The first of a segment is marked.
WithFrames(batch) ==
  a.acked \cup {[id |-> f.id, seg |-> f.seg, first |-> f.id = q.seg[f.seg].firstFrameID]
                  : f \in ToSet(batch)}

\* The position after the frames up to next.  Frame 0 leaves the position in the
\* segment where the last session stopped.
Advance(acked, next) ==
  LET passed == {f \in acked : f.id < next}
      starts == {f \in passed : f.first /\ f.id # 0}
      start == CHOOSE f \in starts : \A g \in starts : g.id <= f.id
      count == next - a.nextFrameID
      byte == IF a.position.byte = 0 THEN Header ELSE a.position.byte
  IN IF starts = {}
     THEN [a.position EXCEPT !.byte = byte + count, !.frame = @ + count]
     ELSE [seg |-> start.seg, byte |-> Header + next - start.id, frame |-> next - start.id]

\* Mutant: the frame after the last one that is acknowledged.
NextMissingLast(acked) == 1 + CHOOSE n \in {f.id : f \in acked} : \A f \in acked : f.id <= n

\* The first frame that is not acknowledged.
NextMissing(acked) ==
  LET ids == {f.id : f \in acked}
  IN CHOOSE n \in a.nextFrameID .. (a.nextFrameID + Cardinality(ids)) :
       n \notin ids /\ a.nextFrameID .. (n - 1) \subseteq ids

NewPosition(acked) ==
  IF NextMissing(acked) = a.nextFrameID THEN a.position ELSE Advance(acked, NextMissing(acked))

\* Done and addFrames need the lock; once the queue is closed they do nothing.
MayAddFrames(batch) ==
  /\ pc \notin {"lastDelete", "down"} /\ a.blocked = None
  /\ batch \in held

\* A new segment is reported to the core loop, as soon as there is room in the
\* channel: all segments before it are acknowledged.
BatchDone(batch) ==
  /\ MayAddFrames(batch)
  /\ LET acked == WithFrames(batch)
         position == NewPosition(acked)
         report == position.seg # a.position.seg
         room == a.chan = <<>>
     IN /\ a' = [nextFrameID |-> NextMissing(acked), position |-> position,
                 acked |-> {f \in acked : f.id >= NextMissing(acked)},
                 chan |-> IF report /\ room THEN <<position.seg - 1>> ELSE a.chan,
                 blocked |-> IF report /\ ~room THEN position.seg - 1 ELSE None]
        /\ state' = IF NextMissing(acked) = a.nextFrameID THEN state ELSE position
  /\ held' = held \ {batch}
  /\ consumed' = consumed \cup {f.event : f \in ToSet(batch)}
  /\ UNCHANGED <<files, pc, q, w, r, output, d, events, written, reported, before, delivered,
                 sessions, damaged>>

ReceiveSegmentACK ==
  /\ pc = "run" /\ a.chan # <<>>
  /\ q' = MaybeDeleteACKed(HandleSegmentACK(q, Head(a.chan)))
  /\ a' = [a EXCEPT !.chan = IF a.blocked = None THEN <<>> ELSE <<a.blocked>>, !.blocked = None]
  /\ UNCHANGED <<diskVars, pc, w, r, output, d, held, pastVars>>

-----------------------------------------------------------------------------
(* Close and handleShutdown                                                *)

Close ==
  /\ pc = "run" /\ pc' = "stopReader"
  /\ UNCHANGED <<diskVars, q, w, r, output, d, held, a, pastVars>>

StopReader ==
  /\ pc = "stopReader" /\ pc' = "stopWriter"
  /\ IF ReaderBusy
     THEN ReaderAnswers /\ q' = HandleReaderLoopResponse(q, r.count, r.failed)
     ELSE UNCHANGED <<q, r>>
  /\ UNCHANGED <<diskVars, w, output, d, held, a, pastVars>>

StopWriter ==
  /\ pc = "stopWriter" /\ pc' = "stopDeleter"
  /\ IF WriterBusy
     THEN WriterAnswers /\ q' = HandleWriterLoopResponse(q, WriterResponse)
     ELSE UNCHANGED <<q, w>>
  /\ UNCHANGED <<diskVars, r, output, d, held, a, pastVars>>

\* The last acknowledgements count for one more round of deletions.
FinalACK(s) ==
  IF s.writing # <<>> /\ a.position.seg = Head(s.writing)
     /\ a.position.byte >= s.seg[Head(s.writing)].byteCount
  THEN HandleSegmentACK(s, a.position.seg)
  ELSE IF a.position.seg > 0 THEN HandleSegmentACK(s, a.position.seg - 1) ELSE s

\* Mutant: the lock is taken before acks.done is closed.
StopDeleterLocks ==
  /\ pc = "stopDeleter" /\ pc' = "lastDelete"
  /\ a.blocked = None
  /\ IF DeleterBusy THEN DeleterAnswers ELSE UNCHANGED d
  /\ LET idle == IF DeleterBusy THEN HandleDeleterLoopResponse(q, d) ELSE q
     IN q' = MaybeDeleteACKed(FinalACK([idle EXCEPT !.blocked = <<>>]))
  /\ UNCHANGED <<diskVars, a, w, r, output, held, pastVars>>

StopDeleter ==
  /\ pc = "stopDeleter" /\ pc' = "lastDelete"
  /\ IF DeleterBusy THEN DeleterAnswers ELSE UNCHANGED d
  /\ LET idle == IF DeleterBusy THEN HandleDeleterLoopResponse(q, d) ELSE q
     IN q' = MaybeDeleteACKed(FinalACK([idle EXCEPT !.blocked = <<>>]))
  /\ a' = [a EXCEPT !.blocked = None]
  /\ UNCHANGED <<diskVars, w, r, output, held, pastVars>>

\* The frames that were never written are gone, and so is the rest of the memory.
LastDelete ==
  /\ pc = "lastDelete" /\ (DeleterBusy => DeleterFinished)
  /\ Ends
  /\ UNCHANGED <<diskVars, pastVars>>

-----------------------------------------------------------------------------
(* Kill                                                                    *)

\* What the writer may leave behind: a segment without frames, part of a frame.
Leftovers ==
  IF ~WriterBusy \/ WriterAtEnd THEN {files}
  ELSE LET id == q.writeRequest[w.count + 1].seg
           file == IF w.segment = id THEN files[id] ELSE [frames |-> <<>>, torn |-> FALSE]
       IN {files} \cup (IF "torn frame" \in Faults
                        THEN {(id :> [file EXCEPT !.torn = t]) @@ files : t \in BOOLEAN} ELSE {})

Kill ==
  /\ pc # "down" /\ "kill" \in Faults
  /\ files' \in Leftovers
  /\ Ends
  /\ UNCHANGED <<state, pastVars>>

\* The position is saved in separate writes: the segment, the byte index, the frame index.
KillInSave(batch) ==
  /\ MayAddFrames(batch) /\ "torn position" \in Faults
  /\ NextMissing(WithFrames(batch)) # a.nextFrameID
  /\ LET position == NewPosition(WithFrames(batch))
     IN state' \in {[state EXCEPT !.seg = position.seg], [position EXCEPT !.frame = state.frame]}
  /\ consumed' = consumed \cup {f.event : f \in ToSet(batch)}
  /\ damaged' = TRUE
  /\ Ends
  /\ UNCHANGED <<files, events, written, reported, before, delivered, sessions>>

-----------------------------------------------------------------------------

Next ==
  \/ \E size \in Sizes : Open(size)
  \/ pc = "run" /\ \E frameSize \in {1, q.size.maxSegment}, shouldBlock \in BOOLEAN :
       HandleProducerWriteRequest(frameSize, shouldBlock)
  \/ WriterFrame \/ WriterAborts \/ WriterPanics \/ WriterReports
  \/ ReaderFrame \/ ReaderStops \/ DeleteFile
  \/ HandleWriterAnswer \/ HandleReaderAnswer \/ HandleDeleterAnswer \/ ReceiveSegmentACK
  \/ Get
  \/ \E batch \in held : BatchDone(batch) \/ KillInSave(batch)
  \/ Close \/ StopReader \/ StopWriter \/ StopDeleter \/ LastDelete
  \/ Kill

Spec == Init /\ [][Next]_vars

\* The goroutines of the queue run on, and so does a consumer that reads and
\* acknowledges what it can.
Progress ==
  \/ WriterFrame \/ WriterReports \/ ReaderFrame \/ ReaderStops \/ DeleteFile
  \/ HandleWriterAnswer \/ HandleReaderAnswer \/ HandleDeleterAnswer \/ ReceiveSegmentACK
  \/ Get
  \/ \E batch \in held : BatchDone(batch)
  \/ StopReader \/ StopWriter \/ StopDeleter \/ LastDelete

FairSpec == Spec /\ WF_vars(Progress)

-----------------------------------------------------------------------------
(* Properties                                                              *)

Segment == 0..MaxEvents
Event == 1..MaxEvents
Position == [seg : Segment, byte : Nat, frame : Nat]

\* Every variable has its type.
TypeOK ==
  /\ DOMAIN files \subseteq Segment /\ Cardinality(DOMAIN files) \in Nat
  /\ \A id \in DOMAIN files : files[id] \in [frames : Seq(Event), torn : BOOLEAN]
  /\ state \in Position
  /\ pc \in {"run", "stopReader", "stopWriter", "stopDeleter", "lastDelete", "down"}
  /\ pc = "down" \/
       /\ ToSet(q.acked \o q.acking \o q.reading \o q.writing) \subseteq DOMAIN q.seg
       /\ q.pendingFrames \in Seq([event : Event, seg : DOMAIN q.seg])
       /\ q.writeRequest \in Seq([event : Event, seg : DOMAIN q.seg])
       /\ a.position \in Position /\ Len(a.chan) <= 1
  /\ written \cup reported \cup consumed \cup before \subseteq Event
  /\ events \in 0..MaxEvents /\ sessions \in 0..MaxSessions /\ damaged \in BOOLEAN

\* What a new session would read, were the process killed now.
Readable ==
  LET done(id) == IF id = SavedPosition.seg /\ SavedPosition.byte > 0
                  THEN SavedPosition.byte - Header ELSE 0
      rest(id) == {i \in DOMAIN files[id].frames : i > done(id)}
  IN UNION {{files[id].frames[i] : i \in rest(id)}
              : id \in {other \in DOMAIN files : other >= SavedPosition.seg}}

\* queuePosition: this "guarantees that we don't drop any data".  An event that was
\* written and not yet acknowledged is found again by a new session, wherever the
\* process is killed now.
NothingDropped == written \ consumed \subseteq Readable

\* So it is as long as no kill falls between the writes that save a position; and a
\* producer is told only of events that were written.
NothingLost == reported \subseteq written /\ (damaged \/ NothingDropped)

\* processRequest: "This can only happen if the queue is being closed; abort", and then
\* "Notify any producers with ACK listeners that their frames were written".  A queue
\* that is closed and not killed has told the producers of all that it wrote.
WrittenIsReported == "kill" \notin Faults /\ pc = "down" => written = reported

\* Within a session events are read in the order they were published, and none is
\* skipped that was not acknowledged in an earlier session.
DeliveredInOrder ==
  /\ \A i, j \in DOMAIN delivered : i < j => delivered[i] < delivered[j]
  /\ \A e \in written : ~damaged /\ (\E i \in DOMAIN delivered : e < delivered[i])
                          => e \in before \cup ToSet(delivered)

\* The lists of diskQueueSegments are in the order of the segments: acked before
\* acking before reading before writing, and all segments but those being written
\* have a file, until it is deleted.
SegmentsInOrder ==
  pc # "down" =>
    LET all == q.acked \o q.acking \o q.reading \o q.writing
    IN /\ \A i, j \in DOMAIN all : i < j => all[i] < all[j]
       /\ ToSet(q.acking \o q.reading) \subseteq DOMAIN files

\* queuePosition: "the next session will restart at the first missing frame".
RestartAtFirstMissing == delivered # <<>> => Head(delivered) \notin before

\* Close ends, whatever the helper loops and the consumer are doing.
ShutdownEnds == pc \notin {"run", "down"} ~> pc = "down"

\* The events that were written are acknowledged in the end, as long as the queue
\* stays open and its consumer goes on.
WrittenIsConsumed ==
  (pc = "run" /\ ~(written \subseteq consumed)) ~> (pc # "run" \/ written \subseteq consumed)

\* handleProducerWriteRequest: a frame "is guaranteed to eventually enter the queue
\* assuming no disk errors".  What was accepted does not stay in memory.
AcceptedIsWritten ==
  (pc = "run" /\ q.pendingFrames # <<>>) ~> (pc # "run" \/ q.pendingFrames = <<>>)

\* Without a limit of the size, what was accepted is written.
UnlimitedIsWritten ==
  (pc = "run" /\ q.size.maxBuffer = 0 /\ q.pendingFrames # <<>>)
    ~> (pc # "run" \/ q.pendingFrames = <<>>)
=============================================================================
