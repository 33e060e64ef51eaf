--------------------------- MODULE SegmentFiles ---------------------------
(***************************************************************************)
(* The file layer of the disk queue (publisher/queue/diskqueue): one       *)
(* segment file, from the writer loop that appends frames to it, through   *)
(* the retrying writer, the encryption and the compression, to the scan    *)
(* that counts its frames after a restart and the reader that seeks to a   *)
(* stored position.  The unit of length is four bytes: the version, the    *)
(* frame count, the options, a frame's length and its checksum are one     *)
(* unit each, and the initialisation vector four.                          *)
(***************************************************************************)
EXTENDS Integers, Sequences, FiniteSets, SequencesExt

CONSTANTS
    DataSizes,   \* the lengths of the serialized events, in units
    MaxFrames,   \* how many frames are written (a bound of the instance)
    MaxTorn,     \* how often a write is cut short (a bound of the instance)
    None         \* no header, no frame

VARIABLES
    version,  \* the schema version the file was written with
    enc,      \* whether the file is encrypted
    comp,     \* whether the file is compressed
    phase,    \* "writing", "down" after a close or a crash, "up" again
    file,     \* the units of the file
    synced,   \* how many of them a power failure cannot take away
    stream,   \* the writer's position in the key stream
    lz,       \* what the compressor holds back
    buf,      \* what the retry writer still has to write
    frames,   \* the sizes of the frames that were written
    reported, \* how many of them the core loop knows of
    raced,    \* the count was written before the last request was counted
    torn,     \* the frames whose writes were cut short, in order
    header,   \* what the scan of the file returned
    got       \* the last frame read, with its number

segVars == <<version, enc, comp, phase, file, synced, stream, lz, buf,
             frames, reported, raced, torn, header, got>>

segmentHeaderSize == 3

frameHeaderSize == 1

frameMetadataSize == 3

IVSize == 4

(* Units of the file.  Each kind has a field of its own, so that reading a *)
(* unit as something that it is not is visible.                            *)
Num(n) == [num |-> n]

\* headerSize: where the first frame of a segment of version v begins.
headerSize(v) == IF v < 1 THEN 1 ELSE segmentHeaderSize

\* The header of an old file, of a program that wrote version 0 or 1, and
\* WriteHeader, which writes the version, a count of zero and the options.
WriteHeader(v, e, c) ==
    CASE v = 0 -> <<Num(0)>>
      [] v = 1 -> <<Num(1), Num(0)>>
      [] v = 2 -> <<Num(2), Num(0),
                    Num((IF e THEN 1 ELSE 0) + (IF c THEN 2 ELSE 0))>>

\* The frame of the n-th event: length, content, checksum and length again.
Frame(n, size) ==
    LET len == Num(size + frameMetadataSize)
    IN  <<len>> \o [i \in 1..size |-> [data |-> n, part |-> i]]
          \o <<[sum |-> n]>> \o <<len>>

\* NewEncryptionWriter: the vector goes into the file before any content.
IV(e) == IF e THEN [i \in 1..IVSize |-> [iv |-> i]] ELSE <<>>

\* XORKeyStream: unit i of the text is combined with unit at + i of the key
\* stream; only the same unit of the key stream takes it off again.
Encrypt(units, at) ==
    [i \in 1..Len(units) |-> [cipher |-> units[i], at |-> at + i]]

Decrypt(units, at) ==
    [i \in 1..Len(units) |->
        IF "cipher" \in DOMAIN units[i] /\ units[i].at = at + i
          THEN units[i].cipher
          ELSE [noise |-> at + i]]

SegInit ==
    /\ version \in 0..2
    /\ enc \in BOOLEAN
    /\ comp \in BOOLEAN
    /\ version < 2 => ~enc /\ ~comp
    /\ phase = "writing"
    /\ file = WriteHeader(version, enc, comp) \o IV(enc)
    /\ synced = Len(file)
    /\ stream = 0
    /\ lz = <<>>
    /\ buf = <<>>
    /\ frames = <<>>
    /\ reported = 0
    /\ raced = FALSE
    /\ torn = <<>>
    /\ header = None
    /\ got = None

(***************************************************************************)
(* The writer loop.                                                        *)
(***************************************************************************)

\* processRequest takes the next frame and hands it to the retry writer.
StartFrame(size) ==
    /\ phase = "writing"
    /\ buf = <<>>
    /\ Len(frames) < MaxFrames
    /\ buf' = Frame(Len(frames) + 1, size)
    /\ UNCHANGED <<version, enc, comp, phase, file, synced, stream, lz,
                   frames, reported, raced, torn, header, got>>

\* The frame whose last unit has been accepted is counted.
Accepted(n) ==
    /\ buf' = SubSeq(buf, n + 1, Len(buf))
    /\ frames' = IF n = Len(buf)
                   THEN Append(frames, Last(buf).num)
                   ELSE frames

\* callbackRetryWriter.Write: one call of the wrapped writer, which accepts
\* n units.  The rest is handed to the wrapped writer by the next call; the
\* encrypting writer has then already used up the key stream of all of it.
Write(n) ==
    /\ phase = "writing"
    /\ buf # <<>>
    /\ n \in 0..Len(buf)
    /\ n < Len(buf) => Len(torn) < MaxTorn
    /\ Accepted(n)
    /\ IF comp
         THEN /\ n = Len(buf)
              /\ lz' = lz \o buf
              /\ UNCHANGED <<file, stream, torn>>
         ELSE /\ file' = file \o SubSeq(IF enc THEN Encrypt(buf, stream)
                                               ELSE buf, 1, n)
              /\ stream' = IF enc THEN stream + Len(buf) ELSE stream
              /\ torn' = IF n < Len(buf) THEN Append(torn, Len(frames) + 1) ELSE torn
              /\ UNCHANGED lz
    /\ UNCHANGED <<version, enc, comp, phase, synced, reported, raced, header, got>>

\* CompressionWriter.Sync flushes what the compressor holds as one block.
Flushed ==
    IF lz = <<>> THEN <<>>
    ELSE IF enc THEN Encrypt(<<[block |-> lz]>>, stream)
                ELSE <<[block |-> lz]>>

\* segmentWriter.Sync at the end of a request.
Sync ==
    /\ phase = "writing"
    /\ buf = <<>>
    /\ file' = file \o Flushed
    /\ stream' = IF enc THEN stream + Len(Flushed) ELSE stream
    /\ lz' = <<>>
    /\ synced' = Len(file')
    /\ reported' = Len(frames)
    /\ UNCHANGED <<version, enc, comp, phase, buf, frames, raced, torn, header,
                   got>>

\* The queue is closed: a frame that is partly written is given up, the
\* frame count is written over the placeholder (UpdateCount), the data is
\* synced and the file closed.  The core loop adds the frames of the last
\* request to the segment's count at the same time, without a lock, so that
\* the count may be the one without them.  The older versions did not write a count
\* (version 0) or wrote it in the same place (version 1).
UpdateCount(units, n) ==
    IF version = 0 THEN units ELSE [units EXCEPT ![2] = Num(n)]

CloseFile ==
    /\ phase = "writing"
    /\ phase' = "down"
    /\ \E n \in {reported, Len(frames)} :
          /\ file' = UpdateCount(file \o Flushed, n)
          /\ raced' = (n # Len(frames))
    /\ synced' = Len(file')
    /\ lz' = <<>>
    /\ buf' = <<>>
    /\ UNCHANGED <<version, enc, comp, stream, frames, reported, torn, header,
                   got>>

\* A crash loses the buffers, and any suffix of the file that was not synced.
Crash ==
    /\ phase = "writing"
    /\ phase' = "down"
    /\ \E n \in synced..Len(file) :
          /\ file' = SubSeq(file, 1, n)
          /\ synced' = n
    /\ lz' = <<>>
    /\ buf' = <<>>
    /\ UNCHANGED <<version, enc, comp, stream, frames, reported, raced, torn, header,
                   got>>

(***************************************************************************)
(* The scan of the existing segments.                                      *)
(***************************************************************************)

IsNum(units, i) == i \in 1..Len(units) /\ "num" \in DOMAIN units[i]

\* readSegmentHeader: version, from version 1 the frame count, and from
\* version 2 the options.
readSegmentHeader(units) ==
    LET v == units[1].num IN
    [version |-> v,
     count   |-> IF v >= 1 THEN units[2].num ELSE 0,
     options |-> IF v >= 2 THEN units[3].num ELSE 0,
     size    |-> v + 1]

\* readSegmentHeaderWithFrameCount: from the unit at on, n frames were seen.
\* A frame counts when the length behind it repeats the length before it.
\* The scan reads the file itself, not through the decryption.
RECURSIVE ScanFrames(_, _, _)
ScanFrames(units, at, n) ==
    IF ~IsNum(units, at) THEN n
    ELSE LET end == at + units[at].num - 1 IN
         IF IsNum(units, end) /\ units[end].num = units[at].num
           THEN ScanFrames(units, end + 1, n + 1)
           ELSE n

readSegmentHeaderWithFrameCount(units) ==
    LET h == readSegmentHeader(units)
        n == ScanFrames(units, h.size + 1, 0)
    IN  IF h.count > 0 THEN h
        ELSE IF n = 0 THEN None
        ELSE [h EXCEPT !.count = n]

\* scanExistingSegments: the segment is kept with its size on the disk, or
\* skipped when no header came back.
ScanExisting ==
    /\ phase = "down"
    /\ phase' = "up"
    /\ header' = readSegmentHeaderWithFrameCount(file)
    /\ UNCHANGED <<version, enc, comp, file, synced, stream, lz, buf, frames,
                   reported, raced, torn, got>>

(***************************************************************************)
(* The reader.                                                             *)
(***************************************************************************)

\* segmentReader: the text that can be read from the data region on, after
\* getReader has put the decryption and the decompression in place.
Text(units, h) ==
    LET raw    == SubSeq(units, h.size + 1, Len(units))
        isEnc  == h.options % 2 = 1
        plain  == IF isEnc
                    THEN Decrypt(SubSeq(raw, IVSize + 1, Len(raw)), 0)
                    ELSE raw
        Block(u) == IF "block" \in DOMAIN u THEN u.block ELSE <<u>>
    IN  IF h.options >= 2
          THEN FlattenSeq([i \in 1..Len(plain) |-> Block(plain[i])])
          ELSE plain

\* Seek to the position pos of the segment: with encryption or compression
\* the stream is started again behind the header and read up to pos.
Seek(units, h, pos) ==
    IF h.options = 0
      THEN SubSeq(units, pos + 1, Len(units))
      ELSE LET text == Text(units, h)
           IN  SubSeq(text, pos - segmentHeaderSize + 1, Len(text))

\* nextFrame: the frame at the start of the units that are left, at most max
\* units long, or None when anything about it is wrong.
nextFrame(units, max) ==
    IF max < frameHeaderSize \/ ~IsNum(units, 1) THEN None
    ELSE LET len  == units[1].num
             body == SubSeq(units, 2, len - 2)
         IN  IF \/ len > max
                \/ len <= frameMetadataSize
                \/ Len(units) < len
                \/ ~IsNum(units, len)
                \/ units[len].num # len
                \/ \E i \in 1..Len(body) : "data" \notin DOMAIN body[i]
                \/ "sum" \notin DOMAIN units[len - 1]
                \/ units[len - 1].sum # body[1].data
               THEN None
               ELSE [event |-> body[1].data, size |-> len]

\* Where the i-th frame starts: what the queue adds up while it writes, reads
\* and acknowledges frames, and what it keeps in its state file.
Position(i) ==
    headerSize(version) + FoldLeft(LAMBDA a, b : a + b, 0,
                                   SubSeq(frames, 1, i - 1))

\* How many of the written frames are complete in the file.
Whole == Cardinality({i \in 1..Len(frames) :
             FoldLeft(LAMBDA a, b : a + b, 0, SubSeq(frames, 1, i))
               <= Len(Text(file, readSegmentHeader(file)))})

\* processRequest of the reader loop for the i-th frame.  While the segment is
\* being written the request ends where the reported frames end; after a
\* restart it ends with the file.
ReadFrame(i) ==
    LET known == IF phase = "up" THEN Whole ELSE reported
        end   == IF phase = "up" THEN Len(file) ELSE Position(reported + 1)
    IN  /\ phase # "down"
        /\ phase = "up" => header # None
        /\ i \in 1..known
        /\ got' = [frame |-> i,
                   is |-> nextFrame(Seek(file, readSegmentHeader(file),
                                         Position(i)),
                                    end - Position(i))]
        /\ UNCHANGED <<version, enc, comp, phase, file, synced, stream, lz,
                       buf, frames, reported, raced, torn, header>>

SegNext ==
    \/ \E size \in DataSizes : StartFrame(size)
    \/ \E n \in 0..Len(buf) : Write(n)
    \/ Sync
    \/ CloseFile
    \/ Crash
    \/ ScanExisting
    \/ \E i \in 1..MaxFrames : ReadFrame(i)

SegSpec == SegInit /\ [][SegNext]_segVars

(***************************************************************************)
(* Properties.                                                             *)
(***************************************************************************)

Found(count) == IF count = 0 THEN header = None ELSE header # None /\ header.count = count

\* The scan "returns a struct with the "correct" frame count" of a file whose count
\* is 0 because it "was not closed cleanly" (segments.go:344-349).  Not so in the
\* code for encrypted and compressed segments, which are scanned without being
\* decoded (segments.go:359, 377-402), and a segment in which no frame is found is
\* not loaded at all.
EveryFrameIsCounted == (phase = "up" /\ ~raced) => Found(Whole)

\* What holds: after a restart the scan finds exactly the frames that are complete
\* in the file, wherever a crash cut it, when the file is plain or has a count
\* (readSegmentHeaderWithFrameCount).  The count of a file whose closing raced
\* with the core loop may be that of an earlier request.
ScanCountsWholeFrames ==
    (phase = "up" /\ (~(enc \/ comp) \/ readSegmentHeader(file).count > 0)) =>
        Found(Whole) \/ (raced /\ Found(reported))

GotFrame == got.is = [event |-> got.frame, size |-> frames[got.frame]]

\* The code "is able to read version 0, 1, and 2" (docs/on-disk-structures.md:8-10),
\* encrypted or compressed: reading from the position of a frame returns that
\* frame.  Not so in the code for version 1, whose header is shorter than
\* headerSize says (segments.go:217-223); for encrypted frames from the first write
\* on that was retried, which used up key stream twice; and for compressed
\* segments after a restart, which are read up to their size on the disk and not
\* that of their text (segments.go:205).
ReadsBackAlways == got # None => GotFrame

\* What holds: reading from the position of a frame returns that frame or an
\* error, and never another event or part of one.  It returns the frame, through
\* the decryption and the decompression as well, failed writes and crashes or not
\* (Seek, Read), but for the frames of version 1, the encrypted ones that were
\* written during or after a retry, and after a restart the compressed ones
\* whose end is behind the size of the file.
ReadsBack ==
    got # None =>
        \/ GotFrame
        \/ /\ got.is = None
           /\ \/ version = 1
              \/ enc /\ \E i \in 1..Len(torn) : torn[i] <= got.frame
              \/ comp /\ phase = "up" /\ Position(got.frame + 1) > Len(file)

\* The retry writer puts every unit of a frame into the file exactly once
\* and in order, however often a write is cut short (callbackRetryWriter).
EachUnitOnce ==
    (phase = "writing" /\ ~enc /\ ~comp) =>
        LET Done    == FlattenSeq([i \in 1..Len(frames) |->
                          Frame(i, frames[i] - frameMetadataSize)])
            content == SubSeq(file, version + 2, Len(file))
        IN  IF buf = <<>> THEN content = Done
            ELSE content \o buf
                   = Done \o Frame(Len(frames) + 1,
                                   Last(buf).num - frameMetadataSize)
====
