------------------------------ MODULE Readers -------------------------------
(***************************************************************************)
(* From bytes to lines and from lines to messages: the line reader, the    *)
(* multiline readers, the reader of container logs and the parsers of JSON *)
(* lines. They do not share state.                                         *)
(***************************************************************************)
EXTENDS Integers, Sequences, SequencesExt, FiniteSets, FiniteSetsExt, TLC

CONSTANT None

-----------------------------------------------------------------------------
(***************************************************************************)
(* The line reader (reader/readfile): bytes are read from a growing file   *)
(* in chunks of any size, cut into lines at the terminator, and every line *)
(* is returned with the number of bytes of the file it took.  Lines above  *)
(* max_bytes are skipped.  The readers above it strip the terminator and   *)
(* limit the length.                                                       *)
(*                                                                         *)
(* The codec is plain: a byte is decoded as itself.  The terminator, the   *)
(* limit and what happens at the end of the file are chosen at the start.  *)
(***************************************************************************)

CONSTANTS
  FileBytes,    \* the bytes written to the file; "r" is CR, "n" is LF
  Terminators,  \* the line terminators to choose from
  Limits,       \* the values of max_bytes; 0 is unlimited
  BufferSize,   \* the most bytes of one Read
  MaxFile       \* bound: bytes written to the file

VARIABLES
  file, read,                           \* the file, the bytes read of it
  inBuffer, inOffset, byteCount, lrPc,  \* the reader; lrPc is where Next is
  skipped,                              \* the bytes skipUntilNewLine has dropped
  nl, maxBytes, collectOnEOF,           \* the configuration
  lines, reported,                      \* history: what was returned
  cut                                   \* history of the skips: bytes EOF made them forget, where, and whether a chunk split a terminator

fileVars == <<file, read, inBuffer, inOffset, byteCount, lrPc, skipped, nl, maxBytes, collectOnEOF, lines, reported, cut>>
configVars == <<nl, maxBytes, collectOnEOF>>

BytesOf(s, from, to) == SubSeq(s, from + 1, to)
IndexFrom(s, from, seq) ==
  LET at == {i \in from..(Len(s) - Len(seq)) : BytesOf(s, i, i + Len(seq)) = seq} IN IF at = {} THEN -1 ELSE Min(at)

----------------------------------------------------------------------------
(* StripNewline: the automatic terminator also takes a CR in front of LF *)
lineEndingChars(l, auto) ==
  IF ~IsSuffix(nl, l) THEN 0
  ELSE IF auto /\ Len(l) > 1 /\ l[Len(l) - 1] = "r" THEN 2
  ELSE Len(nl)

StripNewline(l) == SubSeq(l, 1, Len(l) - lineEndingChars(l, nl = <<"n">>))

(* LimitReader: a longer line is snapped short, and flagged *)
LimitReader(content, max) ==
  IF Len(content) > max THEN [content |-> SubSeq(content, 1, max), flags |-> {"truncated"}]
  ELSE [content |-> content, flags |-> {}]

----------------------------------------------------------------------------
LineInit ==
  /\ file = <<>> /\ read = 0
  /\ inBuffer = <<>> /\ inOffset = 0 /\ byteCount = 0 /\ lrPc = "idle" /\ skipped = 0
  /\ nl \in Terminators /\ maxBytes \in Limits /\ collectOnEOF \in BOOLEAN
  /\ lines = <<>> /\ reported = 0 /\ cut = [bytes |-> 0, at |-> <<>>, split |-> FALSE]

WriteFile ==
  /\ Len(file) < MaxFile
  /\ \E b \in FileBytes : file' = Append(file, b)
  /\ UNCHANGED <<read, inBuffer, inOffset, byteCount, lrPc, skipped, configVars, lines, reported, cut>>

CallNext ==
  /\ lrPc = "idle"
  /\ lrPc' = "advance"
  /\ UNCHANGED <<file, read, inBuffer, inOffset, byteCount, skipped, configVars, lines, reported, cut>>

(* advance finds no terminator: the search is to go on where one may begin *)
SearchFurther ==
  /\ lrPc = "advance" /\ IndexFrom(inBuffer, inOffset, nl) = -1
  /\ inOffset' = Max({inOffset, Len(inBuffer) - Len(nl)})
  /\ lrPc' = "read"
  /\ UNCHANGED <<file, read, inBuffer, byteCount, skipped, configVars, lines, reported, cut>>

(* advance finds a terminator: decode takes the line, Next returns it and the
   bytes counted since the last one *)
ReturnLine ==
  LET idx == IndexFrom(inBuffer, inOffset, nl)
      sz == idx + Len(nl)
  IN  /\ lrPc = "advance" /\ idx # -1
      /\ lines' = Append(lines, [raw |-> BytesOf(inBuffer, 0, sz), content |-> StripNewline(BytesOf(inBuffer, 0, sz))])
      /\ inBuffer' = BytesOf(inBuffer, sz, Len(inBuffer))
      /\ inOffset' = 0
      /\ reported' = reported + byteCount + sz
      /\ byteCount' = 0
      /\ lrPc' = "idle"
      /\ UNCHANGED <<file, read, skipped, configVars, cut>>

(* The loop that drops the lines above the limit once they are complete *)
RECURSIVE DropLong(_, _, _)
DropLong(b, off, dropped) ==
  LET idx == IndexFrom(b, off, nl)
  IN  IF maxBytes = 0 \/ idx <= maxBytes THEN [buffer |-> b, offset |-> off, dropped |-> dropped]
      ELSE DropLong(BytesOf(b, idx + Len(nl), Len(b)), 0, dropped + idx + Len(nl))

(* A Read in advance.  An unfinished line above the limit is dropped, and the
   rest of it is skipped. *)
ReadMore ==
  \E n \in 1..BufferSize :
    LET d == DropLong(inBuffer \o BytesOf(file, read, read + n), inOffset, 0)
        long == maxBytes # 0 /\ IndexFrom(d.buffer, d.offset, nl) = -1 /\ Len(d.buffer) > maxBytes
    IN  /\ lrPc = "read" /\ read + n <= Len(file)
        /\ read' = read + n
        /\ byteCount' = byteCount + d.dropped
        /\ inBuffer' = IF long THEN <<>> ELSE d.buffer
        /\ inOffset' = IF long THEN 0 ELSE d.offset
        /\ skipped' = IF long THEN Len(d.buffer) ELSE 0
        /\ lrPc' = IF long THEN "skip" ELSE "advance"
        /\ UNCHANGED <<file, configVars, lines, reported, cut>>

(* A terminator lies across the position i of the file *)
Straddles(i) ==
  \E k \in 1..(Len(nl) - 1) :
    i - k >= 0 /\ i - k + Len(nl) <= Len(file) /\ BytesOf(file, i - k, i - k + Len(nl)) = nl

(* A Read in skipUntilNewLine: the terminator is looked for in the chunk *)
skipUntilNewLine ==
  \E n \in 1..BufferSize :
    LET chunk == BytesOf(file, read, read + n)
        idx == IndexFrom(chunk, 0, nl)
    IN  /\ lrPc = "skip" /\ read + n <= Len(file)
        /\ read' = read + n
        /\ IF idx = -1
           THEN /\ skipped' = skipped + n
                /\ UNCHANGED <<inBuffer, byteCount, lrPc>>
           ELSE /\ inBuffer' = BytesOf(chunk, idx + Len(nl), n)
                /\ byteCount' = byteCount + skipped + idx + Len(nl)
                /\ skipped' = 0
                /\ lrPc' = "advance"
        /\ cut' = [cut EXCEPT !.split = @ \/ Straddles(read)]
        /\ UNCHANGED <<file, inOffset, configVars, lines, reported>>

(* A Read at the end of the file.  Next returns what there is when that is
   configured; it is not called again then.  The bytes that were being skipped
   are counted nowhere. *)
ReadEOF ==
  /\ lrPc \in {"read", "skip"} /\ read = Len(file)
  /\ IF collectOnEOF
     THEN /\ lines' = IF inBuffer = <<>> THEN lines ELSE Append(lines, [raw |-> inBuffer, content |-> inBuffer])
          /\ reported' = reported + byteCount + Len(inBuffer)
          /\ inBuffer' = <<>>
          /\ lrPc' = "ended"
     ELSE /\ reported' = reported + byteCount
          /\ lrPc' = "idle"
          /\ UNCHANGED <<lines, inBuffer>>
  /\ byteCount' = 0
  /\ cut' = IF lrPc = "skip" THEN [cut EXCEPT !.bytes = @ + skipped, !.at = Append(@, read)] ELSE cut
  /\ skipped' = 0
  /\ UNCHANGED <<file, read, inOffset, configVars>>

LineNext ==
  WriteFile \/ CallNext \/ SearchFurther \/ ReturnLine \/ ReadMore \/ skipUntilNewLine \/ ReadEOF

----------------------------------------------------------------------------
(* Next returns "the number of bytes consumed from the underlying reader", the
   ones of the lines it skipped included (line.go:84-89): all that was read and
   is not buffered has been reported.  Not so in the code: advance forgets the
   bytes it was skipping when it meets the end of the file (line.go:221-225). *)
AllBytesReported == reported + byteCount + skipped + Len(inBuffer) = read

(* What holds: the numbers of bytes that Next returns add up to the bytes read
   from the file, less those still buffered and less exactly those of the skips
   that met the end of the file, however the file was read. *)
OffsetsAddUp == reported + byteCount + skipped + Len(inBuffer) + cut.bytes = read

RECURSIVE LinesOf(_)
LinesOf(s) ==
  LET idx == IndexFrom(s, 0, nl)
  IN  IF idx = -1 THEN <<>> ELSE <<BytesOf(s, 0, idx + Len(nl))>> \o LinesOf(BytesOf(s, idx + Len(nl), Len(s)))

(* The lines below the limit that were returned, and those of the file from
   one position to another *)
Short(l) == maxBytes = 0 \/ Len(l) <= maxBytes + Len(nl)
ShortReturned == SelectSeq([i \in DOMAIN lines |-> lines[i].raw], LAMBDA l : Short(l) /\ IsSuffix(nl, l))
ShortOf(from, to) == SelectSeq(LinesOf(BytesOf(file, from, to)), Short)
Consumed == (read - Len(inBuffer)) - skipped

(* "Next reads the next line until the new line character" (line.go:84): the
   lines returned are those of the file that are below the limit.  Not so in the
   code when a line that is skipped meets the end of the file, since its rest is
   taken for a line of its own (line.go:221-225), or when two chunks of it split
   a terminator, since the next line is skipped with it (line.go:277). *)
LinesAreAlwaysTheFile == ShortReturned = ShortOf(0, Consumed)

(* What holds: the lines returned are the lines of the file, in its order, none
   of them twice, cut or glued, whatever the chunks.  The file begins anew where
   a skip met its end.  Nothing is said once a terminator was split in a skip. *)
LinesAreTheFile ==
  LET from == <<0>> \o cut.at
      to == cut.at \o <<Consumed>>
  IN  ~cut.split => ShortReturned = FlattenSeq([i \in DOMAIN from |-> ShortOf(from[i], to[i])])

-----------------------------------------------------------------------------
(***************************************************************************)
(* The multiline readers (reader/multiline) over the timeout reader        *)
(* (reader/readfile/timeout.go): lines are joined into one message as long *)
(* as a pattern says they belong together, or by their number, and what is *)
(* collected is flushed after a timeout or an error.                       *)
(*                                                                         *)
(* The pattern and while readers read through a goroutine of the timeout   *)
(* reader and a channel of one place.  A line is its text and its bytes on *)
(* file; a line of no bytes is none.  Patterns are sets of texts.          *)
(***************************************************************************)

CONSTANTS
  Texts,    \* the texts of the lines
  Pattern,  \* those the pattern matches
  Flush,    \* those the flush pattern matches
  Configs,  \* the configurations to choose from
  MaxLines  \* bound: results of the underlying reader

VARIABLES
  config,                     \* the configuration
  worker, ch, running,        \* TimeoutReader: its goroutine, its channel
  state, msgBuffer, calling,  \* the multiline reader; calling: inside Next
  produced, returned          \* history

multiVars == <<config, worker, ch, running, state, msgBuffer, calling, produced, returned>>

Separator == <<"n">>
Line(text, bytes, err) == [text |-> text, bytes |-> bytes, err |-> err]
Nothing == Line(<<>>, 0, "")
Timeout == Line(<<>>, 0, "timeout")
HasTimeout == config.type # "count"

----------------------------------------------------------------------------
(* The message buffer.  texts is history: the lines added to it. *)
Clear == [content |-> <<>>, texts |-> <<>>, last |-> <<>>, numLines |-> 0, processed |-> 0, truncated |-> 0, err |-> "", bytes |-> 0]

(* addLine: the text is added as far as the limits allow *)
addLine(b, m) ==
  LET sep == IF b.content # <<>> /\ ~config.skipNewline THEN Separator ELSE <<>>
      room == config.maxBytes - Len(b.content \o sep)
      space == IF room < 0 \/ room > Len(m.text) THEN Len(m.text) ELSE room
      fits == (config.maxBytes <= 0 \/ room > 0) /\ (config.maxLines <= 0 \/ b.numLines < config.maxLines)
  IN  IF m.bytes <= 0 THEN b
      ELSE [b EXCEPT !.content = IF fits THEN @ \o sep \o SubSeq(m.text, 1, space) ELSE @,
              !.numLines = IF fits THEN @ + 1 ELSE @,
              !.truncated = IF fits THEN @ + (Len(m.text) - space) ELSE @ + Len(m.text),
              !.processed = @ + 1, !.last = m.text, !.bytes = @ + m.bytes, !.texts = Append(@, m.text)]

load(b, m) == addLine(b, m)
startNewMessage(m) == load(Clear, m)
isEmpty(b) == b.numLines = 0
isEmptyMessage(b) == b.bytes = 0

(* finalize: the message and its flags; why is history *)
finalize(b, why) ==
  [content |-> b.content, bytes |-> b.bytes, err |-> "", texts |-> b.texts, why |-> why,
   flags |-> (IF b.truncated > 0 THEN {"truncated"} ELSE {}) \cup (IF b.numLines > 1 THEN {"multiline"} ELSE {})]

Passed(m, err) ==
  [content |-> m.text, bytes |-> m.bytes, err |-> err, texts |-> IF m.bytes > 0 THEN <<m.text>> ELSE <<>>, why |-> "passed", flags |-> {}]

(* What a reader does with a result of the one below: it goes on reading, or
   returns a message and sets its state and buffer *)
GoOn(b, st) == [ret |-> <<>>, buffer |-> b, state |-> st]
Return(msg, b, st) == [ret |-> <<msg>>, buffer |-> b, state |-> st]
collectMessageAfterError(b, m) == Return(finalize(b, "error"), [Clear EXCEPT !.err = m.err], "readFailed")

----------------------------------------------------------------------------
(* The pattern reader *)
pred(last, current) ==
  LET line == IF config.match = "after" THEN current ELSE last IN (line \in Pattern) # config.negate

PatternFirst(b, m) ==
  IF m.err = "timeout" THEN GoOn(b, "readFirst")
  ELSE IF m.err # "" THEN Return(Passed(m, m.err), b, "readFirst")
  ELSE IF m.bytes = 0 THEN GoOn(b, "readFirst")
  ELSE GoOn(startNewMessage(m), "readNext")

(* Mutant: the line that begins the next message is dropped *)
PatternNextDrops(b, m) ==
  IF m.err = "timeout"
  THEN IF isEmpty(b) THEN GoOn(b, "readNext") ELSE Return(finalize(b, "timeout"), Clear, "readFirst")
  ELSE IF m.err # "" /\ m.bytes = 0
  THEN IF isEmpty(b) THEN Return(Passed(Nothing, m.err), b, "readNext") ELSE collectMessageAfterError(b, m)
  ELSE IF m.err # "" /\ (isEmptyMessage(b) \/ pred(b.last, m.text)) THEN collectMessageAfterError(addLine(b, m), m)
  ELSE IF m.err = "" /\ config.flush /\ m.text \in Flush THEN Return(finalize(addLine(b, m), "flush"), Clear, "readFirst")
  ELSE IF ~isEmptyMessage(b) /\ ~pred(b.last, m.text) THEN Return(finalize(b, "pattern"), Clear, "readNext")
  ELSE GoOn(addLine(b, m), "readNext")

PatternNext(b, m) ==
  IF m.err = "timeout"
  THEN IF isEmpty(b) THEN GoOn(b, "readNext") ELSE Return(finalize(b, "timeout"), Clear, "readFirst")
  ELSE IF m.err # "" /\ m.bytes = 0
  THEN IF isEmpty(b) THEN Return(Passed(Nothing, m.err), b, "readNext") ELSE collectMessageAfterError(b, m)
  ELSE IF m.err # "" /\ (isEmptyMessage(b) \/ pred(b.last, m.text)) THEN collectMessageAfterError(addLine(b, m), m)
  ELSE IF m.err = "" /\ config.flush /\ m.text \in Flush THEN Return(finalize(addLine(b, m), "flush"), Clear, "readFirst")
  ELSE IF ~isEmptyMessage(b) /\ ~pred(b.last, m.text) THEN Return(finalize(b, "pattern"), load(Clear, m), "readNext")
  ELSE GoOn(addLine(b, m), "readNext")

(* The while reader: lines that match are joined, the others stand alone *)
matcher(text) == (text \in Pattern) # config.negate

WhileFirst(b, m) ==
  IF m.err = "timeout" THEN GoOn(b, "readFirst")
  ELSE IF m.err # "" THEN Return(Passed(m, m.err), b, "readFirst")
  ELSE IF m.bytes = 0 THEN GoOn(b, "readFirst")
  ELSE IF ~matcher(m.text) THEN Return(Passed(m, ""), b, "readFirst")
  ELSE GoOn(startNewMessage(m), "readNext")

WhileNext(b, m) ==
  IF m.err = "timeout"
  THEN IF isEmpty(b) THEN GoOn(b, "readNext") ELSE Return(finalize(b, "timeout"), Clear, "readFirst")
  ELSE IF m.err # "" /\ m.bytes = 0
  THEN IF isEmpty(b) THEN Return(Passed(Nothing, m.err), b, "readNext") ELSE collectMessageAfterError(b, m)
  ELSE IF m.err # "" /\ (isEmptyMessage(b) \/ matcher(m.text)) THEN collectMessageAfterError(addLine(b, m), m)
  ELSE IF ~matcher(m.text) /\ m.err = "" /\ isEmptyMessage(b) THEN Return(Passed(m, ""), b, "readNext")
  ELSE IF ~matcher(m.text) THEN Return(finalize(b, "pattern"), load(Clear, m), "notMatched")
  ELSE GoOn(addLine(b, m), "readNext")

(* The count reader; an error that comes with a line is not kept *)
CountFirst(b, m) ==
  IF m.err # "" THEN Return(Passed(m, m.err), b, "readFirst")
  ELSE IF m.bytes = 0 THEN GoOn(b, "readFirst")
  ELSE IF config.count = 1 THEN Return(finalize(startNewMessage(m), "count"), Clear, "readFirst")
  ELSE GoOn(startNewMessage(m), "readNext")

CountNext(b, m) ==
  LET more == addLine(b, m)
  IN  IF m.err # "" /\ m.bytes = 0 /\ isEmpty(b) THEN Return(Passed(Nothing, m.err), b, "readNext")
      ELSE IF m.err # "" /\ m.bytes = 0 THEN collectMessageAfterError(b, m)
      ELSE IF m.err # "" /\ isEmptyMessage(b) THEN collectMessageAfterError(more, m)
      ELSE IF more.processed = config.count THEN Return(finalize(more, "count"), Clear, "readFirst")
      ELSE GoOn(more, "readNext")

Handle(m) ==
  CASE config.type = "pattern" -> IF state = "readFirst" THEN PatternFirst(msgBuffer, m) ELSE PatternNext(msgBuffer, m)
    [] config.type = "while" -> IF state = "readFirst" THEN WhileFirst(msgBuffer, m) ELSE WhileNext(msgBuffer, m)
    [] config.type = "count" -> IF state = "readFirst" THEN CountFirst(msgBuffer, m) ELSE CountNext(msgBuffer, m)

----------------------------------------------------------------------------
MultiInit ==
  /\ config \in Configs
  /\ worker = <<>> /\ ch = <<>> /\ running = FALSE
  /\ state = "readFirst" /\ msgBuffer = Clear /\ calling = FALSE
  /\ produced = <<>> /\ returned = <<>>

(* The results of the underlying reader: a line, nothing, an error, or the
   last bytes with an error, which is named apart from one that comes alone *)
Results ==
  {Line(t, Len(t) + 1, "") : t \in Texts} \cup {Line(t, Len(t), "torn") : t \in Texts \ {<<>>}} \cup {Nothing, Line(<<>>, 0, "EOF")}

(* Next, in the states that do not read *)
readFailed ==
  /\ ~calling /\ state = "readFailed"
  /\ returned' = Append(returned, Passed(Nothing, msgBuffer.err))
  /\ msgBuffer' = [msgBuffer EXCEPT !.err = ""]
  /\ state' = "readFirst"
  /\ UNCHANGED <<config, worker, ch, running, calling, produced>>

notMatchedMessageLoad ==
  /\ ~calling /\ state = "notMatched"
  /\ returned' = Append(returned, finalize(msgBuffer, "alone"))
  /\ msgBuffer' = Clear
  /\ state' = "readFirst"
  /\ UNCHANGED <<config, worker, ch, running, calling, produced>>

StartCall ==
  /\ ~calling /\ state \in {"readFirst", "readNext"}
  /\ calling' = TRUE
  /\ UNCHANGED <<config, worker, ch, running, state, msgBuffer, produced, returned>>

(* TimeoutReader.Next starts the goroutine when none runs *)
StartWorker ==
  /\ calling /\ HasTimeout /\ ~running
  /\ running' = TRUE
  /\ worker' = <<"reading">>
  /\ UNCHANGED <<config, ch, state, msgBuffer, calling, produced, returned>>

WorkerRead ==
  /\ worker = <<"reading">>
  /\ Len(produced) < MaxLines
  /\ \E m \in Results : worker' = <<"sending", m>> /\ produced' = Append(produced, m)
  /\ UNCHANGED <<config, ch, running, state, msgBuffer, calling, returned>>

(* The goroutine ends behind an error *)
WorkerSend ==
  /\ Len(worker) = 2 /\ ch = <<>>
  /\ ch' = <<worker[2]>>
  /\ worker' = IF worker[2].err = "" THEN <<"reading">> ELSE <<>>
  /\ UNCHANGED <<config, running, state, msgBuffer, calling, produced, returned>>

Handled(h) ==
  /\ msgBuffer' = h.buffer
  /\ state' = h.state
  /\ returned' = returned \o h.ret
  /\ calling' = (h.ret = <<>>)

Apply(m) == Handled(Handle(m))

Receive ==
  /\ calling /\ ch # <<>>
  /\ ch' = <<>>
  /\ running' = (ch[1].err = "")
  /\ Apply(ch[1])
  /\ UNCHANGED <<config, worker, produced>>

TimerFires ==
  /\ calling /\ running
  /\ Apply(Timeout)
  /\ UNCHANGED <<config, worker, ch, running, produced>>

(* The count reader reads without the timeout reader *)
ReadDirectly ==
  /\ calling /\ ~HasTimeout
  /\ Len(produced) < MaxLines
  /\ \E m \in Results : Apply(m) /\ produced' = Append(produced, m)
  /\ UNCHANGED <<config, worker, ch, running>>

MultiNext ==
  readFailed \/ notMatchedMessageLoad \/ StartCall \/ StartWorker \/ WorkerRead \/ WorkerSend
  \/ Receive \/ TimerFires \/ ReadDirectly

----------------------------------------------------------------------------
(* What came from below and what was returned as one stream of lines and errors *)
LineItems(texts) == [i \in DOMAIN texts |-> [line |-> texts[i], err |-> ""]]
ErrItem(err) == IF err = "" THEN <<>> ELSE <<[line |-> <<>>, err |-> err]>>
ItemsOf(m) == (IF m.bytes > 0 THEN LineItems(<<m.text>>) ELSE <<>>) \o ErrItem(m.err)
ItemsIn(ms) == FlattenSeq([i \in DOMAIN ms |-> ItemsOf(ms[i])])
ItemsOut ==
  FlattenSeq([i \in DOMAIN returned |-> LineItems(returned[i].texts) \o ErrItem(returned[i].err)])
  \o LineItems(msgBuffer.texts) \o ErrItem(msgBuffer.err) \o ItemsIn(ch \o SubSeq(worker, 2, Len(worker)))

Untorn(items) == SelectSeq(items, LAMBDA x : x.err # "torn")
TornAfter(items) ==
  {Len(SelectSeq(SubSeq(items, 1, i), LAMBDA x : x.err = "")) : i \in {j \in DOMAIN items : items[j].err = "torn"}}

(* Every line and every error from below comes out exactly once, in order.  Not
   so in the code for an error that comes with the last bytes of a line: when
   the line belongs to another message, the pattern and while readers drop the
   error, awaiting it "being reproduced (or resolved)" (pattern.go:199-204,
   while.go:158-163), and the count reader drops it behind any other line. *)
ErrorsAlwaysComeOut == ItemsOut = ItemsIn(produced)

(* What holds: every line read below comes out in exactly one message, and every
   error that comes without a line exactly once, in order: timeouts, errors and
   the goroutine that reads ahead lose and repeat none.  An error that comes
   with a line comes out at most once, behind that line. *)
LinesComeOutOnce ==
  /\ Untorn(ItemsOut) = Untorn(ItemsIn(produced))
  /\ TornAfter(ItemsOut) \subseteq TornAfter(ItemsIn(produced))
  /\ \A i \in 2..Len(ItemsOut) : ItemsOut[i].err = "torn" => ItemsOut[i - 1].err = ""

(* The messages are what the configuration asks for.  Lines in one message
   belong together, but for the one that matches the flush pattern; the first
   line of the next message does not belong to one that was not flushed by the
   timeout, an error, the flush pattern or an empty result from below; and a
   message by number has that number of lines. *)
GroupsAsConfigured ==
  \A i \in DOMAIN returned :
    LET m == returned[i]
        n == Len(m.texts)
        joined == IF m.why = "flush" THEN n - 1 ELSE n
    IN  /\ (config.type = "pattern" => \A k \in 2..joined : pred(m.texts[k - 1], m.texts[k]))
        /\ (config.type = "while" /\ n > 1 => \A k \in 1..n : matcher(m.texts[k]))
        /\ (config.type = "pattern" /\ m.why = "pattern" /\ Nothing \notin Range(produced) /\ i < Len(returned) /\ returned[i + 1].texts # <<>>
              => ~pred(m.texts[n], returned[i + 1].texts[1]))
        /\ (m.why = "count" => n = config.count)

JoinLines(ts) ==
  FoldLeft(LAMBDA c, t : IF c = <<>> \/ config.skipNewline THEN c \o t ELSE c \o Separator \o t, <<>>, ts)

(* The content of a message is the beginning of its lines, within the limit,
   and the flag says when some of their text is missing. *)
CutIsTold ==
  \A i \in DOMAIN returned :
    LET m == returned[i]
        missing == Len(SelectSeq(JoinLines(m.texts), LAMBDA c : c # "n")) - Len(SelectSeq(m.content, LAMBDA c : c # "n"))
    IN  /\ IsPrefix(m.content, JoinLines(m.texts))
        /\ (m.why \notin {"passed"} => Len(m.content) <= config.maxBytes)
        /\ ("truncated" \in m.flags <=> missing > 0)

-----------------------------------------------------------------------------
(***************************************************************************)
(* The reader of container logs (reader/readjson/docker_json.go): lines in *)
(* the formats of Docker or CRI are parsed, parts of a line are joined,    *)
(* and lines of the other stream are skipped.  The bytes of all lines a    *)
(* message stands for are counted, since inputs continue from them.        *)
(***************************************************************************)

CONSTANTS
  MaxLogLines,  \* bound: lines of the log
  MaxErrors     \* bound: errors of the reader below, as the end of the file

Streams == {"stdout", "stderr"}

VARIABLES
  cfg,       \* [stream, partial, format, criflags]
  logLines,  \* lines read so far
  errors,    \* errors so far
  pc,        \* of Next: "idle", "next", "join"
  message,   \* its message: the lines its content is made of
  logLine,   \* [Partial, Stream] of the line parsed last
  logBytes,
  out,       \* what Next has returned: [content, bytes, err]
  mixed      \* parts of both streams were joined, or a broken line named another stream

readerVars == <<cfg, logLines, errors, pc, message, logLine, logBytes, out, mixed>>

NoLine == [Partial |-> FALSE, Stream |-> ""]

(* NewContainerParser, and New for the container input *)
ReaderInit ==
  /\ cfg \in [stream : {"all", "stdout"}, partial : BOOLEAN, format : {"auto", "cri", "docker"}, criflags : BOOLEAN]
  /\ logLines = <<>> /\ errors = 0 /\ pc = "idle" /\ message = <<>> /\ logLine = NoLine /\ logBytes = 0 /\ out = <<>> /\ mixed = FALSE

(* A line of the log: of one format, whole or a part, perhaps with a broken time *)
Lines == {l \in [kind : {"docker", "cri"}, stream : Streams, partial : BOOLEAN, ok : BOOLEAN] : l.ok \/ ~l.partial}

(******************************** parsing ********************************)

parseCRILog(l, line) ==
  IF l.kind # "cri" \/ ~l.ok THEN [err |-> TRUE, line |-> line]
  ELSE [err |-> FALSE, line |-> [Partial |-> cfg.criflags /\ l.partial, Stream |-> l.stream]]

(* The line's stream is set before its time is parsed *)
parseDockerJSONLog(l, line) ==
  IF l.kind # "docker" THEN [err |-> TRUE, line |-> line]
  ELSE IF ~l.ok THEN [err |-> TRUE, line |-> [line EXCEPT !.Stream = l.stream]]
  ELSE [err |-> FALSE, line |-> [Partial |-> l.partial, Stream |-> l.stream]]

parseLine(l, line) ==
  CASE cfg.format = "cri" -> parseCRILog(l, line)
    [] cfg.format = "docker" -> parseDockerJSONLog(l, line)
    [] cfg.format = "auto" -> IF l.kind = "docker" THEN parseDockerJSONLog(l, line) ELSE parseCRILog(l, line)

(********************************* Next **********************************)

CallLogNext ==
  /\ pc = "idle" /\ pc' = "next" /\ logBytes' = 0 /\ message' = <<>> /\ logLine' = NoLine
  /\ UNCHANGED <<cfg, logLines, errors, out, mixed>>

ReturnLog(content, n, err) == out' = Append(out, [content |-> content, bytes |-> n, err |-> err])

(* A message that is complete goes out unless it is of the other stream *)
Complete(content, line, n) ==
  IF cfg.partial /\ line.Partial THEN pc' = "join" /\ message' = content /\ logLine' = line /\ logBytes' = n /\ UNCHANGED out
  ELSE IF cfg.stream # "all" /\ cfg.stream # line.Stream
       THEN pc' = "next" /\ message' = <<>> /\ logLine' = NoLine /\ logBytes' = n /\ UNCHANGED out
       ELSE ReturnLog(content, n, FALSE) /\ pc' = "idle" /\ message' = <<>> /\ logLine' = NoLine /\ logBytes' = 0

ReadLine(l) ==
  LET id == Len(logLines) + 1
      p == parseLine(l, IF pc = "next" THEN NoLine ELSE logLine)
  IN /\ pc \in {"next", "join"} /\ Len(logLines) < MaxLogLines /\ logLines' = Append(logLines, l)
     /\ IF p.err
        THEN /\ logBytes' = logBytes + 1 /\ logLine' = (IF pc = "join" THEN p.line ELSE NoLine)
             /\ UNCHANGED <<pc, message, out>>
        ELSE Complete(IF pc = "next" THEN <<id>> ELSE Append(message, id), p.line, logBytes + 1)
     /\ mixed' = (mixed \/ (pc = "join" /\ p.line.Stream # logLine.Stream))
     /\ UNCHANGED <<cfg, errors>>

(* An error of the reader below is returned with the bytes, and the parts, so far *)
ReadError ==
  /\ pc \in {"next", "join"} /\ errors < MaxErrors /\ errors' = errors + 1
  /\ ReturnLog(message, logBytes, TRUE) /\ pc' = "idle" /\ message' = <<>> /\ logLine' = NoLine /\ logBytes' = 0
  /\ UNCHANGED <<cfg, logLines, mixed>>

ReaderNext == CallLogNext \/ (\E l \in Lines : ReadLine(l)) \/ ReadError

(****************************** properties *******************************)

Sum(s) == FoldLeft(LAMBDA n, r : n + r.bytes, 0, s)

(* The bytes of the returned messages, those with an error included, add up to what
   was read: an input that continues from there misses no line and repeats none,
   whatever was skipped, broken or joined *)
BytesAddUp == Sum(out) + logBytes = Len(logLines)

Contents == FlattenSeq([i \in DOMAIN out |-> out[i].content]) \o message
Good(i) == ~parseLine(logLines[i], NoLine).err

(* Of the other stream are only parts whose line has not ended yet, or was cut by an error *)
Unfiltered == ToSet(message) \cup UNION {ToSet(out[o].content) : o \in {x \in DOMAIN out : out[x].err}}

(* All lines that can be parsed, and are of the wanted stream, are in a message, in
   order and once, as long as the parts of a line are of one stream *)
LinesAreKept ==
  ~mixed => Contents = SelectSeq([i \in DOMAIN logLines |-> i],
                                 LAMBDA i : Good(i) /\ (cfg.stream \in {"all", logLines[i].stream} \/ i \in Unfiltered))

(* A message returned without an error is a whole line: parts up to the one that
   ends it *)
MessagesAreWhole ==
  \A o \in DOMAIN out : (~out[o].err /\ cfg.partial) =>
    LET c == out[o].content
    IN \A j \in DOMAIN c : parseLine(logLines[c[j]], NoLine).line.Partial = (j < Len(c))

-----------------------------------------------------------------------------
(***************************************************************************)
(* The readers of lines with JSON documents (reader/readjson/json.go) and  *)
(* the list of parsers an input puts on top of each other                  *)
(* (reader/parser/parser.go).  A document is a function of keys to values; *)
(* the line's text, what is wrong with it and the configuration decide     *)
(* where text and fields go.                                               *)
(***************************************************************************)

VARIABLES call, result

(* A line: its text and the document in it, None when it is not one or null *)
JsonLine(text, doc) == [text |-> text, doc |-> doc]
Text(t) == [kind |-> "text", value |-> t]
Number(n) == [kind |-> "number", value |-> n]
JsonError(e) == [kind |-> "error", value |-> e]
NoFields == <<>>

(******************************** decode *********************************)

(* decode: the text to go on with, and the fields; None for no map of fields *)
decode(c, line) ==
  LET failed(why) == IF c.addErrorKey THEN ("error" :> JsonError(why)) ELSE NoFields
      fields == line.doc
  IN IF line.doc = None THEN [text |-> line.text, fields |-> IF c.addErrorKey THEN failed("decoding") ELSE None]
     ELSE IF c.messageKey = "" THEN [text |-> "", fields |-> fields]
     ELSE IF c.messageKey \notin DOMAIN fields THEN [text |-> "", fields |-> failed("not found") @@ fields]
     ELSE IF fields[c.messageKey].kind # "text" THEN [text |-> "", fields |-> failed("not a string") @@ fields]
     ELSE [text |-> fields[c.messageKey].value, fields |-> fields]

(* JSONReader.Next: the fields go below "json" *)
JSONReaderNext(c, m) == LET d == decode(c, m.line) IN [m EXCEPT !.content = d.text, !.json = d.fields]

DropKey(f, k) == [x \in DOMAIN f \ {k} |-> f[x]]

(* The document's ID moves to the metadata, when it is a text *)
TakeID(c, m, fields) ==
  IF c.documentID # "" /\ c.documentID \in DOMAIN fields /\ fields[c.documentID].kind = "text"
  THEN [message |-> [m EXCEPT !.id = fields[c.documentID].value], fields |-> DropKey(fields, c.documentID)]
  ELSE [message |-> m, fields |-> fields]

(* WriteJSONKeys at the root of the event: present keys stay unless overwrite_keys *)
WriteKeys(c, m, fields) == [m EXCEPT !.fields = IF c.overwriteKeys THEN fields @@ @ ELSE @ @@ fields]

(* JSONParser.Next *)
ParserNext(c, m) ==
  LET d == decode(c, m.line)
      fetched == [m EXCEPT !.content = d.text]
  IN IF d.fields = None \/ d.fields = NoFields THEN fetched
     ELSE LET keyed == IF c.messageKey # "" /\ d.text # "" THEN (c.messageKey :> Text(d.text)) @@ d.fields ELSE d.fields
              told == IF DOMAIN keyed = {"error"} THEN [fetched EXCEPT !.fields = ("message" :> Text(d.text)) @@ @] ELSE fetched
              t == TakeID(c, told, keyed)
          IN IF c.target = "" THEN WriteKeys(c, t.message, t.fields)
             ELSE [t.message EXCEPT !.below = t.fields]

(* MergeJSONFields, for the event of a message that JSONReader made; a time of the
   other type is not taken over *)
MergeJSONFields(c, m) ==
  LET keyed == IF c.messageKey # "" THEN (c.messageKey :> Text(m.content)) @@ m.json ELSE m.json
      told == IF DOMAIN keyed = {"error"} THEN [m EXCEPT !.fields = ("message" :> Text(m.content)) @@ @] ELSE m
      t == TakeID(c, told, keyed)
  IN IF ~c.keysUnderRoot THEN [t.message EXCEPT !.json = t.fields]
     ELSE [WriteKeys(c, [t.message EXCEPT !.json = None], t.fields) EXCEPT !.ts = IF m.ts = "common" THEN "zero" ELSE m.ts]

(******************************** parsers ********************************)

Parsers == {"multiline", "ndjson", "container", "syslog", "include_message"}

(* NewConfig checks every parser's configuration; one of them may choose a stream *)
NewConfig(parsers) ==
  LET chooses == {i \in DOMAIN parsers : parsers[i].name = "container" /\ parsers[i].stream # "all"}
  IN IF \E i \in DOMAIN parsers : parsers[i].name \notin Parsers \/ ~parsers[i].valid THEN [err |-> TRUE, suffix |-> ""]
     ELSE IF Cardinality(chooses) > 1 THEN [err |-> TRUE, suffix |-> ""]
     ELSE [err |-> FALSE, suffix |-> IF chooses = {} THEN "" ELSE parsers[CHOOSE i \in chooses : TRUE].stream]

(* Create: in the configured order, each reading from the one before; a parser that
   cannot be made ends the list *)
Create(parsers) ==
  LET bad == {i \in DOMAIN parsers : parsers[i].name \notin Parsers \/ ~parsers[i].valid}
      n == IF bad = {} THEN Len(parsers) ELSE (CHOOSE i \in bad : \A j \in bad : i <= j) - 1
  IN [i \in 1..n |-> parsers[i].name]

(********************************* calls *********************************)

Docs == {None, NoFields, ("error" :> Text("e"))} \cup
        {("m" :> v) @@ ("id" :> w) : v \in {Text("t"), Text(""), Number(1)}, w \in {Text("7"), Number(7)}} \cup {("a" :> Number(1))}
JsonConfigs == [messageKey : {"", "m"}, documentID : {"", "id"}, addErrorKey : BOOLEAN, overwriteKeys : BOOLEAN, target : {"", "t"}, keysUnderRoot : BOOLEAN]
Message(line, fields, ts) == [line |-> line, content |-> line.text, fields |-> fields, json |-> None, below |-> None, id |-> "", ts |-> ts]

JsonInit == call = None /\ result = None

CallParser ==
  call = None /\ \E c \in JsonConfigs, doc \in Docs, f \in {NoFields, ("a" :> Number(0))} :
    /\ call' = [op |-> "parser", c |-> c, m |-> Message(JsonLine("text", doc), f, "set")]
    /\ result' = ParserNext(c, Message(JsonLine("text", doc), f, "set"))

CallMerge ==
  call = None /\ \E c \in JsonConfigs, doc \in Docs, f \in {NoFields, ("a" :> Number(0))}, ts \in {"set", "common"} :
    LET m == JSONReaderNext(c, Message(JsonLine("text", doc), f, ts))
    IN /\ m.json # None /\ call' = [op |-> "merge", c |-> c, m |-> m]
       /\ result' = MergeJSONFields(c, m)

CallParsers ==
  call = None /\ \E n \in 0..3 : \E parsers \in [1..n -> [name : {"multiline", "ndjson", "container", "other"}, stream : {"all", "stdout"}, valid : BOOLEAN]] :
    /\ call' = [op |-> "parsers", c |-> parsers, m |-> None]
    /\ result' = [config |-> NewConfig(parsers), made |-> Create(parsers)]

JsonNext == CallParser \/ CallMerge \/ CallParsers

(****************************** properties *******************************)

Values(f) == IF f = None THEN {} ELSE {f[k] : k \in DOMAIN f}
Everywhere(r) == Values(r.fields) \cup Values(r.json) \cup Values(r.below) \cup {Text(r.content), Text(r.id)}

(* A line that holds no document is not lost: its text is still the content of the
   message, or its field "message", with or without add_error_key *)
BrokenLinesAreKept ==
  (call # None /\ call.op \in {"parser", "merge"} /\ call.m.line.doc = None) => Text("text") \in Everywhere(result)

(* All values of a document arrive, at the root of the event, below the target or
   as the message's ID; at the root the event's own fields win unless overwrite_keys *)
ValuesArrive ==
  (call # None /\ call.op \in {"parser", "merge"} /\ call.m.line.doc # None) =>
    \A k \in DOMAIN call.m.line.doc :
      \/ call.m.line.doc[k] \in Everywhere(result)
      \/ k = "a" /\ ~call.c.overwriteKeys /\ "a" \in DOMAIN call.m.fields
      \/ k = "m" /\ call.c.messageKey = "m" /\ call.op = "merge"
      \/ k = "error" /\ call.c.addErrorKey

(* A list of parsers that was accepted is built as a whole, in its order *)
AcceptedIsBuilt ==
  (call # None /\ call.op = "parsers" /\ ~result.config.err) => result.made = [i \in DOMAIN call.c |-> call.c[i].name]
=============================================================================
