---------------------------- MODULE StreamBuffer ----------------------------
(***************************************************************************)
(* The stream buffer that parsers read from (common/streambuf), its use by *)
(* parsers that are called again when more bytes arrive, and the JSON      *)
(* reader that takes the response to a bulk request apart with it.         *)
(***************************************************************************)
EXTENDS Integers, Sequences, SequencesExt, FiniteSets, FiniteSetsExt

CONSTANT None

-----------------------------------------------------------------------------
(***************************************************************************)
(* The operations of the stream buffer (common/streambuf) on the record of *)
(* its fields.  Streambuf is a stream that is read through it, JsonReader  *)
(* a parser on a buffer that holds a whole document.                       *)
(***************************************************************************)

CR == "r"
LF == "n"
Digit == {"0", "1"}
NoErr == ""
EmptyBuffer == [data |-> <<>>, err |-> NoErr, fixed |-> FALSE, mark |-> 0, offset |-> 0, available |-> 0]

Part(s, from, to) == SubSeq(s, from + 1, to)
Rest(b) == Part(b.data, b.mark, Len(b.data))
Behind(b) == Part(b.data, b.offset, Len(b.data))
IndexIn(s, seq) ==
  LET at == {i \in 0..(Len(s) - Len(seq)) : Part(s, i, i + Len(seq)) = seq} IN IF at = {} THEN -1 ELSE Min(at)
FirstIn(s, Test(_)) ==
  LET at == {i \in 1..Len(s) : Test(s[i])} IN IF at = {} THEN -1 ELSE Min(at) - 1

(* What a call returns: the buffer behind it, its result and its error *)
Result(b, out, err) == [b |-> b, out |-> out, err |-> err]

----------------------------------------------------------------------------
(* doAppend: only a buffer that ran out of bytes, or did not fail, takes more *)
doAppend(b, data) ==
  IF b.fixed THEN Result([b EXCEPT !.err = "not allowed"], <<>>, "not allowed")
  ELSE IF b.err \notin {NoErr, "no more bytes"} THEN Result(b, <<>>, b.err)
  ELSE Result([b EXCEPT !.data = @ \o data, !.available = @ + Len(data), !.err = NoErr], <<>>, NoErr)

bufferEndError(b) == IF b.fixed THEN "unexpected end" ELSE "no more bytes"
EndOf(b) == Result([b EXCEPT !.err = bufferEndError(b)], <<>>, bufferEndError(b))
Avail(b, n) == n <= b.available

Advanced(b, n) == [b EXCEPT !.mark = @ + n, !.offset = b.mark + n, !.available = @ - n]
Advance(b, n) == IF ~Avail(b, n) THEN EndOf(b) ELSE Result(Advanced(b, n), <<>>, NoErr)

Consume(b, n) ==
  IF n > Len(b.data) \/ b.mark < n THEN Result(b, <<>>, "out of range")
  ELSE Result([b EXCEPT !.data = Part(b.data, n, Len(b.data)), !.mark = @ - n, !.offset = @ - n,
                 !.available = (Len(b.data) - n) - (b.mark - n)], Part(b.data, 0, n), NoErr)

Reset(b) ==
  [b EXCEPT !.data = Rest(b), !.offset = @ - b.mark, !.mark = 0, !.available = Len(Rest(b)), !.err = NoErr]

Restore(b, s) ==
  [b EXCEPT !.err = s.err, !.fixed = s.fixed, !.mark = s.mark, !.offset = s.offset, !.available = s.available]

(* ensureLen and sliceAt: the buffer is grown so that the bytes can be
   written; the new ones are zero *)
sliceAt(b, off, n) ==
  LET delta == (off + n) - b.available
  IN  IF delta <= 0 THEN b ELSE [b EXCEPT !.available = @ + delta, !.data = @ \o [i \in 1..delta |-> "0"]]

----------------------------------------------------------------------------
(* The parsers *)
Collect(b, n) ==
  IF b.err # NoErr THEN Result(b, <<>>, b.err)
  ELSE IF ~Avail(b, n) THEN EndOf(b)
  ELSE Result(Advanced(b, n), Part(b.data, b.mark, b.mark + n), NoErr)

CollectWithSuffix(b, n, delim) ==
  IF b.err # NoErr THEN Result(b, <<>>, b.err)
  ELSE IF ~Avail(b, n + Len(delim)) THEN EndOf(b)
  ELSE IF ~IsPrefix(delim, Part(b.data, b.mark + n, Len(b.data)))
  THEN Result([b EXCEPT !.err = "mismatch"], <<>>, "mismatch")
  ELSE Result(Advanced(b, n + Len(delim)), Part(b.data, b.mark, b.mark + n), NoErr)

CollectUntil(b, delim) ==
  LET idx == IndexIn(Rest(b), delim)
  IN  IF b.err # NoErr THEN Result(b, <<>>, b.err)
      ELSE IF idx < 0 THEN EndOf(b)
      ELSE Result(Advanced(b, idx + Len(delim)), Part(b.data, b.mark, b.mark + idx + Len(delim)), NoErr)

(* CollectUntilByte and CollectWhile go on where the last call stopped *)
CollectUntilByte(b, delim) ==
  LET idx == FirstIn(Behind(b), LAMBDA c : c = delim)
      end == b.offset + idx + 1
  IN  IF b.err # NoErr THEN Result(b, <<>>, b.err)
      ELSE IF idx < 0 THEN EndOf([b EXCEPT !.offset = b.mark + b.available])
      ELSE Result(Advanced(b, end - b.mark), Part(b.data, b.mark, end), NoErr)

CollectWhile(b, Pred(_)) ==
  LET idx == FirstIn(Behind(b), LAMBDA c : ~Pred(c))
      end == b.offset + idx + 1
  IN  IF b.err # NoErr THEN Result(b, <<>>, b.err)
      ELSE IF idx < 0 THEN EndOf([b EXCEPT !.offset = b.mark + b.available])
      ELSE Result(Advanced(b, end - b.mark), Part(b.data, b.mark, end), NoErr)

PeekByteFrom(b, off) ==
  IF b.err # NoErr THEN Result(b, <<>>, b.err)
  ELSE IF ~Avail(b, off + 1) THEN EndOf(b)
  ELSE Result(b, <<b.data[b.mark + off + 1]>>, NoErr)

(* UntilCRLF: a carriage return at the end may be half of the mark, and is
   where the next call starts *)
UntilCRLF(b) ==
  LET data == Behind(b)
      crlf == IndexIn(data, <<CR, LF>>)
  IN  IF b.err # NoErr THEN Result(b, <<>>, b.err)
      ELSE IF crlf >= 0
      THEN Result(Advanced(b, (b.offset + crlf + 2) - b.mark), Part(b.data, b.mark, b.offset + crlf), NoErr)
      ELSE IF data # <<>> /\ Last(data) = CR THEN EndOf([b EXCEPT !.offset = @ + Len(data) - 1])
      ELSE EndOf([b EXCEPT !.offset = @ + Len(data)])

IgnoreSymbols(b, syms) ==
  LET idx == FirstIn(Behind(b), LAMBDA c : c \notin syms)
  IN  IF b.err # NoErr THEN Result(b, <<>>, b.err)
      ELSE IF idx >= 0 THEN Result(Advanced(b, (b.offset + idx) - b.mark), <<>>, NoErr)
      ELSE EndOf([b EXCEPT !.offset = @ + Len(Behind(b))])

UntilSymbol(b, s, errOnEnd) ==
  LET idx == FirstIn(Behind(b), LAMBDA c : c = s)
  IN  IF b.err # NoErr THEN Result(b, <<>>, b.err)
      ELSE IF idx >= 0 THEN Result(Advanced(b, (b.offset + idx) - b.mark), Part(b.data, b.mark, b.offset + idx), NoErr)
      ELSE IF errOnEnd THEN EndOf([b EXCEPT !.offset = @ + Len(Behind(b))])
      ELSE Result(Advanced(b, Len(Rest(b))), Rest(b), NoErr)

asciiFindNumberEnd(b, start, errOnEnd) ==
  LET idx == FirstIn(Part(b.data, start, Len(b.data)), LAMBDA c : c \notin Digit)
  IN  IF idx >= 0 THEN start + idx ELSE IF errOnEnd THEN -1 ELSE Len(b.data)

(* UintASCII and IntASCII return the digits, with the sign in front *)
UintASCII(b, errOnEnd) ==
  LET end == asciiFindNumberEnd(b, b.offset, errOnEnd)
  IN  IF b.err # NoErr THEN Result(b, <<>>, b.err)
      ELSE IF Len(b.data) <= b.mark \/ end < 0 THEN EndOf(b)
      ELSE IF end = b.mark THEN Result(b, <<>>, "expected digit")
      ELSE Result(Advanced(b, end - b.mark), Part(b.data, b.mark, end), NoErr)

IntASCII(b, errOnEnd) ==
  LET signed == b.mark < Len(b.data) /\ b.data[b.mark + 1] \in {"-", "+"}
      start == b.mark + (IF signed THEN 1 ELSE 0)
      end == asciiFindNumberEnd(b, IF b.offset = b.mark THEN start ELSE b.offset, errOnEnd)
  IN  IF b.err # NoErr THEN Result(b, <<>>, b.err)
      ELSE IF Len(b.data) <= start THEN EndOf(b)
      ELSE IF end < 0 THEN EndOf(b)
      ELSE IF end <= start THEN Result(b, <<>>, "expected digit")
      ELSE Result(Advanced(b, end - b.mark), Part(b.data, b.mark, end), NoErr)

MatchASCII(b, prefix) ==
  IF b.err # NoErr THEN Result(b, <<>>, b.err)
  ELSE IF ~Avail(b, Len(prefix)) THEN EndOf(b)
  ELSE Result(b, <<IsPrefix(prefix, Rest(b))>>, NoErr)

(* The readers of io.go tell the end of the buffer as io.EOF *)
ioErr(err) == IF err \in {"unexpected end", "no more bytes"} THEN "EOF" ELSE err

Read(b, n) ==
  LET m == Min({n, Len(Rest(b))})
  IN  IF b.err # NoErr THEN Result(b, <<>>, ioErr(b.err))
      ELSE IF b.available = 0 THEN [EndOf(b) EXCEPT !.err = "EOF"]
      ELSE Result(Advanced(b, m), Part(b.data, b.mark, b.mark + m), NoErr)

UnreadByte(b) ==
  IF ioErr(b.err) \notin {NoErr, "EOF"} THEN Result(b, <<>>, b.err)
  ELSE IF b.mark = 0 THEN Result(b, <<>>, "out of range")
  ELSE Result([b EXCEPT !.offset = IF b.mark = b.offset THEN @ - 1 ELSE @, !.mark = @ - 1, !.available = @ + 1], <<>>, NoErr)

ReadAt(b, n, off) ==
  LET from == off + b.mark
  IN  IF b.err # NoErr THEN Result(b, <<>>, ioErr(b.err))
      ELSE IF off < 0 \/ from >= Len(b.data) THEN Result(b, <<>>, "out of range")
      ELSE Result(b, Part(b.data, from, Min({from + n, Len(b.data)})), IF from + n > Len(b.data) THEN "EOF" ELSE NoErr)

WriteAt(b, p, off) ==
  LET g == sliceAt(b, off, Len(p))
      from == off + b.mark
  IN  IF b.err # NoErr THEN Result(b, <<>>, ioErr(b.err))
      ELSE IF off < 0 THEN Result(b, <<>>, "out of range")
      ELSE Result([g EXCEPT !.data = [i \in DOMAIN @ |-> IF i \in (from + 1)..(from + Len(p)) THEN p[i - from] ELSE @[i]]], <<>>, NoErr)

(* Numbers in network byte order, of n bytes *)
ReadNetUint(b, n) ==
  IF b.err # NoErr THEN Result(b, <<>>, b.err)
  ELSE IF Advance(b, n).err # NoErr THEN Advance(b, n)
  ELSE Result(Advanced(b, n), Part(b.data, b.mark, b.mark + n), NoErr)

ReadNetUintAt(b, n, index) ==
  IF b.err # NoErr THEN Result(b, <<>>, b.err)
  ELSE IF ~Avail(b, n + index) THEN EndOf(b)
  ELSE Result(b, Part(b.data, b.mark + index, b.mark + index + n), NoErr)

WriteNetUint(b, p) == IF b.err # NoErr THEN Result(b, <<>>, b.err) ELSE WriteAt(b, p, b.available)

-----------------------------------------------------------------------------
(***************************************************************************)
(* The stream buffer (common/streambuf): bytes of a stream are appended as *)
(* they arrive, parsers take bytes off its front, and a parser that finds  *)
(* too few bytes fails, to be called again when there are more.            *)
(*                                                                         *)
(* mark is the number of bytes of data that are processed, offset how far  *)
(* an unfinished parser has looked, available what is left to read.  The   *)
(* history variables are the stream as it was appended, the number of its  *)
(* bytes that the parsers took, and the parser that is unfinished.         *)
(***************************************************************************)

CONSTANTS
  Bytes,      \* the bytes of the stream; CR, LF and "1" among them
  MaxStream,  \* bound: bytes appended
  MaxChunk,   \* bound: bytes of one call of Append
  MaxCalls    \* bound: calls of the parsers

VARIABLES buf, saved, stream, taken, parsing, last, calls

streamVars == <<buf, saved, stream, taken, parsing, last, calls>>

----------------------------------------------------------------------------
(* A stream and its reader.  The parsers, by name: *)
Parsers == {"crlf", "byte", "until", "while", "ignore", "symbol", "uint", "int", "collect", "suffix", "net"}

Parse(p, b) ==
  CASE p = "crlf" -> UntilCRLF(b)
    [] p = "byte" -> CollectUntilByte(b, LF)
    [] p = "until" -> CollectUntil(b, <<CR, LF>>)
    [] p = "while" -> CollectWhile(b, LAMBDA c : c = CR)
    [] p = "ignore" -> IgnoreSymbols(b, {CR})
    [] p = "symbol" -> UntilSymbol(b, LF, TRUE)
    [] p = "uint" -> UintASCII(b, TRUE)
    [] p = "int" -> IntASCII(b, TRUE)
    [] p = "collect" -> Collect(b, 2)
    [] p = "suffix" -> CollectWithSuffix(b, 1, <<LF>>)
    [] p = "net" -> ReadNetUint(b, 2)

(* What a parser is to take off the front of the bytes s: the number of them
   and its result, or none when s is too short to tell *)
TooShort == [took |-> -1, out |-> <<>>]
UpTo(s, i, j) == IF i < 0 THEN TooShort ELSE [took |-> j, out |-> Part(s, 0, i)]
Expected(p, s) ==
  LET lf == FirstIn(s, LAMBDA c : c = LF)
      other == FirstIn(s, LAMBDA c : c # CR)
      sign == IF s # <<>> /\ s[1] = "-" THEN 1 ELSE 0
      num(from) == FirstIn(Part(s, from, Len(s)), LAMBDA c : c \notin Digit)
  IN  CASE p \in {"crlf", "until"} ->
             LET i == IndexIn(s, <<CR, LF>>) IN UpTo(s, IF p = "crlf" \/ i < 0 THEN i ELSE i + 2, i + 2)
        [] p = "byte" -> UpTo(s, IF lf < 0 THEN lf ELSE lf + 1, lf + 1)
        [] p = "symbol" -> UpTo(s, lf, lf)
        [] p = "while" -> UpTo(s, IF other < 0 THEN other ELSE other + 1, other + 1)
        [] p = "ignore" -> IF other < 0 THEN TooShort ELSE [took |-> other, out |-> <<>>]
        [] p = "uint" -> UpTo(s, num(0), num(0))
        [] p = "int" -> IF num(sign) < 0 THEN TooShort ELSE UpTo(s, sign + num(sign), sign + num(sign))
        [] p \in {"collect", "net"} -> IF Len(s) < 2 THEN TooShort ELSE UpTo(s, 2, 2)
        [] p = "suffix" -> IF Len(s) < 2 THEN TooShort ELSE UpTo(s, 1, 2)

NoParser == "none"
NoLast == [parser |-> NoParser, out |-> <<>>, from |-> 0, seen |-> 0]
Unread == Part(stream, taken, Len(stream))

StreamInit ==
  /\ buf = EmptyBuffer
  /\ saved = [b |-> EmptyBuffer, taken |-> -1]
  /\ stream = <<>> /\ taken = 0 /\ parsing = NoParser /\ last = NoLast /\ calls = 0

(* Bytes of the stream arrive; a snapshot does not outlive them *)
AppendBytes ==
  /\ \E n \in 1..MaxChunk : \E chunk \in [1..n -> Bytes] :
       /\ Len(stream) + n <= MaxStream
       /\ buf.err \in {NoErr, "no more bytes"}
       /\ buf' = doAppend(buf, chunk).b
       /\ stream' = stream \o chunk
  /\ saved' = [saved EXCEPT !.taken = -1]
  /\ UNCHANGED <<taken, parsing, last, calls>>

(* A parser is called; one that ran out of bytes is called again *)
Parsed(p, r) ==
  /\ buf' = r.b
  /\ IF r.err = NoErr
     THEN /\ taken' = taken + (r.b.mark - buf.mark)
          /\ last' = [parser |-> p, out |-> r.out, from |-> taken, seen |-> Len(stream)]
          /\ parsing' = NoParser
     ELSE /\ UNCHANGED <<taken, last>>
          /\ parsing' = IF r.err = "no more bytes" THEN p ELSE NoParser

CallParser(p) ==
  /\ calls < MaxCalls
  /\ parsing \in {NoParser, p}
  /\ buf.err = NoErr
  /\ Parsed(p, Parse(p, buf))
  /\ calls' = calls + 1
  /\ UNCHANGED <<saved, stream>>

(* The caller drops what is processed: all of it, or n bytes *)
CallReset ==
  /\ buf.mark > 0
  /\ buf' = Reset(buf)
  /\ saved' = [saved EXCEPT !.taken = -1]
  /\ UNCHANGED <<stream, taken, parsing, last, calls>>

CallConsume ==
  /\ \E n \in 1..2 : Consume(buf, n).err = NoErr /\ buf' = Consume(buf, n).b
  /\ saved' = [saved EXCEPT !.taken = -1]
  /\ UNCHANGED <<stream, taken, parsing, last, calls>>

CallUnread ==
  /\ parsing = NoParser
  /\ UnreadByte(buf).err = NoErr
  /\ buf' = UnreadByte(buf).b
  /\ taken' = taken - 1
  /\ calls < MaxCalls /\ calls' = calls + 1
  /\ UNCHANGED <<saved, stream, parsing, last>>

(* Snapshot and Restore, for a caller that tries a parser and goes back *)
CallSnapshot ==
  /\ parsing = NoParser /\ buf.err = NoErr
  /\ saved' = [b |-> buf, taken |-> taken]
  /\ UNCHANGED <<buf, stream, taken, parsing, last, calls>>

CallRestore ==
  /\ saved.taken >= 0
  /\ buf' = Restore(buf, saved.b)
  /\ taken' = saved.taken
  /\ saved' = [saved EXCEPT !.taken = -1]
  /\ parsing' = NoParser
  /\ UNCHANGED <<stream, last, calls>>

StreamNext ==
  \/ AppendBytes \/ CallReset \/ CallConsume \/ CallUnread \/ CallSnapshot \/ CallRestore
  \/ \E p \in Parsers : CallParser(p)

----------------------------------------------------------------------------
(* However the stream is cut into chunks, and whatever is dropped, unread and
   restored in between, the bytes that can be read are those of the stream
   that no parser took: available and mark of the Buffer agree with its data,
   and none of them is lost or given twice. *)
NothingSkipped ==
  /\ Rest(buf) = Unread
  /\ buf.available = Len(buf.data) - buf.mark
  /\ 0 <= buf.mark /\ buf.mark <= buf.offset /\ buf.offset <= Len(buf.data)

(* The parsers are re-entrant: one that was called again after it ran out of
   bytes returns what it would have returned for the whole stream at once, and
   asks for more bytes only when those there are do not tell. *)
ParsersReentrant ==
  /\ (last.parser # NoParser =>
        LET e == Expected(last.parser, Part(stream, last.from, Len(stream)))
        IN  e.took >= 0 /\ last.out = e.out)
  /\ (parsing # NoParser /\ buf.err = "no more bytes" => Expected(parsing, Unread).took < 0)

-----------------------------------------------------------------------------
(***************************************************************************)
(* The answer to a bulk request of the elasticsearch output: the stepping  *)
(* JSON parser (json_read.go), on a fixed stream buffer, and the readers   *)
(* of the response's items that drive it (bulk.go).  A reader is the       *)
(* buffer b, the current state and the stack of the states around it.      *)
(***************************************************************************)

Quote == "q"
Backslash == "\\"
Whitespace == {" "}
FirstOfNumber == {"-", "+", "."} \cup Digit

newJSONReader(in) ==
  [b |-> [EmptyBuffer EXCEPT !.data = in, !.available = Len(in), !.fixed = TRUE], state |-> "start", states |-> <<>>]

(* What a step gives: the reader behind it, an entity, its text, an error *)
Got(r, e, raw) == [r |-> r, e |-> e, raw |-> raw, err |-> NoErr]
Fails(r, err) == [r |-> r, e |-> "fail", raw |-> <<>>, err |-> err]
SetError(r, err) == [r EXCEPT !.b.err = err]
failWith(r, err) == Fails([SetError(r, err) EXCEPT !.state = "failed"], err)

skipWS(r) == [r EXCEPT !.b = IgnoreSymbols(r.b, Whitespace).b]
Skip(r, n) == [r EXCEPT !.b = Advance(r.b, n).b]
Peek(r) == PeekByteFrom(r.b, 0)
Peeked(r) == [r EXCEPT !.b = Peek(r).b]
NextIs(r, chars) == Peek(r).err = NoErr /\ Peek(r).out[1] \in chars

pushState(r, next) ==
  [r EXCEPT !.states = IF r.state # "failed" THEN Append(@, r.state) ELSE @, !.state = next]
popState(r) ==
  IF r.states = <<>> THEN [r EXCEPT !.state = "failed"] ELSE [r EXCEPT !.state = Last(r.states), !.states = Front(@)]

----------------------------------------------------------------------------
(* The entities *)
RECURSIVE ClosingQuote(_, _)

(* stepString: a quote behind a backslash is taken as escaped *)
ClosingQuote(b, start) ==
  LET at == FirstIn(Part(b.data, b.offset + start, Len(b.data)), LAMBDA c : c = Quote)
      idx == (b.offset - b.mark) + start + at
  IN  IF b.err # NoErr \/ at < 0 THEN -1
      ELSE IF PeekByteFrom(b, idx - 1).out = <<Backslash>> THEN ClosingQuote(b, idx + 1)
      ELSE idx

stepString(r) ==
  LET idx == ClosingQuote(r.b, 1)
      str == Collect(r.b, idx + 1)
  IN  IF idx = -1 THEN Fails(SetError(r, "missing quote"), "missing quote")
      ELSE Got([r EXCEPT !.b = str.b], "string", SubSeq(str.out, 2, idx))

(* What the next call does if the one before it gave no error *)
Then(s, Op(_)) == IF s.err # NoErr THEN s ELSE Op(s)

colon(r, c, key) ==
  IF c.err # NoErr THEN Fails([r EXCEPT !.b = c.b], c.err)
  ELSE IF c.out # <<":">> THEN failWith([r EXCEPT !.b = c.b], "expected colon")
  ELSE Got([r EXCEPT !.b = c.b], "key", key)

stepMapKey(r) ==
  Then(stepString(r), LAMBDA key : LET at == skipWS(key.r) IN colon(at, Read(at.b, 1), key.raw))

stepSymbol(r, e, symb) ==
  LET m == MatchASCII(r.b, symb)
  IN  IF m.err # NoErr THEN Fails([r EXCEPT !.b = m.b], m.err)
      ELSE IF ~m.out[1] THEN Fails(r, "expected symbol")
      ELSE Got(Skip(r, Len(symb)), e, <<>>)

(* stepNumber: CollectWhile takes the byte behind the digits as well, which
   is why one is subtracted, and why a fraction behind digits is not seen *)
digits(b) == CollectWhile(b, LAMBDA c : c \in Digit)

number(r, total, e) ==
  IF total = 0 THEN Fails(SetError(r, "expected digit"), "expected digit")
  ELSE Got(Skip(r, total), e, Collect(r.b, total).out)

numberEnd(r, after, e) == number(r, (r.b.available - after.available) - 1, e)

numberBody(r, body, whole, dotted) ==
  LET behind == [body EXCEPT !.b = whole.b]
  IN  IF whole.out = <<>> THEN Fails(SetError(behind, "expected digit"), "expected digit")
      ELSE IF dotted THEN numberEnd(r, whole.b, "double")
      ELSE IF NextIs(behind, {"."}) THEN numberEnd(r, digits(Skip(behind, 1).b).b, "double")
      ELSE numberEnd(r, whole.b, "int")

numberSigned(r, at, dotted) ==
  LET body == IF dotted THEN Skip(at, 1) ELSE Peeked(at)
  IN  numberBody(r, body, digits(body.b), dotted)

numberFrom(r, at) == numberSigned(r, at, NextIs(at, {"."}))

stepNumber(r) ==
  IF r.b.err # NoErr THEN Fails(r, r.b.err)
  ELSE numberFrom(r, IF NextIs(r, {"-", "+"}) THEN Skip(r, 1) ELSE Peeked(r))

tryStepPrimitive(r, c) ==
  CASE c = "{" -> Got(pushState(Skip(r, 1), "dict"), "dictStart", <<>>)
    [] c = "[" -> Got(pushState(Skip(r, 1), "arr"), "arrStart", <<>>)
    [] c = "n" -> stepSymbol(r, "null", <<"n", "u", "l", "l">>)
    [] c = "f" -> stepSymbol(r, "false", <<"f", "a", "l", "s", "e">>)
    [] c = "t" -> stepSymbol(r, "true", <<"t", "r", "u", "e">>)
    [] c = Quote -> stepString(r)
    [] c \in FirstOfNumber -> stepNumber(r)
    [] OTHER -> failWith(r, IF r.b.err = NoErr THEN "unknown char" ELSE r.b.err)

----------------------------------------------------------------------------
(* The states *)
endArray(r) == Got(popState(Skip(r, 1)), "arrEnd", <<>>)
endDict(r) == Got(popState(Skip(r, 1)), "dictEnd", <<>>)

doStepArray(r, allowArrayEnd) ==
  LET c == Peek(r)
  IN  IF c.err # NoErr THEN failWith(Peeked(r), c.err)
      ELSE IF c.out = <<"]">> THEN IF allowArrayEnd THEN endArray(r) ELSE failWith(r, "unexpected ]")
      ELSE tryStepPrimitive([r EXCEPT !.state = "arrNext"], c.out[1])

doStepDict(r, allowEnd) ==
  LET c == Peek(r)
  IN  IF c.err # NoErr THEN failWith(Peeked(r), c.err)
      ELSE IF c.out = <<"}">> THEN IF allowEnd THEN endDict(r) ELSE failWith(r, "unexpected }")
      ELSE IF c.out = <<Quote>> THEN stepMapKey([r EXCEPT !.state = "dictField"])
      ELSE failWith(r, "expected field name")

stepArrayNext(r) ==
  IF Peek(r).err # NoErr THEN failWith(Peeked(r), "parser failed")
  ELSE IF NextIs(r, {"]"}) THEN endArray(r)
  ELSE failWith(r, "expected ] or ,")

(* Behind a value of an array only a comma leads to another one *)
stepArray(r) ==
  IF r.state = "arrNext" /\ ~NextIs(r, {","}) THEN stepArrayNext(r)
  ELSE doStepArray(IF r.state = "arr" THEN r ELSE [skipWS(Skip(r, 1)) EXCEPT !.state = "arr"], r.state = "arr")

stepDictValueEnd(r) ==
  IF Peek(r).err # NoErr THEN failWith(Peeked(r), Peek(r).err)
  ELSE IF NextIs(r, {"}"}) THEN endDict(r)
  ELSE IF NextIs(r, {","}) THEN doStepDict([skipWS(Skip(r, 1)) EXCEPT !.state = "dict"], FALSE)
  ELSE failWith(r, "unknown char")

stepValue(r, next) ==
  IF Peek(r).err # NoErr THEN failWith(Peeked(r), Peek(r).err)
  ELSE tryStepPrimitive([r EXCEPT !.state = next], Peek(r).out[1])

stepFrom(r) ==
  CASE r.state = "failed" -> Fails(r, r.b.err)
    [] r.state \in {"start", "dictField"} -> stepValue(r, IF r.state = "start" THEN "start" ELSE "dictFieldEnd")
    [] r.state \in {"arr", "arrNext"} -> stepArray(r)
    [] r.state = "dict" -> doStepDict(r, TRUE)
    [] r.state = "dictFieldEnd" -> stepDictValueEnd(r)

step(r) == stepFrom(skipWS(r))

----------------------------------------------------------------------------
(* What the readers of the response ask for *)
Expect(r, e) ==
  Then(step(r), LAMBDA s : IF s.e # e THEN Fails(SetError(s.r, "unexpected"), "unexpected") ELSE s)

nextFieldName(r) ==
  Then(step(r), LAMBDA s :
    IF s.e \in {"key", "dictEnd"} THEN s
    ELSE [Fails(SetError(s.r, "expected field name"), "expected field name") EXCEPT !.e = s.e])

IntOf(s, i) == [s EXCEPT !.raw = i.out, !.err = i.err]

nextInt(r) ==
  Then(step(r), LAMBDA s :
    IF s.e # "int" THEN Fails(s.r, "expected integer")
    ELSE IntOf(s, IntASCII(newJSONReader(s.raw).b, FALSE)))

RECURSIVE ignoreKind(_, _)
ignoreKind(r, kind) ==
  Then(step(r), LAMBDA s :
    IF s.e = kind THEN s
    ELSE IF s.e \notin {"arrStart", "dictStart"} THEN ignoreKind(s.r, kind)
    ELSE Then(ignoreKind(s.r, IF s.e = "arrStart" THEN "arrEnd" ELSE "dictEnd"),
              LAMBDA inner : ignoreKind(inner.r, kind)))

(* ignoreNext gives the text of the next value, from r to its end *)
TextTo(r, end) ==
  LET bytes == Collect(r.b, r.b.available - end.r.b.available)
  IN  Got([end.r EXCEPT !.b = bytes.b], end.e, bytes.out)

ignoreFrom(r) ==
  Then(step(r), LAMBDA s :
    Then(IF s.e = "arrStart" THEN ignoreKind(s.r, "arrEnd")
         ELSE IF s.e = "dictStart" THEN ignoreKind(s.r, "dictEnd") ELSE s,
         LAMBDA end : TextTo(r, end)))

ignoreNext(r) == ignoreFrom(skipWS(r))

RECURSIVE ToItems(_)
(* bulkReadToItems does not look whether ignoreNext failed *)
ToItems(r) ==
  Then(nextFieldName(r), LAMBDA f :
    IF f.e = "dictEnd" THEN Fails(f.r, "expected items array")
    ELSE IF f.raw = <<"i">> THEN Expect(f.r, "arrStart")
    ELSE ToItems(ignoreNext(f.r).r))

bulkReadToItems(r) == Then(Expect(r, "dictStart"), LAMBDA d : ToItems(d.r))

(* The fields of an item, "s" for status and "e" for error.  An error of
   nextFieldName is only logged: the reader has failed, and so does the call
   of ignoreNext for the field without a name. *)
Status(r, status, msg, err) == [r |-> r, status |-> status, msg |-> msg, err |-> err]

BadItem(r, err) == Status(r, <<>>, <<>>, err)

(* The same as Then, for what gives an item *)
ThenItem(s, Op(_)) == IF s.err # NoErr THEN BadItem(s.r, s.err) ELSE Op(s)

ExpectItem(r) ==
  [Expect(r, "dictStart") EXCEPT !.err = IF @ = NoErr THEN NoErr ELSE "expected item"]

RECURSIVE InnerFields(_, _, _)
InnerField(f, status, msg) ==
  IF f.e = "dictEnd" THEN Status(f.r, status, msg, IF status = <<>> \/ status[1] = "-" THEN "expected status" ELSE NoErr)
  ELSE IF f.raw = <<"s">> THEN ThenItem(nextInt(f.r), LAMBDA n : InnerFields(n.r, n.raw, msg))
  ELSE ThenItem(ignoreNext(f.r), LAMBDA v :
         InnerFields(v.r, status, IF f.raw = <<"e">> THEN v.raw ELSE msg))

InnerFields(r, status, msg) == InnerField(nextFieldName(r), status, msg)

itemStatusInner(r) == ThenItem(ExpectItem(r), LAMBDA d : InnerFields(d.r, <<>>, <<>>))

CloseItem(inner) ==
  IF inner.err # NoErr THEN inner
  ELSE ThenItem(step(inner.r), LAMBDA end :
         IF end.e # "dictEnd" THEN BadItem(end.r, "expected end")
         ELSE Status(end.r, inner.status, inner.msg, NoErr))

bulkReadItemStatus(r) ==
  ThenItem(ExpectItem(r), LAMBDA outer :
    ThenItem(nextFieldName(outer.r), LAMBDA name :
      IF name.e = "dictEnd" THEN BadItem(name.r, "empty object")
      ELSE CloseItem(itemStatusInner(name.r))))

-----------------------------------------------------------------------------
(***************************************************************************)
(* Responses to a bulk request, read by the reader of JsonReader as        *)
(* bulkCollectPublishFails does it (outputs/elasticsearch/client.go): to   *)
(* the items, and then item by item.  A behaviour takes one response of    *)
(* the bounded set below, whole or cut, and reads it.                      *)
(***************************************************************************)

VARIABLES
  call,   \* the items, the fields in front of them, and the bytes that arrive
  result  \* None until the response is read

(* JSON text *)
Str(s) == <<Quote>> \o s \o <<Quote>>
Field(name, value) == Str(name) \o <<":">> \o value
RECURSIVE Listed(_)
Listed(texts) == IF Len(texts) <= 1 THEN FlattenSeq(texts) ELSE texts[1] \o <<",">> \o Listed(Tail(texts))
Obj(fields) == <<"{">> \o Listed(fields) \o <<"}">>
Arr(values) == <<"[">> \o Listed(values) \o <<"]">>

Null == <<"n", "u", "l", "l">>
True == <<"t", "r", "u", "e">>
Values ==
  {Null, True, <<"1", "0">>, Str(<<"a">>), Str(<<>>), Str(<<Backslash, Quote, "}">>), Arr(<<>>), Obj(<<>>),
   Arr(<<<<"-", "1">>, Arr(<<Null>>)>>), Obj(<<Field(<<"s">>, <<"0">>), Field(<<"a">>, Obj(<<Field(<<"e">>, Str(<<"]">>))>>))>>)}

Statuses == {<<"1">>, <<"1", "0">>}
(* An item: its status, the text of its error or none, and the order of the fields *)
NoText == <<>>
Items == [status : Statuses, error : Values \cup {NoText}, first : BOOLEAN, spaced : BOOLEAN]

ItemText(i) ==
  LET status == Field(<<"s">>, (IF i.spaced THEN <<" ">> ELSE <<>>) \o i.status)
      error == IF i.error = NoText THEN <<>> ELSE <<Field(<<"e">>, i.error)>>
  IN  Obj(<<Field(<<"c">>, Obj((IF i.first THEN <<status>> ELSE <<Field(<<"a">>, Null)>>) \o error
                               \o (IF i.first THEN <<>> ELSE <<status>>)))>>)

Small == {[status |-> <<"1", "0">>, error |-> e, first |-> TRUE, spaced |-> FALSE] : e \in {NoText, Str(<<"a">>)}}
ItemLists == {<<>>} \cup {<<i>> : i \in Items} \cup {<<i, j>> : i \in Items, j \in Small}

(* The fields in front of the items, for example took and errors *)
Fronts == {<<>>} \cup {<<v>> : v \in Values} \cup {<<True, v>> : v \in {Null, Obj(<<>>)}}
Response(front, items) ==
  Obj([k \in DOMAIN front |-> Field(<<"a">>, front[k])] \o <<Field(<<"i">>, Arr([k \in DOMAIN items |-> ItemText(items[k])]))>>)

Calls ==
  [items : ItemLists, front : {<<>>, <<True>>}, cut : {0}] \cup [items : {<<i>> : i \in Small}, front : Fronts, cut : {0}]
  \cup [items : {<<i, j>> : i \in {x \in Items : x.error \in {Str(<<"a">>), Obj(<<>>), Arr(<<>>)}}, j \in Small}, front : {<<True>>}, cut : 1..45]

----------------------------------------------------------------------------
(* An item that cannot be read *)
Invalid == [status |-> <<>>, msg |-> NoText]

RECURSIVE ReadItems(_, _)
(* bulkCollectPublishFails: after the first item that cannot be read the
   remaining ones are not looked at *)
AfterItem(s, n) ==
  IF s.err # NoErr THEN <<Invalid>>
  ELSE <<[status |-> s.status, msg |-> s.msg]>> \o ReadItems(s.r, n - 1)

ReadItems(r, n) == IF n = 0 THEN <<>> ELSE AfterItem(bulkReadItemStatus(r), n)

Arrives(c) == LET text == Response(c.front, c.items) IN SubSeq(text, 1, Len(text) - c.cut)

AfterItemsFound(s, n) == IF s.err # NoErr THEN <<Invalid>> ELSE ReadItems(s.r, n)

ReadResponse(c) == AfterItemsFound(bulkReadToItems(newJSONReader(Arrives(c))), Len(c.items))

BulkInit == call \in Calls /\ result = None

BulkNext ==
  /\ result = None
  /\ result' = ReadResponse(call)
  /\ UNCHANGED call

----------------------------------------------------------------------------
Answer(i) == [status |-> i.status, msg |-> i.error]

(* Each event gets the answer that is its own (bulk.go, json_read.go): the
   reader finds the items behind any other fields and gives for each item
   its status and the text of its error as the server wrote it, whatever
   values are nested in between. *)
ItemsAreRead == (result # None /\ call.cut = 0) => result = [k \in DOMAIN call.items |-> Answer(call.items[k])]

(* The items whose text is complete in what arrived, in their order *)
Complete(c) ==
  {k \in DOMAIN c.items :
     LET tail == [j \in 1..(Len(c.items) - k) |-> ItemText(c.items[k + j])]
     IN  c.cut <= 2 + Len(Listed(tail)) + (IF tail = <<>> THEN 0 ELSE 1)}

(* A response that ends early is not taken for an answer: the items that are
   complete are read, and the first one that is not makes the rest invalid,
   so that their events are retried and not ACKed. *)
CutResponseFails ==
  (result # None /\ call.cut > 0) =>
    LET n == Cardinality(Complete(call))
    IN  IF n = Len(call.items) THEN result = [k \in DOMAIN call.items |-> Answer(call.items[k])]
        ELSE result = [k \in 1..n |-> Answer(call.items[k])] \o <<Invalid>>
=============================================================================
