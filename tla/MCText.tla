------------------------------- MODULE MCText -------------------------------
(***************************************************************************)
(* The instance TLC checks of the text algorithms and of the readers that  *)
(* turn bytes into lines, lines into messages and responses into items.    *)
(* They do not share state, so a behaviour is one of the component that    *)
(* `part` names, and s1 to s13 are that component's variables.             *)
(***************************************************************************)
EXTENDS Naturals, Sequences, TLC

CONSTANT None

VARIABLES
  part, s1, s2, s3, s4, s5, s6, s7, s8, s9, s10, s11, s12, s13

textState ==
  <<part, s1, s2, s3, s4, s5, s6, s7, s8, s9, s10, s11, s12, s13>>

-----------------------------------------------------------------------------
(* Values of the constants                                                 *)

Group(type, match, negate, flush, maxLines, maxBytes, skipNewline, count) ==
  [type |-> type, match |-> match, negate |-> negate, flush |-> flush, maxLines |-> maxLines,
   maxBytes |-> maxBytes, skipNewline |-> skipNewline, count |-> count]
Groups ==
  {Group("pattern", "after", FALSE, FALSE, 0, 9, FALSE, 0), Group("pattern", "before", TRUE, TRUE, 2, 3, TRUE, 0),
   Group("while", "after", FALSE, FALSE, 0, 9, FALSE, 0), Group("while", "after", TRUE, FALSE, 1, 3, FALSE, 0),
   Group("count", "after", FALSE, FALSE, 0, 3, FALSE, 2)}

-----------------------------------------------------------------------------
\* Components that share a module share its instance; the variables of each stand for s1, s2, ...
Calls == INSTANCE TextRuns WITH call <- s1, result <- s2

Stream == INSTANCE StreamBuffer WITH
  Bytes <- {"r", "n", "1"}, MaxStream <- 3, MaxChunk <- 2, MaxCalls <- 3,
  buf <- s1, saved <- s2, stream <- s3, taken <- s4, parsing <- s5, last <- s6, calls <- s7,
  call <- s1, result <- s2

Read == INSTANCE Readers WITH
  FileBytes <- {"a", "r", "n"}, Terminators <- {<<"n">>, <<"r", "n">>}, Limits <- {0, 1},
  BufferSize <- 3, MaxFile <- 5,
  file <- s1, read <- s2, inBuffer <- s3, inOffset <- s4, byteCount <- s5, lrPc <- s6, skipped <- s7,
  nl <- s8, maxBytes <- s9, collectOnEOF <- s10, lines <- s11, reported <- s12, cut <- s13,
  Texts <- {<<"a">>, <<"b", "b">>, <<>>}, Pattern <- {<<"b", "b">>}, Flush <- {<<"a">>},
  Configs <- Groups, MaxLines <- 4,
  config <- s1, worker <- s2, ch <- s3, running <- s4, state <- s5, msgBuffer <- s6, calling <- s7,
  produced <- s8, returned <- s9,
  MaxLogLines <- 3, MaxErrors <- 1,
  cfg <- s1, logLines <- s2, errors <- s3, pc <- s4, message <- s5, logLine <- s6, logBytes <- s7,
  out <- s8, mixed <- s9,
  call <- s1, result <- s2

-----------------------------------------------------------------------------
\* The variables a part does not use.
Zero10 == s10 = 0 /\ s11 = 0 /\ s12 = 0 /\ s13 = 0
Zero8 == s8 = 0 /\ s9 = 0 /\ Zero10
Zero3 == s3 = 0 /\ s4 = 0 /\ s5 = 0 /\ s6 = 0 /\ s7 = 0 /\ Zero8

tail10 == <<s10, s11, s12, s13>>
tail8 == <<s8, s9, tail10>>
tail3 == <<s3, s4, s5, s6, s7, tail8>>

TextInit ==
  \/ part = "calls" /\ Calls!TextInit /\ Zero3
  \/ part = "stream" /\ Stream!StreamInit /\ Zero8
  \/ part = "bulk" /\ Stream!BulkInit /\ Zero3
  \/ part = "lines" /\ Read!LineInit
  \/ part = "multiline" /\ Read!MultiInit /\ Zero10
  \/ part = "container" /\ Read!ReaderInit /\ Zero10
  \/ part = "json" /\ Read!JsonInit /\ Zero3

TextNext ==
  /\ UNCHANGED part
  /\ \/ part = "calls" /\ Calls!TextNext /\ UNCHANGED tail3
     \/ part = "stream" /\ Stream!StreamNext /\ UNCHANGED tail8
     \/ part = "bulk" /\ Stream!BulkNext /\ UNCHANGED tail3
     \/ part = "lines" /\ Read!LineNext
     \/ part = "multiline" /\ Read!MultiNext /\ UNCHANGED tail10
     \/ part = "container" /\ Read!ReaderNext /\ UNCHANGED tail10
     \/ part = "json" /\ Read!JsonNext /\ UNCHANGED tail3

TextSpec == TextInit /\ [][TextNext]_textState

-----------------------------------------------------------------------------
(* What the components promise, in the behaviours that are about them.  The *)
(* parts are stated in the components' modules.                            *)

\* The text algorithms agree with their reference definitions: optimised matchers with the
\* expression they stand for, dissect with the joining of its parts, conversions, time
\* formats and format strings with the meaning of their elements (common/match,
\* conditions, processors/dissect, common/dtfmt, common/fmtstr).
AlgorithmsAgree ==
  part = "calls" =>
    /\ Calls!MatchersAgree /\ Calls!ConditionsSeeTheirFields /\ Calls!Rejoins
    /\ Calls!DissectEnds /\ Calls!ConvertAgrees /\ Calls!FormatIsPure
    /\ Calls!FormatsConcatenate /\ Calls!FractionsKeepDigits /\ Calls!StringsFollowParts

\* However the bytes arrive, the readers lose none and give none twice: a parser that is
\* called again goes on where it stopped, items of a bulk response are all read, lines are
\* the file, messages are whole lines, and offsets add up (common/streambuf,
\* outputs/elasticsearch, reader/readfile, reader/multiline, reader/readjson).
ReadersLoseNothing ==
  /\ part = "stream" => Stream!NothingSkipped /\ Stream!ParsersReentrant
  /\ part = "bulk" => Stream!ItemsAreRead /\ Stream!CutResponseFails
  /\ part = "lines" => Read!OffsetsAddUp /\ Read!LinesAreTheFile
  /\ part = "multiline" => Read!LinesComeOutOnce /\ Read!GroupsAsConfigured /\ Read!CutIsTold
  /\ part = "container" => Read!BytesAddUp /\ Read!LinesAreKept /\ Read!MessagesAreWhole
  /\ part = "json" => Read!BrokenLinesAreKept /\ Read!ValuesArrive /\ Read!AcceptedIsBuilt
=============================================================================
