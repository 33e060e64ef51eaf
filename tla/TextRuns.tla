------------------------------ MODULE TextRuns -----------------------------
(***************************************************************************)
(* One call of each of the text algorithms: string matchers (Match),       *)
(* conditions on events (Conditions), the dissect tokenizer (Dissect), the *)
(* time formatter (Dtfmt) and format strings (Fmtstr).  A behaviour takes  *)
(* one call of the bounded set below and makes it.                         *)
(***************************************************************************)
EXTENDS Naturals, Integers, Sequences, SequencesExt, FiniteSets, TLC

CONSTANT None

VARIABLES
  call,     \* the algorithm and its arguments
  result    \* None until the call is made

textVars == <<call, result>>

(* 10 stands for a private address, 1 for the loopback, 11 for a public one *)
Networks ==
  [n \in {"private", "public", "172.16.0.0/12", "192.168.0.0/16", "fd00::/8", "unspecified", "broadcast",
          "link_local_unicast", "link_local_multicast", "interface_local_multicast"} |-> {}]
  @@ ("10.0.0.0/8" :> {<<"1", "0">>}) @@ ("loopback" :> {<<"1">>}) @@ ("global_unicast" :> {<<"1", "0">>, <<"1", "1">>})

TA == INSTANCE TextAlgorithms

----------------------------------------------------------------------------
(* Regular expressions, and texts of up to three characters *)
Digit == TA!CharClass(TA!Digits)
A == TA!Literal(<<"a">>)
B == TA!Literal(<<"b">>)
AB == TA!Literal(<<"a", "b">>)
AnyCase == [A EXCEPT !.fold = TRUE]
Dots == TA!patDotStar
Anchored(rs) == TA!Concat(<<TA!BeginText>> \o rs)
ToEnd(rs) == TA!Concat(Append(rs, TA!EndText))

Regexes ==
  {A, AB, AnyCase, B, Digit, Dots, TA!EmptyMatch, TA!patEmptyWhiteText, TA!Capture(A), TA!Star(A), TA!Repeat(A, 2),
   TA!Repeat(TA!Capture(AB), 2), TA!Repeat(TA!Repeat(A, 2), 2), TA!Alternate(<<A, B>>), TA!Alternate(<<AB, AnyCase>>)}
  \cup {Anchored(rs) : rs \in {<<A>>, <<AnyCase>>, <<A, TA!EndText>>, <<TA!EndText>>, <<Dots, A>>, <<A, Dots>>, <<A, Dots, B>>,
          <<Dots, A, Dots, TA!EndText>>, <<Dots, TA!EndText>>, <<TA!Alternate(<<A, AB>>), TA!EndText>>,
          <<TA!Capture(TA!Alternate(<<AB, B>>))>>, <<TA!Repeat(Digit, 2), A, TA!Repeat(Digit, 1)>>, <<TA!Repeat(Digit, 2), A>>,
          <<Digit, A>>, <<A, TA!Repeat(Digit, 2)>>, <<TA!Capture(TA!Concat(<<Dots, A>>))>>}}
  \cup {ToEnd(rs) : rs \in {<<A>>, <<A, Dots>>, <<Dots>>}}
  \cup {TA!Concat(rs) : rs \in {<<Dots, A>>, <<A, Dots>>, <<TA!Capture(A), Dots>>, <<TA!Repeat(A, 2), B>>, <<TA!Star(A), B>>,
          <<Digit, Digit, Digit>>, <<TA!Repeat(Digit, 2), Digit>>, <<A, A, B, B>>, <<Dots, Dots>>, <<Digit, Dots, Digit>>}}

TextsUpTo(n, chars) == UNION {[1..k -> chars] : k \in 0..n}

MatchCalls == [fn : {"match", "exact"}, regex : Regexes, text : TextsUpTo(3, {"a", "b", "1", " ", "A"})]

DoMatch(c) == TA!MatchString(IF c.fn = "match" THEN TA!Compile(c.regex) ELSE TA!CompileExact(c.regex), c.text)

(* A compiled matcher answers as the regular expression it was made from
   (common/match): whatever the optimisations replace a pattern with (a
   comparison, a prefix, a search, a set of digits with a suffix) accepts the
   same texts of one line. *)
MatchersAgree ==
  (call.fn \in {"match", "exact"} /\ result # None) =>
     (result <=> IF call.fn = "match" THEN TA!Find(call.regex, call.text) ELSE Len(call.text) \in TA!Ends(call.regex, call.text, 0))

----------------------------------------------------------------------------
(* Conditions: on a, b and b.c *)
PA == <<"a">>
PB == <<"b">>
PC == <<"b", "c">>
Opt(o, v) == o :> v

Bases ==
  {Opt("equals", PA :> v) : v \in {TA!Num(<<"1">>), TA!Str(<<"a">>), TA!Value("bool", <<"1">>, <<>>)}}
  \cup {Opt("equals", (PA :> TA!Num(<<"1">>)) @@ (PC :> TA!Str(<<"a">>)))}
  \cup {Opt("contains", PA :> <<"a">>), Opt("regexp", (PA :> Anchored(<<A, TA!EndText>>)) @@ (PC :> A))}
  \cup {Opt("range", (PA \o <<"gte">> :> TA!Num(<<"1">>)) @@ (PA \o <<"lt">> :> TA!Num(<<"1", "0">>))),
        Opt("range", (PA \o <<"gt">> :> TA!Str(<<"1">>)) @@ (PC \o <<"lte">> :> TA!Num(<<"1">>))),
        Opt("range", PA \o <<"near">> :> TA!Num(<<"1">>))}
  \cup {Opt("has_fields", {PA, PB}), Opt("has_fields", {PC}), Opt("network", PA :> {"private"}), Opt("network", PA :> {"public", "loopback"}),
        Opt("network", (PA :> {"10.0.0.0/8"}) @@ (PC :> {"global_unicast"})), Opt("network", PA :> {"nowhere"}),
        Opt("equals", PA :> TA!Num(<<"1">>)) @@ Opt("has_fields", {PC})}

Lists == {<<x, y>> : x \in {Opt("has_fields", {PB}), Opt("not", Opt("contains", PA :> <<"a">>))}, y \in Bases}
Configs == Bases \cup {Opt("not", b) : b \in Bases} \cup {Opt("and", l) : l \in Lists} \cup {Opt("or", l) : l \in Lists}
           \cup {Opt("not", Opt("or", l)) : l \in Lists} \cup {<<>>}

Values == {TA!Str(t) : t \in {<<"a">>, <<"1">>, <<"1", "0">>, <<"1", "1">>, <<"b", "a">>}}
          \cup {TA!Num(<<"1">>), TA!Num(<<"1", "0">>), TA!Value("bool", <<"1">>, <<>>), TA!Arr(<<TA!Num(<<"1">>), TA!Str(<<"a">>)>>)}

Events == {(TA!Timestamp :> TA!Time(<<"1">>)) @@ m : m \in
             {<<>>} \cup {PA :> v : v \in Values} \cup {PB :> v : v \in Values}
             \cup {(PA :> v) @@ (PC :> w) : v \in Values, w \in Values} \cup {(PA :> v) @@ (PB :> TA!EmptyMap) : v \in Values}}

CheckCalls == [fn : {"check"}, config : Configs, event : Events]

CheckIfValid(cond, e) == IF cond.err THEN FALSE ELSE TA!Check(cond, e)
DoCheck(c) == CheckIfValid(TA!NewCondition(c.config), c.event)

Named(config) ==
  LET fields == IF "range" \in DOMAIN config THEN {Front(q) : q \in DOMAIN config["range"]}
                ELSE IF "has_fields" \in DOMAIN config THEN config["has_fields"]
                ELSE DOMAIN config[CHOOSE o \in DOMAIN config : TRUE]
  IN  IF Cardinality(DOMAIN config) > 1 THEN {PA} ELSE fields

RestrictTo(e, paths) == [q \in {x \in DOMAIN e : \E p \in paths : IsPrefix(p, x) \/ IsPrefix(x, p)} |-> e[q]]

(* A condition is about the fields it names (conditions/): it holds for no
   event in which one of them is missing, and the other fields of the event
   do not matter to it. *)
ConditionsSeeTheirFields ==
  (call.fn = "check" /\ result # None /\ call.config \in Bases) =>
     /\ (result => \A p \in Named(call.config) : TA!Has(call.event, p))
     /\ result = DoCheck([call EXCEPT !.event = RestrictTo(@, Named(call.config))])

----------------------------------------------------------------------------
(* Tokenizers of one to three fields *)
Pair(delim, key) == [delim |-> delim, key |-> key]
KA == TA!Key("", <<"a">>)
KB == TA!Key("", <<"b">>)
Greedy(key) == [key EXCEPT !.greedy = TRUE]

PairLists ==
  {<<Pair(<<>>, KA)>>, <<Pair(<<>>, KA), Pair(<<",">>, KB)>>, <<Pair(<<"1">>, KA), Pair(<<",", " ">>, KB)>>,
   <<Pair(<<>>, TA!Key("", <<>>)), Pair(<<",">>, KB)>>, <<Pair(<<>>, Greedy(KA)), Pair(<<",">>, KB)>>,
   <<Pair(<<>>, Greedy(KA)), Pair(<<>>, KB)>>, <<Pair(<<>>, [KA EXCEPT !.length = 1]), Pair(<<",">>, KB)>>,
   <<Pair(<<>>, [KA EXCEPT !.length = 2]), Pair(<<",">>, KB), Pair(<<" ">>, KA)>>,
   <<Pair(<<>>, TA!Key("+", <<"a">>)), Pair(<<",">>, KB), Pair(<<" ">>, TA!Key("+", <<"a">>))>>,
   <<Pair(<<>>, [TA!Key("+", <<"a">>) EXCEPT !.ordinal = 2]), Pair(<<",">>, [TA!Key("+", <<"a">>) EXCEPT !.ordinal = 1])>>,
   <<Pair(<<>>, TA!Key("?", <<"a">>)), Pair(<<",">>, TA!Key("&", <<"a">>))>>,
   <<Pair(<<>>, TA!Key("*", <<"a">>)), Pair(<<",">>, TA!Key("&", <<"a">>)), Pair(<<" ">>, KB)>>,
   <<Pair(<<>>, TA!Key("&", <<"a">>)), Pair(<<",">>, TA!Key("?", <<"a">>))>>,
   <<Pair(<<>>, KA), Pair(<<",">>, [KB EXCEPT !.type = "integer"])>>,
   <<Pair(<<>>, TA!Key("*", <<"b">>)), Pair(<<",">>, [TA!Key("&", <<"b">>) EXCEPT !.type = "integer"])>>}

Tokenizers == [pairs : PairLists, last : {<<>>, <<",">>}]
DissectCalls == [fn : {"dissect"}, tok : Tokenizers, text : TextsUpTo(4, {"a", "1", ",", " "})]

DoDissect(c) == IF TA!NewDissector(c.tok).err THEN TA!Extracted("bad", <<>>) ELSE TA!extract(TA!newParser(c.tok), c.text)

Dissected == call.fn = "dissect" /\ result # None
Parser == TA!newParser(call.tok)
Fixed == \E i \in DOMAIN Parser.byId : TA!IsFixedLength(Parser.byId[i])
GreedyOnNothing ==
  \E i \in DOMAIN Parser.byId : Parser.delimiters[i].greedy /\ i < Len(Parser.delimiters) /\ Parser.delimiters[i + 1].text = <<>>

(* The pieces and the delimiters are the text (processors/dissect,
   dissect.go): each field ends where the delimiter behind it occurs for the
   first time, the next one begins behind the delimiter, or behind all its
   repetitions after a greedy field, and no character in between is lost.
   Fields of fixed length are left out. *)
Rejoins ==
  (Dissected /\ result.err = "" /\ ~Fixed) =>
    LET pos == result.positions
        s == call.text
        n == Len(pos)
        delims == Parser.delimiters
    IN  /\ IsPrefix(delims[1].text, s)
        /\ \A i \in 1..n :
             /\ pos[i].start <= pos[i].end /\ pos[i].end <= Len(s)
             /\ i < Len(delims) =>
                  LET d == delims[i + 1].text
                      upto == IF i = n THEN pos[i].end + Len(d)
                              ELSE IF pos[i + 1] # TA!NoPosition THEN pos[i + 1].start ELSE Len(s)
                  IN  /\ TA!Piece(s, pos[i].end, pos[i].end + Len(d)) = d
                      /\ TA!Piece(s, upto - Len(d), upto) = d
                      /\ (~delims[i].greedy => upto = pos[i].end + Len(d))
                      /\ (d # <<>> => ~\E k \in pos[i].start..(pos[i].end - 1) :
                                          k + Len(d) <= Len(s) /\ TA!Piece(s, k, k + Len(d)) = d)

(* Dissect gives a map or an error for every text (dissect.go:57-77).  Not so in
   the code: the delimiter behind a field of fixed length is stepped over without
   a look (dissect.go:129-136, 163), so the next search may begin behind the end
   of the text, and an empty delimiter behind a greedy field is found again for
   ever (dissect.go:151-160, delimiter.go:62-64). *)
DissectAlwaysEnds == Dissected => result.err \notin {"panic", "endless"}

(* What holds: no text makes the tokenizer read behind its end unless a field has
   a fixed length, or search for ever unless a greedy field is followed by an
   empty delimiter. *)
DissectEnds ==
  Dissected =>
    /\ (result.err = "panic" => Fixed)
    /\ (result.err = "endless" => GreedyOnNothing)

(* A key that only names another field is not the name of a field as well *)
DistinctKeys ==
  \A f, g \in {Parser.byId[i] : i \in DOMAIN Parser.byId} :
    (f.kind \in {"named skip", "pointer"} /\ g.kind \in {"normal", "append"}) => f.key # g.key

SameFields(a, b) ==
  /\ a.err = b.err
  /\ DOMAIN a.map = DOMAIN b.map
  /\ \A k \in DOMAIN a.map : b.map[k] \in {a.map[k], <<"integer">> \o a.map[k]}

(* Dissect with data types finds the same fields as without, in the order of
   their ordinals, and each value is the text or its conversion
   (resolve and resolveConvert of dissect.go). *)
ConvertAgrees ==
  (Dissected /\ result.err = "" /\ DistinctKeys) =>
    SameFields(TA!Dissect1(Parser, TA!NoTrim, call.text), TA!DissectConvert(Parser, call.text))

----------------------------------------------------------------------------
(* Time patterns of two tokens, and three timestamps *)
Times(c, n) == [i \in 1..n |-> c]
Tokens ==
  {Times("y", 4), Times("y", 2), Times("Y", 3), <<"x">>, Times("x", 2), Times("w", 2), <<"e">>, Times("E", 3), Times("E", 4),
   Times("D", 2), <<"M">>, Times("M", 3), Times("M", 4), Times("d", 2), <<"a">>, <<"K">>, Times("h", 2), Times("H", 2), <<"k">>,
   Times("m", 3), <<"s">>, Times("S", 3), Times("S", 10), <<"f">>, Times("f", 5), Times("f", 9), <<"n">>, <<"z">>, <<"-">>,
   <<"T">>, <<"'", "'">>, <<"'", "a", "'">>, <<"'", "a", "t", "'">>, <<"'", "T">>, <<"'", "o", "'", "'", "k", "'">>}

Moment(y, mo, d, h, mi, s, n, wd, yd, iy, iw, tz) ==
  [year |-> y, month |-> mo, day |-> d, hour |-> h, min |-> mi, sec |-> s, nano |-> n,
   weekday |-> wd, yearday |-> yd, isoYear |-> iy, isoWeek |-> iw, tz |-> tz]
Moments ==
  {Moment(2016, 5, 7, 0, 5, 9, 123000000, 6, 128, 2016, 18, 0), Moment(987, 12, 31, 23, 59, 59, 10, 1, 365, 988, 1, -12600),
   Moment(-5, 1, 1, 12, 0, 0, 100000, 0, 1, -6, 52, 3600)}
(* What the pooled context was last used with *)
Stale == Moment(1, 1, 1, 1, 1, 1, 1, 1, 1, 1, 1, 1)

FormatCalls == [fn : {"format"}, a : Tokens, b : Tokens, t : Moments]
DoFormat(c) == TA!Format(c.a \o c.b, c.t, Stale)
Formatted == call.fn = "format" /\ result # None

(* The text of a timestamp depends on the timestamp alone: every field that
   the program reads has been set in the pooled context, whatever call used
   the context before (ctx.go, fields.go). *)
FormatIsPure == Formatted => result = TA!Format(call.a \o call.b, call.t, call.t)

(* Literals of three and four bytes do not compile to what they say *)
HasBadLiteral(es) == \E i \in DOMAIN es : es[i].el = "literal" /\ Len(es[i].text) \in 3..4
BadLiteral(p) == HasBadLiteral(TA!optimizeElements(TA!parsePatternTo(p, 1).elements))

Joined(r, a, b) ==
  /\ r.err = (a.err \/ b.err)
  /\ (~r.err => r.out = a.out \o b.out)

OfItsTokens == Joined(result, TA!Format(call.a, call.t, call.t), TA!Format(call.b, call.t, call.t))

(* "Literals are copied as is into formatted string" (dtfmt/doc.go:79), and the
   text of a pattern is that of its tokens.  Not so in the code for literals of
   three and four bytes, which compile to the operation that copies two
   (prog.go:156-159): the others are run as operations. *)
LiteralsAreCopied == (Formatted /\ Last(call.a) # Head(call.b)) => OfItsTokens

(* What holds: the text of a pattern is the text of its tokens, one after the
   other: joining literals and compiling to the byte program loses nothing
   (builder.go, prog.go), as long as no joined literal has three or four bytes. *)
FormatsConcatenate ==
  (Formatted /\ Last(call.a) # Head(call.b) /\ \A p \in {call.a, call.b, call.a \o call.b} : ~BadLiteral(p)) => OfItsTokens

(* A fraction loses only zeros, in groups of three, and keeps one group
   (appendFractPadded of util.go). *)
FractionsKeepDigits ==
  (Formatted /\ Head(call.b) = "f" /\ Head(call.a) = "-") =>
    LET digits == Len(call.b)
        full == TA!appendPadded(call.t.nano \div (10 ^ (9 - digits)), digits)
        out == Tail(result.out)
    IN  digits > 3 => /\ IsPrefix(out, full)
                      /\ Len(out) \in {3, 6, digits}
                      /\ \A k \in (Len(out) + 1)..digits : full[k] = "0"

----------------------------------------------------------------------------
(* Format strings of up to two parts *)
Part(k, path, def, has) == [k |-> k, path |-> path, def |-> def, has |-> has]
Field(path) == Part("field", path, <<>>, FALSE)
FieldOr(path, def) == Part("field", path, def, TRUE)
Parts ==
  {Field(<<"a">>), Field(<<"b">>), FieldOr(<<"a">>, <<"d">>), FieldOr(<<"b">>, <<>>), FieldOr(<<"b">>, <<"e">>),
   Field(<<"a", "]", "[", "c">>), FieldOr(<<"a", ".", "c">>, <<"d">>), Part("time", <<"y">>, <<>>, FALSE),
   Part("time", <<"T">>, <<>>, FALSE), Part("esc", <<"%">>, <<>>, FALSE)}
  \cup {Part("lit", t, <<>>, FALSE) : t \in {<<"x">>, <<"%">>, <<":", "}">>}}

Written(p) ==
  CASE p.k = "field" -> <<"%", "{", "[">> \o p.path \o <<"]">> \o (IF p.has THEN <<":">> \o p.def ELSE <<>>) \o <<"}">>
    [] p.k = "lit" -> p.path
    [] p.k = "esc" -> <<"\\">> \o p.path
    [] p.k = "time" -> <<"%", "{", "+">> \o p.path \o <<"}">>

StringVals == {[kind |-> "string", text |-> <<"1">>], [kind |-> "string", text |-> <<>>], [kind |-> "map", text |-> <<>>]}
FieldSets ==
  UNION {[paths -> StringVals] : paths \in SUBSET {<<"a">>, <<"b">>}}
  \cup {(<<"a", ".", "c">> :> [kind |-> "string", text |-> <<"2">>]) @@ (<<"b">> :> v) : v \in StringVals}

StringCalls == [fn : {"fmtstr"}, parts : UNION {[1..n -> Parts] : n \in 1..2}, fields : FieldSets]
TS == [year |-> 7, month |-> 1]
RunString(fs, event) == IF fs.err THEN [err |-> TRUE, out |-> <<>>] ELSE TA!Run(fs, event)
DoString(c) ==
  RunString(TA!CompileEvent(FlattenSeq([i \in DOMAIN c.parts |-> Written(c.parts[i])])),
            [fields |-> c.fields, ts |-> TS])

PathOf(p) == IF p.path = <<"a", "]", "[", "c">> THEN <<"a", ".", "c">> ELSE p.path
Meaning(p) ==
  LET s == TA!fieldString([fields |-> call.fields], PathOf(p))
  IN  CASE p.k \in {"lit", "esc"} -> [err |-> FALSE, out |-> p.path]
        [] p.k = "time" -> [err |-> p.path # <<"y">>, out |-> <<"7">>]
        [] OTHER -> [err |-> s.err /\ ~p.has, out |-> IF s.text = <<>> THEN p.def ELSE s.text]

(* A format string gives the texts of its parts in order (common/fmtstr): an
   expression the text of its field or its default, and the whole fails
   exactly when one of them has neither.  Two uses of one field share their
   entry in the table of fields, and only a use without default makes it
   required. *)
StringsFollowParts ==
  (call.fn = "fmtstr" /\ result # None) =>
    IF \E i \in DOMAIN call.parts : Meaning(call.parts[i]).err THEN result.err
    ELSE result = [err |-> FALSE, out |-> FlattenSeq([i \in DOMAIN call.parts |-> Meaning(call.parts[i]).out])]

----------------------------------------------------------------------------
TextInit ==
  /\ result = None
  /\ \/ call \in MatchCalls
     \/ call \in CheckCalls
     \/ call \in DissectCalls
     \/ call \in FormatCalls
     \/ call \in StringCalls

Call(fns, do(_)) ==
  /\ result = None
  /\ call.fn \in fns
  /\ result' = do(call)
  /\ UNCHANGED call

TextNext ==
  \/ Call({"match", "exact"}, DoMatch)
  \/ Call({"check"}, DoCheck)
  \/ Call({"dissect"}, DoDissect)
  \/ Call({"format"}, DoFormat)
  \/ Call({"fmtstr"}, DoString)
=============================================================================
