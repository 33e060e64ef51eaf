--------------------------- MODULE TextAlgorithms ---------------------------
(***************************************************************************)
(* The text algorithms of Beats: string matchers, conditions, the dissect  *)
(* tokenizer, the formatting of timestamps and format strings. Each is a   *)
(* function of its input.                                                  *)
(***************************************************************************)
EXTENDS Event, Integers, Sequences, SequencesExt, FiniteSets, FiniteSetsExt, TLC

-----------------------------------------------------------------------------
(***************************************************************************)
(* The string matchers of common/match: a regular expression is parsed,    *)
(* rewritten by optimize until nothing changes, and compiled to a matcher  *)
(* that avoids the regexp engine where it can.                             *)
(*                                                                         *)
(* A text is a sequence of characters.  A regular expression is the tree   *)
(* of regexp/syntax, which is not part of the repository: Simplify and     *)
(* Ends say what the code relies on.  The code tells a repetition made of  *)
(* one shared node from one made of equal nodes, and turns the second into *)
(* the first; here they are the same.                                      *)
(***************************************************************************)

Node(op, sub, rune) ==
  [op |-> op, sub |-> sub, rune |-> rune, min |-> 0, max |-> 0, fold |-> FALSE]
Literal(text) == Node("literal", <<>>, text)
Concat(sub) == Node("concat", sub, <<>>)
Alternate(sub) == Node("alternate", sub, <<>>)
Repeat(r, n) == [Node("repeat", <<r>>, <<>>) EXCEPT !.min = n, !.max = n]
Capture(r) == Node("capture", <<r>>, <<>>)
Star(r) == Node("star", <<r>>, <<>>)
AnyCharNotNL == Node("any", <<>>, <<>>)
BeginText == Node("begin", <<>>, <<>>)
EndText == Node("end", <<>>, <<>>)
EmptyMatch == Node("empty", <<>>, <<>>)
CharClass(chars) == Node("class", <<>>, chars)

Digits == <<"0", "1">>
White == <<" ", "\n">>
Newline == "\n"

patDotStar == Star(AnyCharNotNL)
patNullBeginDotStar == Concat(<<BeginText, patDotStar>>)
patNullEndDotStar == Concat(<<patDotStar, EndText>>)
patEmptyText == Concat(<<BeginText, EndText>>)
patEmptyWhiteText == Concat(<<BeginText, Star(CharClass(White)), EndText>>)
patAny == {patDotStar, patNullBeginDotStar, Concat(<<BeginText, patDotStar, EndText>>), patNullEndDotStar}
patDigits == CharClass(Digits)

(* Reference: the ends of the matches of r that start at position i, by the
   meaning of regular expressions. *)
Fold(c) == IF c = "A" THEN "a" ELSE c
SameChar(r, c, d) == c = d \/ (r.fold /\ Fold(c) = Fold(d))

RECURSIVE Ends(_, _, _), EndsOfAll(_, _, _), EndsOfSome(_, _, _)
EndsOfAll(subs, s, from) ==
  IF subs = <<>> THEN from
  ELSE EndsOfAll(Tail(subs), s, UNION {Ends(Head(subs), s, i) : i \in from})

EndsOfSome(r, s, from) ==
  LET more == from \cup UNION {Ends(r, s, i) : i \in from}
  IN  IF more = from THEN from ELSE EndsOfSome(r, s, more)

Ends(r, s, i) ==
  CASE r.op = "literal" ->
         {j \in {i + Len(r.rune)} : j <= Len(s) /\ \A k \in 1..Len(r.rune) : SameChar(r, r.rune[k], s[i + k])}
    [] r.op = "any" -> {j \in {i + 1} : j <= Len(s) /\ s[j] # Newline}
    [] r.op = "class" -> {j \in {i + 1} : j <= Len(s) /\ Contains(r.rune, s[j])}
    [] r.op = "begin" -> {j \in {i} : i = 0}
    [] r.op = "end" -> {j \in {i} : i = Len(s)}
    [] r.op = "empty" -> {i}
    [] r.op \in {"concat", "capture"} -> EndsOfAll(r.sub, s, {i})
    [] r.op = "repeat" -> EndsOfAll([k \in 1..r.min |-> r.sub[1]], s, {i})
    [] r.op = "alternate" -> UNION {Ends(r.sub[k], s, i) : k \in DOMAIN r.sub}
    [] r.op = "star" -> EndsOfSome(r.sub[1], s, {i})

Find(r, s) == \E i \in 0..Len(s) : Ends(r, s, i) # {}

(* cmp.go *)
isRegular(r) == ~r.fold
isRegularLiteral(r) == r.op = "literal" /\ isRegular(r)
isSubstringLiteral(r) == isRegularLiteral(r)

isPrefixLiteral(r) ==
  /\ r.op = "concat" /\ Len(r.sub) = 2
  /\ r.sub[1].op = "begin" /\ isRegularLiteral(r.sub[2]) /\ isRegular(r)

isAltLiterals(r) == r.op = "alternate" /\ \A k \in DOMAIN r.sub : isRegularLiteral(r.sub[k])

isExactLiteral(r) ==
  /\ r.op = "concat" /\ Len(r.sub) = 3
  /\ r.sub[1].op = "begin" /\ isRegularLiteral(r.sub[2]) /\ r.sub[3].op = "end" /\ isRegular(r)

isOneOfLiterals(r) ==
  /\ r.op = "concat" /\ Len(r.sub) = 3
  /\ r.sub[1].op = "begin" /\ isAltLiterals(r.sub[2]) /\ r.sub[3].op = "end"

isPrefixAltLiterals(r) ==
  /\ r.op = "concat" /\ Len(r.sub) = 2
  /\ r.sub[1].op = "begin" /\ isAltLiterals(r.sub[2])

isConcatRepetition(r) == r.op = "concat" /\ \A k \in DOMAIN r.sub : r.sub[k] = r.sub[1]
isMultiDigits(r) == isConcatRepetition(r) /\ r.sub[1] = patDigits

(* What follows the begin and the optional literal of a date pattern:
   digits and literals in turn. *)
AfterPrefix(r) == IF r.sub[2].op = "literal" THEN SubSeq(r.sub, 3, Len(r.sub)) ELSE Tail(r.sub)

isPrefixNumDate(r) ==
  /\ r.op = "concat" /\ r.sub[1].op = "begin"
  /\ isRegularLiteral(r.sub[2]) \/ r.sub[2].op # "literal"
  /\ \A k \in DOMAIN AfterPrefix(r) :
        IF k % 2 = 1 THEN isMultiDigits(AfterPrefix(r)[k]) ELSE isRegularLiteral(AfterPrefix(r)[k])

eqRegex(r, proto) == r = proto

eqPrefixRegex(r, proto) ==
  /\ r.op = "concat"
  /\ IF proto.op # "concat" THEN Len(r.sub) > 0 /\ eqRegex(r.sub[1], proto)
     ELSE IsPrefix(proto.sub, r.sub)

eqSuffixRegex(r, proto) ==
  /\ r.op = "concat"
  /\ IF proto.op # "concat" THEN Len(r.sub) > 0 /\ eqRegex(Last(r.sub), proto)
     ELSE IsSuffix(proto.sub, r.sub)

eqPrefixAnyRegex(r, protos) == \E p \in protos : eqPrefixRegex(r, p)
eqSuffixAnyRegex(r, protos) == \E p \in protos : eqSuffixRegex(r, p)

(* regexp/syntax: a counted repetition becomes a concatenation *)
RECURSIVE Simplify(_)
Simplify(r) ==
  LET s == [r EXCEPT !.sub = [k \in DOMAIN r.sub |-> Simplify(r.sub[k])]]
  IN  IF r.op # "repeat" THEN s
      ELSE IF r.min = 0 THEN EmptyMatch
      ELSE IF r.min = 1 THEN s.sub[1]
      ELSE Concat([k \in 1..r.min |-> s.sub[1]])

(* optimize.go *)
RECURSIVE uncapture(_)
uncapture(r) ==
  IF r.op = "capture" THEN uncapture(r.sub[1])
  ELSE [r EXCEPT !.sub = [k \in DOMAIN r.sub |-> uncapture(r.sub[k])]]

(* Mutant: the begin of the text is removed in front of any '.*' further on *)
trimLeftAnchor(r) ==
  IF r.op = "concat" /\ Len(r.sub) > 1 /\ r.sub[1] = BeginText /\ Contains(r.sub, patDotStar)
  THEN [r EXCEPT !.sub = Tail(@)] ELSE r

trimLeft(r) ==
  IF eqPrefixAnyRegex(r, {patDotStar, patNullBeginDotStar}) THEN [r EXCEPT !.sub = Tail(@)] ELSE r

trimRight(r) ==
  IF eqSuffixAnyRegex(r, {patDotStar, patNullEndDotStar}) THEN [r EXCEPT !.sub = Front(@)] ELSE r

unconcat(r) ==
  IF r.op = "concat" /\ Len(r.sub) = 1 THEN r.sub[1]
  ELSE IF r.op = "concat" /\ Len(r.sub) = 0 THEN EmptyMatch
  ELSE IF r.op = "repeat" /\ r.min = 1 /\ r.max = 1 THEN r.sub[1]
  ELSE r

(* Two neighbours a and b as one repetition, or nothing *)
Merged(a, b) ==
  IF a.op = "repeat" /\ eqRegex(a.sub[1], b) THEN <<[a EXCEPT !.min = @ + 1, !.max = @ + 1]>>
  ELSE IF isConcatRepetition(a) /\ eqRegex(a.sub[1], b) THEN <<Concat(Append(a.sub, b))>>
  ELSE IF eqRegex(a, b) THEN <<Repeat(a, 2)>>
  ELSE <<>>

RECURSIVE MergeNeighbours(_)
MergeNeighbours(subs) ==
  IF Len(subs) < 2 THEN subs
  ELSE IF Merged(subs[1], subs[2]) = <<>> THEN <<subs[1]>> \o MergeNeighbours(Tail(subs))
  ELSE Merged(subs[1], subs[2]) \o MergeNeighbours(SubSeq(subs, 3, Len(subs)))

RECURSIVE concatRepetition(_)
concatRepetition(r) ==
  IF r.op # "concat" \/ isConcatRepetition(r) THEN r
  ELSE [r EXCEPT !.sub = MergeNeighbours([k \in DOMAIN @ |-> concatRepetition(@[k])])]

RECURSIVE flattenRepetition(_)
flattenRepetition(r) ==
  IF r.op # "concat" THEN r
  ELSE IF isConcatRepetition(r) /\ isConcatRepetition(r.sub[1])
  THEN Repeat(r.sub[1].sub[1], Len(r.sub) * Len(r.sub[1].sub))
  ELSE [r EXCEPT !.sub = [k \in DOMAIN @ |-> flattenRepetition(@[k])]]

RECURSIVE optimize(_)
optimize(r) ==
  LET s == Simplify(r)
      t == flattenRepetition(concatRepetition(unconcat(trimRight(trimLeft(uncapture(s))))))
  IN  IF t = s THEN t ELSE optimize(t)

(* compile.go: the matcher, by its kind and its texts *)
Matcher(kind, texts) == [kind |-> kind, texts |-> texts, regex |-> EmptyMatch]
Runes(subs) == [k \in DOMAIN subs |-> subs[k].rune]

(* The text a date must begin with, "#" standing for a digit *)
compilePrefixNumDate(r) ==
  LET parts == [k \in DOMAIN r.sub |->
                  IF r.sub[k].op = "concat" THEN [i \in DOMAIN r.sub[k].sub |-> "#"] ELSE r.sub[k].rune]
  IN  Matcher("date", <<FlattenSeq(Tail(parts))>>)

compile(r) ==
  CASE isSubstringLiteral(r) -> Matcher("substring", <<r.rune>>)
    [] isExactLiteral(r) -> Matcher("equals", <<r.sub[2].rune>>)
    [] isAltLiterals(r) -> Matcher("substring", Runes(r.sub))
    [] isOneOfLiterals(r) -> Matcher("equals", Runes(r.sub[2].sub))
    [] isPrefixLiteral(r) -> Matcher("prefix", <<r.sub[2].rune>>)
    [] isPrefixAltLiterals(r) -> Matcher("prefix", Runes(r.sub[2].sub))
    [] OTHER ->
         IF isPrefixNumDate(r) THEN compilePrefixNumDate(r)
         ELSE IF r = patEmptyText THEN Matcher("empty", <<>>)
         ELSE IF r = patEmptyWhiteText THEN Matcher("white", <<>>)
         ELSE IF r \in patAny THEN Matcher("any", <<>>)
         ELSE [Matcher("regexp", <<>>) EXCEPT !.regex = r]

(* matchers.go *)
HasText(s, text) == \E i \in 0..Len(s) : IsPrefix(text, SubSeq(s, i + 1, Len(s)))
Contains1(s, texts) == \E k \in DOMAIN texts : HasText(s, texts[k])
StartsWith1(s, texts) == \E k \in DOMAIN texts : IsPrefix(texts[k], s)
IsDate(s, text) ==
  Len(s) >= Len(text) /\ \A k \in DOMAIN text : s[k] = text[k] \/ (text[k] = "#" /\ Contains(Digits, s[k]))
AllWhite(s) == \A k \in DOMAIN s : Contains(White, s[k])

MatchString(m, s) ==
  CASE m.kind = "equals" -> Contains(m.texts, s)
    [] m.kind = "substring" -> Contains1(s, m.texts)
    [] m.kind = "prefix" -> StartsWith1(s, m.texts)
    [] m.kind = "date" -> IsDate(s, m.texts[1])
    [] m.kind = "empty" -> s = <<>>
    [] m.kind = "white" -> AllWhite(s)
    [] m.kind = "any" -> TRUE
    [] m.kind = "regexp" -> Find(m.regex, s)

matchAnyStrings(m, strs) == \E k \in DOMAIN strs : MatchString(m, strs[k])
matchAllStrings(m, strs) == \A k \in DOMAIN strs : MatchString(m, strs[k])

CompileString(in) == IF in = <<>> THEN Matcher("empty", <<>>) ELSE Matcher("substring", <<in>>)

Compile(regex) == compile(Simplify(optimize(regex)))

(* The whole text must match: the expression is anchored on both sides *)
Anchored(regex) ==
  LET r == Simplify(regex)
      begun == IF eqPrefixRegex(r, BeginText) THEN r.sub ELSE <<BeginText>> \o r.sub
  IN  IF r.op # "concat" THEN Concat(<<BeginText, r, EndText>>)
      ELSE [r EXCEPT !.sub = IF eqSuffixRegex(r, EndText) THEN begun ELSE Append(begun, EndText)]

CompileExact(regex) == compile(Simplify(optimize(Anchored(regex))))

-----------------------------------------------------------------------------
(***************************************************************************)
(* The conditions of processors and autodiscover templates (conditions/).  *)
(* A configuration is a record with one field for each option it sets; a   *)
(* condition is what NewCondition makes of it.                             *)
(*                                                                         *)
(* Numbers are the digits of their text; addresses are named, and          *)
(* Networks, standing for net.IP and net.IPNet, says what each network     *)
(* contains.                                                               *)
(***************************************************************************)

CONSTANT Networks        \* from the named networks and CIDRs to sets of addresses

(* extractors.go: a number, or an error *)
NaN == [num |-> 0, ok |-> FALSE]
Digit(c) == IF c = "1" THEN 1 ELSE 0
TextNum(text) == FoldLeft(LAMBDA n, c : 10 * n + Digit(c), 0, text)
IsNumText(text) == text # <<>> /\ \A k \in DOMAIN text : Contains(Digits, text[k])

ExtractFloat(v) ==
  IF v.kind \in {"number", "float"} \/ (v.kind = "string" /\ IsNumText(v.text))
  THEN [num |-> TextNum(v.text), ok |-> TRUE] ELSE NaN

ExtractInt(v) == IF v.kind = "number" THEN [num |-> TextNum(v.text), ok |-> TRUE] ELSE NaN
ExtractString(v) == [text |-> v.text, ok |-> v.kind = "string"]
ExtractBool(v) == [text |-> v.text, ok |-> v.kind = "bool"]

(* What a field holds, as the type switches see it *)
FieldValue(e, p) == IF IsKind(GetValue(e, p).tree, "map") \/ DOMAIN GetValue(e, p).tree # {<<>>}
                    THEN EmptyMap ELSE GetValue(e, p).tree[<<>>]

(* equals.go *)
NewEqualsCondition(fields) ==
  [op |-> "equals", fields |-> fields,
   err |-> \E p \in DOMAIN fields :
              ~(ExtractInt(fields[p]).ok \/ ExtractString(fields[p]).ok \/ ExtractBool(fields[p]).ok)]

equalsValue(want, v) ==
  IF ExtractInt(want).ok THEN ExtractInt(v).ok /\ ExtractInt(v).num = ExtractInt(want).num
  ELSE IF ExtractString(want).ok THEN ExtractString(v).ok /\ v.text = want.text
  ELSE ExtractBool(v).ok /\ v.text = want.text

EqualsCheck(c, e) == \A p \in DOMAIN c.fields : Has(e, p) /\ equalsValue(c.fields[p], FieldValue(e, p))

(* matcher.go *)
NewMatcherCondition(fields, comp(_)) ==
  [op |-> "matcher", fields |-> [p \in DOMAIN fields |-> comp(fields[p])], err |-> FALSE]

Strings(items) == SelectSeq(items, LAMBDA i : i.kind = "string")

MatcherCheck(c, e) ==
  \A p \in DOMAIN c.fields :
    LET v == FieldValue(e, p)
    IN  /\ Has(e, p)
        /\ CASE v.kind = "string" -> MatchString(c.fields[p], v.text)
             [] v.kind = "array" ->
                  matchAnyStrings(c.fields[p], [k \in DOMAIN Strings(v.items) |-> Strings(v.items)[k].text])
             [] OTHER -> FALSE

(* range.go: the bounds of a field, each from one "field.op" option *)
Bounds == {"gte", "gt", "lte", "lt"}

NewRangeCondition(config) ==
  [op |-> "range",
   fields |-> [p \in {Front(q) : q \in DOMAIN config} |->
                 [b \in {Last(q) : q \in {x \in DOMAIN config : Front(x) = p}} |->
                    ExtractFloat(config[Append(p, b)]).num]],
   err |-> \E q \in DOMAIN config : Last(q) \notin Bounds \/ ~ExtractFloat(config[q]).ok]

checkValue(n, bounds) ==
  \A b \in DOMAIN bounds :
    CASE b = "gte" -> n >= bounds[b]
      [] b = "gt" -> n > bounds[b]
      [] b = "lte" -> n <= bounds[b]
      [] b = "lt" -> n < bounds[b]

RangeCheck(c, e) ==
  \A p \in DOMAIN c.fields :
    /\ Has(e, p)
    /\ ExtractFloat(FieldValue(e, p)).ok
    /\ checkValue(ExtractFloat(FieldValue(e, p)).num, c.fields[p])

(* has_fields.go *)
NewHasFieldsCondition(fields) == [op |-> "has_fields", fields |-> fields, err |-> FALSE]
HasFieldsCheck(c, e) == \A p \in c.fields : Has(e, p)

(* network.go *)
extractIP(v) == IF v.kind = "string" /\ v.text \in UNION {Networks[n] : n \in DOMAIN Networks} THEN v.text ELSE <<>>

NewNetworkCondition(fields) ==
  [op |-> "network", fields |-> fields, err |-> \E p \in DOMAIN fields : ~(fields[p] \subseteq DOMAIN Networks)]

isPrivateNetwork(ip) == \E n \in {"10.0.0.0/8", "172.16.0.0/12", "192.168.0.0/16", "fd00::/8"} : ip \in Networks[n]

isLocalOrPrivate(ip) ==
  \/ isPrivateNetwork(ip)
  \/ \E n \in {"loopback", "unspecified", "broadcast", "link_local_unicast", "link_local_multicast",
               "interface_local_multicast"} : ip \in Networks[n]

NetworkContains(ip, networks) ==
  \E n \in networks :
    CASE n = "private" -> isPrivateNetwork(ip)
      [] n = "public" -> ~isLocalOrPrivate(ip)
      [] OTHER -> ip \in Networks[n]

NetworkCheck(c, e) ==
  \A p \in DOMAIN c.fields :
    /\ Has(e, p)
    /\ extractIP(FieldValue(e, p)) # <<>>
    /\ NetworkContains(extractIP(FieldValue(e, p)), c.fields[p])

(* conditions.go: the first option that is set decides, the others are not
   looked at *)
OptionOrder == <<"equals", "contains", "regexp", "range", "has_fields", "network", "or", "and", "not">>
Failed == [op |-> "", err |-> TRUE]

RECURSIVE NewCondition(_)
NewConditionList(configs, op) ==
  LET list == [k \in DOMAIN configs |-> NewCondition(configs[k])]
  IN  [op |-> op, list |-> list, err |-> \E k \in DOMAIN list : list[k].err]

NewCondition(config) ==
  LET set == SelectSeq(OptionOrder, LAMBDA o : o \in DOMAIN config)
      o == Head(set)
  IN  IF set = <<>> THEN Failed
      ELSE CASE o = "equals" -> NewEqualsCondition(config[o])
             [] o = "contains" -> NewMatcherCondition(config[o], CompileString)
             [] o = "regexp" -> NewMatcherCondition(config[o], Compile)
             [] o = "range" -> NewRangeCondition(config[o])
             [] o = "has_fields" -> NewHasFieldsCondition(config[o])
             [] o = "network" -> NewNetworkCondition(config[o])
             [] o \in {"or", "and"} -> NewConditionList(config[o], o)
             [] o = "not" -> LET inner == NewCondition(config[o])
                             IN  [op |-> "not", list |-> <<inner>>, err |-> inner.err]

RECURSIVE Check(_, _)
Check(c, e) ==
  CASE c.op = "equals" -> EqualsCheck(c, e)
    [] c.op = "matcher" -> MatcherCheck(c, e)
    [] c.op = "range" -> RangeCheck(c, e)
    [] c.op = "has_fields" -> HasFieldsCheck(c, e)
    [] c.op = "network" -> NetworkCheck(c, e)
    [] c.op = "or" -> \E k \in DOMAIN c.list : Check(c.list[k], e)
    [] c.op = "and" -> \A k \in DOMAIN c.list : Check(c.list[k], e)
    [] c.op = "not" -> ~Check(c.list[1], e)

-----------------------------------------------------------------------------
(***************************************************************************)
(* The dissect tokenizer (processors/dissect): a text is cut at the        *)
(* delimiters of the tokenizer, and the pieces become fields.              *)
(*                                                                         *)
(* A tokenizer is a sequence of pairs of a delimiter and a key, and the    *)
(* delimiter behind the last key.  A key is the record of the parts        *)
(* extractKeyParts finds in it.  Texts are sequences of characters;        *)
(* positions count from 0, as in the code.                                 *)
(***************************************************************************)

Piece(s, from, to) == SubSeq(s, from + 1, to)
Join == <<" ">>

----------------------------------------------------------------------------
(* The tokenizer *)
Key(prefix, name) == [prefix |-> prefix, name |-> name, type |-> "", ordinal |-> 0, length |-> 0, greedy |-> FALSE]

(* newField: the kind of a key; only plain and append keys keep the suffix
   that makes them greedy, only plain and indirect ones their type. *)
newField(id, key, previous) ==
  LET kind == CASE key.name = <<>> -> "skip"
                [] key.prefix = "?" -> "named skip"
                [] key.prefix = "*" -> "pointer"
                [] key.prefix = "+" -> "append"
                [] key.prefix = "&" -> "indirect"
                [] OTHER -> "normal"
  IN  [id |-> id, kind |-> kind, key |-> key.name, previous |-> previous,
       type |-> IF kind \in {"normal", "indirect"} THEN key.type ELSE "",
       ordinal |-> IF kind \in {"normal", "append"} THEN key.ordinal ELSE 0,
       length |-> IF kind = "skip" THEN 0 ELSE key.length,
       greedy |-> kind \in {"normal", "append"} /\ key.greedy]

BadKey(key) == key.prefix \in {"+&", "&+"} \/ key.type = "unknown"

IsSaveable(f) == f.kind \notin {"skip", "named skip", "pointer"}
IsFixedLength(f) == f.length > 0

(* newParser: the delimiters, the fields by their ordinals, and the fields
   that only name others *)
newParser(tok) ==
  LET fields == [i \in DOMAIN tok.pairs |-> newField(i, tok.pairs[i].key, tok.pairs[i].delim)]
      delims == [i \in DOMAIN tok.pairs |-> [text |-> tok.pairs[i].delim, greedy |-> fields[i].greedy]]
  IN  [delimiters |-> IF tok.last = <<>> THEN delims ELSE Append(delims, [text |-> tok.last, greedy |-> FALSE]),
       byId |-> fields,
       fields |-> SortSeq(fields, LAMBDA f, g : f.ordinal < g.ordinal \/ (f.ordinal = g.ordinal /\ f.id < g.id)),
       referenceFields |-> SelectSeq(fields, LAMBDA f : ~IsSaveable(f))]

(* validate: what an indirect field points to must be there *)
validate(p) ==
  \A i \in DOMAIN p.fields : p.fields[i].kind = "indirect" =>
    \E j \in DOMAIN p.referenceFields : p.referenceFields[j].key = p.fields[i].key

NewDissector(tok) ==
  IF tok.pairs = <<>> \/ \E i \in DOMAIN tok.pairs : BadKey(tok.pairs[i].key) THEN [err |-> TRUE]
  ELSE [err |-> ~validate(newParser(tok)), parser |-> newParser(tok)]

----------------------------------------------------------------------------

(* IndexOf: the place of the delimiter at or behind offset, -1 for none; an
   empty delimiter is everywhere.  -2 stands for the panic of an offset that
   is behind the end of the text. *)
IndexOf(d, s, offset) ==
  IF d.text = <<>> THEN offset
  ELSE IF offset > Len(s) THEN -2
  ELSE LET at == {i \in offset..(Len(s) - Len(d.text)) : Piece(s, i, i + Len(d.text)) = d.text}
       IN  IF at = {} THEN -1 ELSE Min(at)

(* The greedy loop: the delimiter is skipped as long as it follows itself one
   position further on.  An empty one follows itself for ever: -3. *)
RECURSIVE Greedy(_, _, _)
Greedy(d, s, offset) ==
  IF d.text = <<>> THEN -3
  ELSE LET lookahead == IndexOf(d, s, offset + 1)
       IN  IF lookahead = -2 THEN -2
           ELSE IF lookahead # offset + 1 THEN offset
           ELSE Greedy(d, s, lookahead)

Extracted(err, positions) == [err |-> err, positions |-> positions]
NoPosition == [start |-> 0, end |-> 0]

(* One turn for each delimiter but the first: i is the field in front of it.
   Behind a last delimiter there is no field, and the first one is checked. *)
RECURSIVE ExtractFrom(_, _, _, _, _)
ExtractFrom(p, s, i, offset, positions) ==
  LET field == p.byId[i]
      next == p.delimiters[i + 1]
      end == IF IsFixedLength(field) THEN offset + field.length ELSE IndexOf(next, s, offset)
      past == IF p.delimiters[i].greedy THEN Greedy(next, s, end) ELSE end
  IN  IF i = Len(p.delimiters)
      THEN LET last == IF i <= Len(p.byId) THEN p.byId[i] ELSE p.fields[1]
           IN IF IsFixedLength(last) /\ offset + last.length # Len(s)
           THEN Extracted("last fixed length", <<>>)
           ELSE IF offset < Len(s) /\ i <= Len(p.byId)
           THEN Extracted("", [positions EXCEPT ![i] = [start |-> offset, end |-> Len(s)]])
           ELSE Extracted("", positions)
      ELSE IF end = -2 THEN Extracted("panic", <<>>)
      ELSE IF end = -1 THEN Extracted("no delimiter", <<>>)
      ELSE IF IsFixedLength(field) /\ end > Len(s) THEN Extracted("too short", <<>>)
      ELSE IF past = -2 THEN Extracted("panic", <<>>)
      ELSE IF past = -3 THEN Extracted("endless", <<>>)
      ELSE ExtractFrom(p, s, i + 1, past + Len(next.text),
                       [positions EXCEPT ![i] = [start |-> offset, end |-> end]])

(* extract: the text must begin with the first delimiter *)
extract(p, s) ==
  IF IndexOf(p.delimiters[1], s, 0) # 0 THEN Extracted("no beginning", <<>>)
  ELSE ExtractFrom(p, s, 1, Len(p.delimiters[1].text), [i \in DOMAIN p.byId |-> NoPosition])

----------------------------------------------------------------------------
(* The trimmers: characters of the set are cut off on the chosen sides *)
Trim(chars, left, right, s, pos) ==
  LET start == IF ~left THEN pos.start
               ELSE Min({i \in pos.start..pos.end : i = pos.end \/ s[i + 1] \notin chars})
      end == IF ~right THEN pos.end
             ELSE Max({i \in start..pos.end : i = start \/ s[i] \notin chars})
  IN  [start |-> start, end |-> end]

(* Apply: what a field does to the map with its piece of the text *)
PutKey(m, k, v) == [x \in DOMAIN m \cup {k} |-> IF x = k THEN v ELSE m[x]]
DeleteKeys(m, ks) == [x \in DOMAIN m \ ks |-> m[x]]
JoinString(f) == IF f.previous = <<>> THEN Join ELSE f.previous

ApplyField(f, b, m) ==
  CASE f.kind = "skip" -> m
    [] f.kind \in {"normal", "named skip", "pointer"} -> PutKey(m, f.key, b)
    [] f.kind = "indirect" -> IF f.key \in DOMAIN m THEN PutKey(m, m[f.key], b) ELSE m
    [] f.kind = "append" -> PutKey(m, f.key, IF f.key \in DOMAIN m THEN m[f.key] \o JoinString(f) \o b ELSE b)

EmptyMapping == [x \in {} |-> <<>>]
References(p) == {p.referenceFields[i].key : i \in DOMAIN p.referenceFields}
PieceOf(s, pos, f) == Piece(s, pos[f.id].start, pos[f.id].end)

resolve(p, s, pos) ==
  DeleteKeys(FoldLeft(LAMBDA m, f : ApplyField(f, PieceOf(s, pos, f), m), EmptyMapping, p.fields), References(p))

(* convertData: a text that does not convert stays as it is.  A number is
   marked by the name of its type. *)
convertData(type, v) == IF type = "integer" /\ v # <<>> /\ \A i \in DOMAIN v : v[i] = "1" THEN <<"integer">> \o v ELSE v

resolveConvert(p, s, pos) ==
  LET step(a, f) ==
        LET b == PieceOf(s, pos, f)
            m == ApplyField(f, b, a.m)
            key == IF f.key \in DOMAIN a.lookup THEN a.lookup[f.key] ELSE f.key
            v == IF key \in DOMAIN m THEN m[key] ELSE <<>>
        IN  IF ~IsSaveable(f) THEN [a EXCEPT !.m = m, !.lookup = PutKey(@, f.key, b)]
            ELSE [a EXCEPT !.m = m, !.mc = PutKey(@, key, IF f.type = "" THEN v ELSE convertData(f.type, v))]
      all == FoldLeft(step, [m |-> EmptyMapping, lookup |-> EmptyMapping, mc |-> EmptyMapping], p.fields)
  IN  DeleteKeys(all.mc, References(p))

NoTrim == [chars |-> {}, left |-> FALSE, right |-> FALSE]

Dissect1(p, trim, s) ==
  LET x == extract(p, s)
      pos == [i \in DOMAIN x.positions |-> Trim(trim.chars, trim.left, trim.right, s, x.positions[i])]
  IN  IF s = <<>> THEN [err |-> "empty", map |-> EmptyMapping]
      ELSE IF x.err # "" THEN [err |-> x.err, map |-> EmptyMapping]
      ELSE [err |-> "", map |-> resolve(p, s, pos)]

(* The values are not trimmed here *)
DissectConvert(p, s) ==
  LET x == extract(p, s)
  IN  IF s = <<>> THEN [err |-> "empty", map |-> EmptyMapping]
      ELSE IF x.err # "" THEN [err |-> x.err, map |-> EmptyMapping]
      ELSE [err |-> "", map |-> resolveConvert(p, s, x.positions)]

-----------------------------------------------------------------------------
(***************************************************************************)
(* The time formatter (common/dtfmt): a pattern is parsed into elements,   *)
(* the elements are compiled into a program of opcodes and operands, and   *)
(* the program is run over the fields of a timestamp.  The fields are kept *)
(* in a context taken from a pool, of which a call sets only those that    *)
(* the elements of its pattern say they need.                              *)
(*                                                                         *)
(* A pattern is a sequence of characters, the output one of pieces of      *)
(* text.  The fields of time.Time are given (package time): a timestamp is *)
(* a context with all its fields set.                                      *)
(***************************************************************************)

Letters == {"x", "y", "Y", "w", "e", "E", "D", "M", "d", "a", "K", "h", "H", "k", "m", "s", "S", "f", "n", "z", "T", "q"}

----------------------------------------------------------------------------
(* parseToken: a run of one letter, one other character, or quoted text.  A
   quote behind the closing one belongs to the text, and opens the next. *)
Token(tok, text, next) == [tok |-> tok, text |-> text, next |-> next, err |-> FALSE]

parseToken(p, i) ==
  LET run == Max({e \in i..Len(p) : \A k \in i..e : p[k] = p[i]})
      quotes == {k \in (i + 1)..Len(p) : p[k] = "'"}
      end == Min(quotes)
  IN  IF p[i] \in Letters THEN Token(p[i], SubSeq(p, i, run), run + 1)
      ELSE IF p[i] # "'" THEN Token("'", <<p[i]>>, i + 1)
      ELSE IF quotes = {} THEN [Token("'", <<>>, i) EXCEPT !.err = TRUE]
      ELSE IF end = i + 1 THEN Token("'", <<"'">>, i + 2)
      ELSE IF end < Len(p) /\ p[end + 1] = "'" THEN Token("'", SubSeq(p, i + 1, end), end + 1)
      ELSE Token("'", SubSeq(p, i + 1, end - 1), end + 1)

----------------------------------------------------------------------------
(* The elements of the builder *)
Element(el, ft, divExp, digits, fract, text) ==
  [el |-> el, ft |-> ft, divExp |-> divExp, digits |-> digits, fract |-> fract, text |-> text]

LiteralElement(text) == Element("literal", "", 0, 0, 0, text)
TextField(ft, short) == Element(IF short THEN "textShort" ELSE "textLong", ft, 0, 0, 0, <<>>)
TwoDigitYear(ft) == Element("twoDigit", ft, 0, 0, 0, <<>>)

(* appendDecimalValue: one letter does not pad, more pad to the width of the
   field at least *)
appendDecimalValue(ft, minDigits, maxDigits) ==
  LET width == IF maxDigits < minDigits THEN minDigits ELSE maxDigits
  IN  IF minDigits <= 1 THEN Element("num", ft, 0, 0, 0, <<>>) ELSE Element("padded", ft, 0, width, 0, <<>>)

nanoOfSecond(n) ==
  IF n <= 9 THEN <<Element("padded", "nano", 9 - n, n, 0, <<>>)>>
  ELSE <<Element("padded", "nano", 0, 9, 0, <<>>), Element("zeros", "", 0, n - 9, 0, <<>>)>>

fractNanoOfSecond(n) ==
  LET digits == IF n > 9 THEN 9 ELSE n
  IN  <<Element("padded", "nano", 9 - digits, digits, 3, <<>>)>>

(* The elements of one token; <<>> for a letter that is not supported *)
TokenElements(tok, text) ==
  LET n == Len(text)
      decimal(ft, max) == <<appendDecimalValue(ft, n, max)>>
  IN  CASE tok = "x" -> IF n = 2 THEN <<TwoDigitYear("isoYear")>> ELSE decimal("isoYear", 4)
        [] tok \in {"y", "Y"} -> IF n = 2 THEN <<TwoDigitYear("year")>> ELSE decimal("year", 4)
        [] tok = "w" -> decimal("isoWeek", 2)
        [] tok = "e" -> decimal("weekday", 1)
        [] tok = "E" -> <<TextField("weekday", n < 4)>>
        [] tok = "D" -> decimal("yearday", 3)
        [] tok = "M" -> IF n >= 3 THEN <<TextField("month", n = 3)>> ELSE decimal("month", 2)
        [] tok = "d" -> decimal("day", 2)
        [] tok = "a" -> <<TextField("halfday", FALSE)>>
        [] tok = "K" -> decimal("hourOfHalfday", 2)
        [] tok = "h" -> decimal("clockhourOfHalfday", 2)
        [] tok = "H" -> decimal("hour", 2)
        [] tok = "k" -> decimal("clockhourOfDay", 2)
        [] tok = "m" -> decimal("min", 2)
        [] tok = "s" -> decimal("sec", 2)
        [] tok = "S" -> nanoOfSecond(n)
        [] tok = "f" -> fractNanoOfSecond(n)
        [] tok = "n" -> nanoOfSecond(9)
        [] tok = "z" -> <<TextField("tz", FALSE)>>
        [] tok = "'" -> <<LiteralElement(text)>>
        [] OTHER -> <<>>

RECURSIVE parsePatternTo(_, _)
parsePatternTo(p, i) ==
  LET t == parseToken(p, i)
      rest == parsePatternTo(p, t.next)
  IN  IF i > Len(p) THEN [err |-> FALSE, elements |-> <<>>]
      ELSE IF t.err \/ TokenElements(t.tok, t.text) = <<>> THEN [err |-> TRUE, elements |-> <<>>]
      ELSE [err |-> rest.err, elements |-> TokenElements(t.tok, t.text) \o rest.elements]

(* optimize: neighbouring literals become one *)
optimizeElements(es) ==
  FoldLeft(LAMBDA out, e : IF out # <<>> /\ e.el = "literal" /\ Last(out).el = "literal"
                           THEN [out EXCEPT ![Len(out)].text = @ \o e.text] ELSE Append(out, e), <<>>, es)

----------------------------------------------------------------------------
(* What the elements need of the context *)
ClockFields == {"halfday", "hourOfHalfday", "clockhourOfHalfday", "clockhourOfDay", "hour", "min", "sec"}

numRequires(ft) ==
  CASE ft \in {"year", "month", "day"} -> {"date"}
    [] ft \in {"isoYear", "isoWeek"} -> {"iso"}
    [] ft = "yearday" -> {"yearday"}
    [] ft = "weekday" -> {"weekday"}
    [] ft \in ClockFields -> {"clock"}
    [] ft = "nano" -> {"nano"}
    [] OTHER -> {}

textRequires(ft) ==
  CASE ft = "halfday" -> {"clock"}
    [] ft = "month" -> {"date"}
    [] ft = "weekday" -> {"weekday"}
    [] ft = "tz" -> {"tzOffset"}

createConfig(es) ==
  UNION {IF es[i].el \in {"textShort", "textLong"} THEN textRequires(es[i].ft) ELSE numRequires(es[i].ft) : i \in DOMAIN es}

(* initTime: the other fields keep what the context was last used with *)
initTime(config, t, ctx) ==
  LET set == (IF "date" \in config THEN {"year", "month", "day"} ELSE {})
             \cup (IF "clock" \in config THEN {"hour", "min", "sec"} ELSE {})
             \cup (IF "iso" \in config THEN {"isoYear", "isoWeek"} ELSE {})
             \cup (IF "tzOffset" \in config THEN {"tz"} ELSE {})
             \cup (config \cap {"nano", "yearday", "weekday"})
  IN  [f \in DOMAIN ctx |-> IF f \in set THEN t[f] ELSE ctx[f]]

----------------------------------------------------------------------------
(* The program.  Only literals of one and of two bytes have an opcode of
   their own that fits: those of three and of four are written behind the
   opcode for two.  (Literals of 256 bytes and more are left out.) *)
makeCopy(b) ==
  CASE Len(b) = 0 -> <<>>
    [] Len(b) = 1 -> <<"copy1">> \o b
    [] Len(b) \in 2..4 -> <<"copy2">> \o b
    [] OTHER -> <<"copyShort", Len(b)>> \o b

CompileElement(e) ==
  CASE e.el = "literal" -> makeCopy(e.text)
    [] e.el = "padded" /\ e.fract # 0 -> <<"extNumFractPadded", e.ft, e.divExp, e.digits, e.fract>>
    [] e.el = "padded" /\ e.fract = 0 /\ e.divExp = 0 -> <<"numPadded", e.ft, e.digits>>
    [] e.el = "padded" /\ e.fract = 0 /\ e.divExp # 0 -> <<"extNumPadded", e.ft, e.divExp, e.digits>>
    [] e.el = "zeros" -> <<"zeros", e.digits>>
    [] OTHER -> <<e.el, e.ft>>

compileProg(es) == FoldLeft(LAMBDA p, e : p \o CompileElement(e), <<>>, es)

(* The values of the fields *)
getIntField(ft, c) ==
  CASE ft = "halfday" -> IF c.hour < 12 THEN 0 ELSE 1
    [] ft = "hourOfHalfday" -> IF c.hour < 12 THEN c.hour ELSE c.hour - 12
    [] ft = "clockhourOfHalfday" -> IF c.hour < 12 THEN c.hour + 1 ELSE (c.hour - 12) + 1
    [] ft = "clockhourOfDay" -> c.hour + 1
    [] OTHER -> c[ft]

RECURSIVE Decimal(_)
Decimal(n) ==
  IF n < 0 THEN <<"-">> \o Decimal(-n)
  ELSE IF n < 10 THEN <<ToString(n)>> ELSE Append(Decimal(n \div 10), ToString(n % 10))

Zeros(n) == [i \in 1..(IF n > 0 THEN n ELSE 0) |-> "0"]

(* appendPadded; of a negative number the sign and a slash are left *)
appendPadded(v, digits) ==
  IF v < 0 THEN <<"-">> \o Zeros(digits - 1) \o <<"/">>
  ELSE Zeros(digits - Len(Decimal(v))) \o Decimal(v)

(* The loop of appendFractPadded over the groups of three, from the last one *)
RECURSIVE StripZeros(_, _, _)
StripZeros(bs, begin, end) ==
  IF \E k \in (begin + 1)..end : bs[k] # "0" THEN SubSeq(bs, 1, end)
  ELSE IF begin <= 3 THEN SubSeq(bs, 1, begin)
  ELSE StripZeros(bs, begin - 3, begin)

appendFractPadded(v, digits, fract) ==
  LET bs == appendPadded(v, digits)
  IN  IF fract = 0 \/ digits <= fract THEN bs
      ELSE StripZeros(bs, ((Len(bs) - 1) \div fract) * fract, Len(bs))

pow10(n) == 10 ^ n

tzOffsetString(c) ==
  LET abs == IF c.tz >= 0 THEN c.tz \div 60 ELSE (-c.tz) \div 60
  IN  <<IF c.tz > -60 THEN "+" ELSE "-">> \o appendPadded(abs \div 60, 2) \o <<":">> \o appendPadded(abs % 60, 2)

WeekdayName(d) ==
  <<<<"Sun", "day">>, <<"Mon", "day">>, <<"Tue", "sday">>, <<"Wed", "nesday">>, <<"Thu", "rsday">>,
    <<"Fri", "day">>, <<"Sat", "urday">>>>[d + 1]
MonthName(m) ==
  <<<<"Jan", "uary">>, <<"Feb", "ruary">>, <<"Mar", "ch">>, <<"Apr", "il">>, <<"May">>, <<"Jun", "e">>, <<"Jul", "y">>,
    <<"Aug", "ust">>, <<"Sep", "tember">>, <<"Oct", "ober">>, <<"Nov", "ember">>, <<"Dec", "ember">>>>[m]

getTextField(ft, c) ==
  CASE ft = "halfday" -> <<IF c.hour < 12 THEN "AM" ELSE "PM">>
    [] ft = "weekday" -> WeekdayName(c.weekday)
    [] ft = "month" -> MonthName(c.month)
    [] ft = "tz" -> tzOffsetString(c)

getTextFieldShort(ft, c) ==
  CASE ft = "halfday" -> <<IF c.hour < 12 THEN "AM" ELSE "PM">>
    [] ft = "weekday" -> <<WeekdayName(c.weekday)[1]>>
    [] ft = "month" -> <<MonthName(c.month)[1]>>

(* eval: the program is run from its i-th item on *)
RECURSIVE eval(_, _, _, _)
eval(p, i, c, out) ==
  LET op == p[i]
      int == getIntField(p[i + 1], c)
      go(n, text) == eval(p, i + 1 + n, c, out \o text)
  IN  IF i > Len(p) THEN [err |-> FALSE, out |-> out]
      ELSE CASE op = "copy1" -> go(1, SubSeq(p, i + 1, i + 1))
             [] op = "copy2" -> go(2, SubSeq(p, i + 1, i + 2))
             [] op = "copyShort" -> go(1 + p[i + 1], SubSeq(p, i + 2, i + 1 + p[i + 1]))
             [] op = "num" -> go(1, Decimal(int))
             [] op = "numPadded" -> go(2, appendPadded(int, p[i + 2]))
             [] op = "extNumPadded" -> go(3, appendPadded(int \div pow10(p[i + 2]), p[i + 3]))
             [] op = "extNumFractPadded" -> go(4, appendFractPadded(int \div pow10(p[i + 2]), p[i + 3], p[i + 4]))
             [] op = "zeros" -> go(1, Zeros(p[i + 1]))
             [] op = "twoDigit" -> go(1, appendPadded(IF int < 0 THEN -((-int) % 100) ELSE int % 100, 2))
             [] op = "textShort" -> go(1, getTextFieldShort(p[i + 1], c))
             [] op = "textLong" -> go(1, getTextField(p[i + 1], c))
             [] OTHER -> [err |-> TRUE, out |-> out]

(* NewFormatter and Format, with the context the pool hands out *)
NewFormatter(p) ==
  LET parsed == parsePatternTo(p, 1)
      es == optimizeElements(parsed.elements)
  IN  IF parsed.err THEN [err |-> TRUE]
      ELSE [err |-> FALSE, prog |-> compileProg(es), config |-> createConfig(es)]

Format(p, t, ctx) ==
  LET f == NewFormatter(p)
  IN  IF f.err THEN [err |-> TRUE, out |-> <<>>] ELSE eval(f.prog, 1, initTime(f.config, t, ctx), <<>>)

-----------------------------------------------------------------------------
(***************************************************************************)
(* Format strings over events (common/fmtstr): a text with expressions     *)
(* such as %{[field]:default} and %{+yyyy} is cut into tokens, parsed into *)
(* elements, compiled into evaluators that share one table of the fields   *)
(* to look up, and run on an event.                                        *)
(*                                                                         *)
(* Texts are sequences of characters; offsets count from 0, as in the      *)
(* code.  An event is a function from the paths of its fields to a kind    *)
(* and a text, and a timestamp.  "panic" marks a slice out of range.       *)
(***************************************************************************)

Cut(s, from, to) == SubSeq(s, from + 1, to)
OpChars == {"!", "@", "#", "&", "*", "=", "+", "<", ">", "?"}

----------------------------------------------------------------------------
(* makeLexer: the tokens of a text.  A backslash is taken out and the
   character behind it is passed over; behind the last character there is
   none.  The operator takes one character more than its sign. *)
Tok(typ, val) == [typ |-> typ, val |-> val]
StrTok(s) == IF s = <<>> THEN <<>> ELSE <<Tok("string", s)>>
Panic == <<Tok("panic", <<>>)>>

RECURSIVE makeLexer(_, _, _)
makeLexer(content, off, varcount) ==
  LET stops == IF varcount = 0 THEN {"%", "\\"} ELSE {"%", ":", "}", "\\"}
      at == {i \in off..(Len(content) - 1) : content[i + 1] \in stops}
      idx == Min(at)
      next == idx + 1
      text == StrTok(Cut(content, 0, idx))
      rest(from, v) == makeLexer(Cut(content, from, Len(content)), 0, v)
  IN  IF content = <<>> THEN <<>>
      ELSE IF off > Len(content) THEN Panic
      ELSE IF at = {} THEN StrTok(content)
      ELSE CASE content[next] = "\\" -> makeLexer(RemoveAt(content, next), next, varcount)
             [] content[next] = "}" -> text \o <<Tok("close", <<>>)>> \o rest(next, varcount - 1)
             [] content[next] = ":" ->
                  IF Len(content) <= next THEN StrTok(content)
                  ELSE IF content[next + 1] \notin OpChars THEN text \o <<Tok("operator", <<":">>)>> \o rest(next, varcount)
                  ELSE IF next + 2 > Len(content) THEN text \o Panic
                  ELSE text \o <<Tok("operator", Cut(content, idx, next + 2))>> \o rest(next + 1, varcount)
             [] content[next] = "%" ->
                  IF Len(content) <= next THEN StrTok(content)
                  ELSE IF content[next + 1] # "{" THEN makeLexer(content, next, varcount)
                  ELSE text \o <<Tok("open", <<>>)>> \o rest(next + 1, varcount + 1)

(* parseVariable: the tokens up to the closing brace, texts and operators in
   turn, and the place behind it *)
Bad == [err |-> TRUE]

RECURSIVE parseVariable(_, _, _, _)
parseVariable(toks, i, strings, ops) ==
  IF i > Len(toks) THEN Bad
  ELSE CASE toks[i].typ = "close" ->
              IF strings = <<>> THEN Bad
              ELSE [err |-> FALSE, next |-> i + 1, field |-> Head(strings),
                    ops |-> [k \in DOMAIN ops |-> [op |-> ops[k], param |-> IF k < Len(strings) THEN strings[k + 1] ELSE <<>>]]]
         [] toks[i].typ = "string" ->
              IF Len(strings) # Len(ops) THEN Bad ELSE parseVariable(toks, i + 1, Append(strings, toks[i].val), ops)
         [] toks[i].typ = "operator" ->
              IF strings = <<>> \/ Len(ops) + 1 > Len(strings) THEN Bad
              ELSE parseVariable(toks, i + 1, strings, Append(ops, toks[i].val))
         [] OTHER -> Bad

RECURSIVE parse(_, _)
parse(toks, i) ==
  LET v == parseVariable(toks, i + 1, <<>>, <<>>)
      then(elem, next) == LET r == parse(toks, next) IN IF r.err THEN Bad ELSE [err |-> FALSE, elems |-> <<elem>> \o r.elems]
  IN  IF i > Len(toks) THEN [err |-> FALSE, elems |-> <<>>]
      ELSE CASE toks[i].typ = "string" -> then([el |-> "string", text |-> toks[i].val], i + 1)
             [] toks[i].typ = "open" -> IF v.err THEN Bad ELSE then([el |-> "var", field |-> v.field, ops |-> v.ops], v.next)
             [] OTHER -> Bad

----------------------------------------------------------------------------
(* parseEventPath: [a][b] and [a.b] are the path a.b *)
RECURSIVE PathParts(_)
PathParts(f) ==
  LET ends == {i \in DOMAIN f : f[i] = "]"}
      rest == PathParts(SubSeq(f, Min(ends) + 1, Len(f)))
  IN  IF f = <<>> THEN [err |-> FALSE, parts |-> <<>>]
      ELSE IF f[1] # "[" \/ ends = {} \/ Min(ends) = 2 THEN Bad
      ELSE IF rest.err THEN Bad ELSE [err |-> FALSE, parts |-> <<SubSeq(f, 2, Min(ends) - 1)>> \o rest.parts]

parseEventPath(field) ==
  LET inner == {i \in DOMAIN field : field[i] # " "}
      p == PathParts(IF inner = {} THEN <<>> ELSE SubSeq(field, Min(inner), Max(inner)))
  IN  IF p.err THEN Bad
      ELSE [err |-> FALSE, path |-> IF p.parts = <<>> THEN <<>> ELSE FoldLeft(LAMBDA s, x : s \o <<".">> \o x, Head(p.parts), Tail(p.parts))]

(* The compiler's state: the fields met so far, in the order of their first
   use, and whether a use without a default makes them required. *)
IndexOfPath(keys, path) == CHOOSE i \in 1..(Len(keys) + 1) : i = Len(keys) + 1 \/ keys[i].path = path

compileEventField(c, field, ops) ==
  LET p == parseEventPath(field)
      found == {i \in DOMAIN c.keys : c.keys[i].path = p.path}
      i == IF found = {} THEN Len(c.keys) + 1 ELSE Min(found)
      keys == IF found = {} THEN Append(c.keys, [path |-> p.path, required |-> ops = <<>>])
              ELSE [c.keys EXCEPT ![i].required = @ \/ ops = <<>>]
  IN  IF Len(ops) > 1 \/ (Len(ops) = 1 /\ ops[1].op # <<":">>) \/ p.err THEN [c EXCEPT !.err = TRUE]
      ELSE [c EXCEPT !.keys = keys,
              !.evalers = Append(@, IF ops = <<>> THEN [ev |-> "field", index |-> i]
                                    ELSE [ev |-> "default", index |-> i, text |-> ops[1].param])]

compileTimestamp(c, expression) ==
  IF NewFormatter(Tail(expression)).err THEN [c EXCEPT !.err = TRUE]
  ELSE [c EXCEPT !.timestamp = TRUE, !.evalers = Append(@, [ev |-> "time", text |-> Tail(expression)])]

compileExpression(c, e) ==
  CASE Head(e.field) = "[" -> compileEventField(c, e.field, e.ops)
    [] Head(e.field) = "+" -> compileTimestamp(c, e.field)
    [] OTHER -> [c EXCEPT !.err = TRUE]

(* optimize: texts next to each other become one *)
optimizeFormat(es) ==
  FoldLeft(LAMBDA out, e : IF out # <<>> /\ e.ev = "string" /\ Last(out).ev = "string"
                           THEN [out EXCEPT ![Len(out)].text = @ \o e.text] ELSE Append(out, e), <<>>, es)

compileElements(elems) ==
  FoldLeft(LAMBDA c, e :
             IF c.err THEN c
             ELSE IF e.el = "string" THEN [c EXCEPT !.evalers = Append(@, [ev |-> "string", text |-> e.text])]
             ELSE compileExpression(c, e),
           [err |-> FALSE, keys |-> <<>>, timestamp |-> FALSE, evalers |-> <<>>], elems)

compiled(done) ==
  IF done.err THEN [err |-> TRUE, panic |-> FALSE]
  ELSE [err |-> FALSE, panic |-> FALSE, fields |-> done.keys, formatter |-> optimizeFormat(done.evalers)]

CompileEvent(in) ==
  LET toks == makeLexer(in, 0, 0)
      parsed == parse(toks, 1)
  IN  IF \E i \in DOMAIN toks : toks[i].typ = "panic" THEN [err |-> TRUE, panic |-> TRUE]
      ELSE IF parsed.err THEN [err |-> TRUE, panic |-> FALSE]
      ELSE compiled(compileElements(parsed.elems))

----------------------------------------------------------------------------
(* fieldString: the text of a field; lists and maps have none *)
fieldString(event, path) ==
  IF path \notin DOMAIN event.fields \/ event.fields[path].kind = "map" THEN [err |-> TRUE, text |-> <<>>]
  ELSE [err |-> FALSE, text |-> event.fields[path].text]

(* collectFields stops at the first required field that has no text *)
collectFields(fs, event) ==
  [err |-> \E i \in DOMAIN fs.fields : fs.fields[i].required /\ fieldString(event, fs.fields[i].path).err,
   keys |-> [i \in DOMAIN fs.fields |-> fieldString(event, fs.fields[i].path).text]]

EvalOne(e, keys, ts) ==
  CASE e.ev = "string" -> [err |-> FALSE, out |-> e.text]
    [] e.ev = "field" -> [err |-> FALSE, out |-> keys[e.index]]
    [] e.ev = "default" -> [err |-> FALSE, out |-> IF keys[e.index] = <<>> THEN e.text ELSE keys[e.index]]
    [] e.ev = "time" -> Format(e.text, ts, ts)

Eval(formatter, keys, ts) ==
  FoldLeft(LAMBDA a, e : IF a.err THEN a ELSE LET r == EvalOne(e, keys, ts) IN [err |-> r.err, out |-> a.out \o r.out],
           [err |-> FALSE, out |-> <<>>], formatter)

Run(fs, event) ==
  LET c == collectFields(fs, event)
  IN  IF c.err THEN [err |-> TRUE, out |-> <<>>] ELSE Eval(fs.formatter, c.keys, event.ts)

(* The timestamp format has only the fields of the Beat to look at *)
FieldsForBeat(beat, version) ==
  [path \in {<<obj, ".", name>> : obj \in {"beat", "agent", "observer"}, name \in {"name", "version"}} |->
     [kind |-> "string", text |-> IF path[3] = "name" THEN beat ELSE version]]

RunTimestamp(fs, fields, ts) == Run(fs, [fields |-> fields, ts |-> ts])
=============================================================================
