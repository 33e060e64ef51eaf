---------------------------- MODULE FieldActions ----------------------------
(***************************************************************************)
(* Processors that change the fields of an event: the actions, and the     *)
(* processors that decode or translate a field. Each is a function of its  *)
(* configuration and of the event.                                         *)
(***************************************************************************)
EXTENDS Event, Integers, FiniteSets

-----------------------------------------------------------------------------
(***************************************************************************)
(* The processors of processors/actions and processors/move_fields.  Each  *)
(* Run is an operator from a configuration and an event to the event that  *)
(* is handed on and the error.  The event NoEvent is a dropped event.  The    *)
(* order in which Go walks a map is part of the configuration (order).     *)
(***************************************************************************)

MandatoryExportedFields == {"type"}
NoEvent == [q \in {<<"none">>} |-> EmptyMap]

(* The loop most processors share: apply Step to each field, stop at the
   first error if fail_on_error and give back the backup with the message. *)
Each(Step(_, _), fields, e, failOnError, Restore(_)) ==
  FoldLeft(LAMBDA r, f :
             IF r.err # "" THEN r
             ELSE LET s == Step(f, r.event)
                  IN  IF s.err \in {"", "panic"} THEN s
                      ELSE IF failOnError THEN Err(Restore(e), s.err)
                      ELSE Ok(s.event),
           Ok(e), fields)

Same(e) == e

(* A fetch that failed: nothing to do if missing fields are ignored. *)
Missing(c, e, err) ==
  IF c.ignoreMissing /\ err = KeyNotFound THEN Ok(e) ELSE Err(e, err)

(* rename *)
renameField(c, f, e) ==
  LET value == GetValue(e, f.from)
      deleted == Delete(e, f.from)
  IN  IF Has(e, f.to) THEN Err(e, "target exists")
      ELSE IF value.err # "" THEN Missing(c, e, value.err)
      ELSE IF deleted.err # "" THEN deleted
      ELSE PutValue(deleted.event, f.to, value.tree)

renameFields(c, e) ==
  Each(LAMBDA f, x : renameField(c, f, x), c.fields, e, c.failOnError, WithMessage)

(* copy_fields *)
copyField(c, f, e) ==
  LET value == GetValue(e, f.from)
  IN  IF Has(e, f.to) THEN Err(e, "target exists")
      ELSE IF value.err # "" THEN Missing(c, e, value.err)
      ELSE PutValue(e, f.to, value.tree)

copyFields(c, e) ==
  Each(LAMBDA f, x : copyField(c, f, x), c.fields, e, c.failOnError, WithMessage)

(* replace: the regular expression is one letter.  A value that is no string
   makes the type assertion panic: no event comes back. *)
replaceField(c, f, e) ==
  LET value == GetValue(e, f.field)
      text == value.tree[<<>>].text
  IN  IF value.err # "" THEN Missing(c, e, value.err)
      ELSE IF ~IsKind(value.tree, "string") THEN Err(NoEvent, "panic")
      ELSE PutValue(e, f.field, Leaf(Str([i \in 1..Len(text) |->
             IF text[i] = f.pattern THEN f.replacement ELSE text[i]])))

replaceString(c, e) ==
  Each(LAMBDA f, x : replaceField(c, f, x), c.fields, e, c.failOnError, WithMessage)

(* truncate_fields: by bytes or by characters; a letter of Wide has two bytes *)
Wide == {"W"}
Bytes(text) == Len(text) + Len(SelectSeq(text, LAMBDA l : l \in Wide))
HalfRune == "half"

(* The first n bytes; a two byte letter that is cut in the middle leaves half
   a letter behind. *)
truncateBytes(text, n) ==
  IF Bytes(text) <= n THEN text
  ELSE LET fits == {i \in 0..Len(text) : Bytes(SubSeq(text, 1, i)) <= n}
           i == CHOOSE j \in fits : \A k \in fits : k <= j
           head == SubSeq(text, 1, i)
       IN  IF Bytes(head) = n THEN head ELSE Append(head, HalfRune)

truncateCharacters(text, n) == IF Len(text) <= n THEN text ELSE SubSeq(text, 1, n)

truncated(c, text) ==
  IF c.maxBytes > 0 THEN truncateBytes(text, c.maxBytes) ELSE truncateCharacters(text, c.maxChars)

flagTruncated(put, isTruncated) ==
  IF put.err # "" \/ ~isTruncated THEN put
  ELSE Ok(AddTags(put.event, LogFlags, <<Str(<<"truncated">>)>>).event)

addTruncatedString(c, field, text, e) ==
  flagTruncated(PutValue(e, field, Leaf(Str(truncated(c, text)))), truncated(c, text) # text)

truncateSingleField(c, field, e) ==
  LET value == GetValue(e, field)
  IN  IF value.err # "" THEN Missing(c, e, value.err)
      ELSE IF ~IsKind(value.tree, "string") THEN Err(e, "cannot be truncated")
      ELSE addTruncatedString(c, field, value.tree[<<>>].text, e)

truncateFields(c, e) ==
  Each(LAMBDA f, x : truncateSingleField(c, f, x), c.fields, e, c.failOnError, Same)

(* append: a map among the values is only known to be one, and it cannot be a
   key of the set that removeDuplicates builds *)
Items(tree) ==
  IF IsKind(tree, "array") THEN tree[<<>>].items
  ELSE IF DOMAIN tree = {<<>>} THEN <<tree[<<>>]>> ELSE <<EmptyMap>>

cleanEmptyValues(arr) == SelectSeq(arr, LAMBDA v : v # Str(<<>>))

removeDuplicates(arr) ==
  FoldLeft(LAMBDA clean, v : IF Contains(clean, v) THEN clean ELSE Append(clean, v),
           <<>>, arr)

readFields(c, e) ==
  LET old == GetValue(e, c.target)
      add(r, f) ==
        LET value == GetValue(e, f)
        IN  IF r.err # "" THEN r
            ELSE IF value.err # "" THEN [r EXCEPT !.err = Missing(c, e, value.err).err]
            ELSE [r EXCEPT !.arr = @ \o Items(value.tree)]
  IN  FoldLeft(add, [arr |-> IF old.err # "" THEN <<>> ELSE Items(old.tree), err |-> ""], c.fields)

replaceTarget(c, e, arr) ==
  LET deleted == Delete(e, c.target)
  IN  IF ~c.allowDuplicate /\ Contains(arr, EmptyMap) THEN Err(NoEvent, "panic")
      ELSE IF deleted.err \notin {"", KeyNotFound} THEN deleted
      ELSE PutValue(deleted.event, c.target,
                    Leaf(Arr(IF c.allowDuplicate THEN arr ELSE removeDuplicates(arr))))

appendRead(c, e, read) ==
  LET all == read.arr \o c.values
  IN  IF read.err # "" THEN Err(e, read.err)
      ELSE replaceTarget(c, e, IF c.ignoreEmpty THEN cleanEmptyValues(all) ELSE all)

appendValues(c, e) == appendRead(c, e, readFields(c, e))

appendEnds(c, r, told) ==
  IF r.err = "panic" THEN r
  ELSE IF r.err = "" \/ ~c.failOnError THEN Ok(r.event)
  ELSE IF told.err # "" THEN Err(NoEvent, told.err)
  ELSE Err(told.event, r.err)

appendProcessor(c, e) ==
  appendEnds(c, appendValues(c, e), PutValue(e, ErrorMessage, Leaf(Str(<<"failed">>))))

(* lowercase: AlterPath of mapstr finds each name of the path whatever its
   case, and refuses a new name that is taken. *)
lowerCase(name) == CASE name = "A" -> "a" [] name = "B" -> "b" [] OTHER -> name

skipMandatory(fields, Mandatory(_)) == SelectSeq(fields, LAMBDA f : ~Mandatory(f))
IsMandatory(f) == f[1] \in MandatoryExportedFields

Candidates(e, level, name) ==
  {q[Len(level) + 1] : q \in {r \in Below(e, level) :
      Len(r) > Len(level) /\ lowerCase(r[Len(level) + 1]) = lowerCase(name)}}

(* One level of AlterPath: rename the entry at path level \o <<old>>. *)
AlterEntry(e, level, old, new) ==
  [event |-> Graft(Without(e, Below(e, Append(level, old))), Append(level, new),
                   GetValue(e, Append(level, old)).tree),
   err |-> "", at |-> Append(level, new)]

AlterNamed(e, level, name, names, alter) ==
  LET old == CHOOSE n \in names : n = name \/ name \notin names
  IN  IF names = {} THEN [event |-> e, err |-> PathErr(e, Append(level, name)), at |-> level]
      ELSE IF Cardinality(names) > 1 THEN [event |-> e, err |-> "collision", at |-> level]
      ELSE AlterEntry(e, level, old, IF alter THEN lowerCase(old) ELSE old)

AlterLevel(e, level, name, alter) == AlterNamed(e, level, name, Candidates(e, level, name), alter)

alterField(c, field, e) ==
  LET step(r, i) ==
        IF r.err # "" THEN r
        ELSE AlterLevel(r.event, r.at, field[i], c.alterFullField \/ i = Len(field))
      result(r) == Err(r.event, r.err)
  IN  result(FoldLeft(step, [event |-> e, err |-> "", at |-> <<>>], [i \in 1..Len(field) |-> i]))

alterValue(c, key, e) ==
  LET value == GetValue(e, key)
      text == value.tree[<<>>].text
      deleted == Delete(e, key)
  IN  IF value.err # "" THEN Err(e, value.err)
      ELSE IF ~IsKind(value.tree, "string") THEN Err(e, "not a string")
      ELSE IF deleted.err # "" THEN deleted
      ELSE PutValue(deleted.event, key,
                    Leaf(Str([i \in 1..Len(text) |-> lowerCase(text[i])])))

ignoreMissing(c, r) == IF c.ignoreMissing /\ r.err = KeyNotFound THEN Ok(r.event) ELSE r

alterFields(c, e) ==
  Each(LAMBDA f, x : ignoreMissing(c, alterField(c, f, x)),
       skipMandatory(c.fields, IsMandatory), e, c.failOnError, WithMessage)

alterValues(c, e) ==
  Each(LAMBDA k, x : ignoreMissing(c, alterValue(c, k, x)), c.values, e, c.failOnError, Same)

restoreOnError(e, r) == IF r.err # "" THEN Err(WithMessage(e), r.err) ELSE r

thenValues(c, e, fields) ==
  IF fields.err # "" THEN fields ELSE restoreOnError(e, alterValues(c, fields.event))

alterFieldProcessor(c, e) == thenValues(c, e, alterFields(c, e))

(* decode_base64_field and decompress_gzip_field: Decoded is the codec.  A
   text that starts with "!" is one that it refuses; what it makes of another
   text is that text without the mark "%" of the encoding. *)
Decodes(text) == text # <<>> /\ text[1] # "!"
Decoded(text) == SelectSeq(text, LAMBDA l : l # "%")

DecodeInto(c, e, to) ==
  LET value == GetValue(e, c.from)
      text == value.tree[<<>>].text
  IN  IF value.err # "" THEN Missing(c, e, value.err)
      ELSE IF ~IsKind(value.tree, "string") THEN Err(e, "invalid type")
      ELSE IF ~Decodes(text) THEN Err(e, "cannot decode")
      ELSE PutValue(e, to, Leaf(Str(Decoded(text))))

Restored(c, e, r) ==
  IF r.err = "" \/ ~c.failOnError THEN Ok(r.event) ELSE Err(WithMessage(e), r.err)

decodeBase64Field(c, e) == Restored(c, e, DecodeInto(c, e, IF c.to = <<>> THEN c.from ELSE c.to))

decompressGzipField(c, e) == Restored(c, e, DecodeInto(c, e, c.to))

(* drop_fields: errors are collected, the other fields are still dropped.  A
   regular expression is the set of the leaves it matches. *)
deletedFrom(c, r, deleted) ==
  IF c.ignoreMissing /\ deleted.err = KeyNotFound THEN r
  ELSE IF deleted.err # "" THEN [r EXCEPT !.err = deleted.err]
  ELSE [r EXCEPT !.event = deleted.event]

deleteField(c, field, r) == deletedFrom(c, r, Delete(r.event, field))

deleteMatched(c, exact) ==
  FoldLeft(LAMBDA r, field : deleteField(c, field, r), exact,
           SetToSeq({q \in DOMAIN exact.event : q \in c.regexp}))

dropFields(c, e) ==
  deleteMatched(c, FoldLeft(LAMBDA r, field : deleteField(c, field, r), Ok(e),
                            skipMandatory(c.fields, IsMandatory)))

(* include_fields: what is not listed is lost, the mandatory fields are
   always listed; the timestamp and the metadata are no fields. *)
newIncludeFields(fields) ==
  fields \o SelectSeq(<<<<"type">>>>, LAMBDA f : ~Contains(fields, f))

NotFields(e) == {q \in DOMAIN e : q[1] \in {"@timestamp", "@metadata"}}

includeFields(c, e) ==
  LET start == Ok([q \in NotFields(e) |-> e[q]])
      each(r, field) ==
        LET value == GetValue(e, field)
            put == IF NotAMap(r.event, field) THEN Err(r.event, "not a map")
                   ELSE Ok(Graft(r.event, field, value.tree))
        IN  IF value.err = KeyNotFound THEN r
            ELSE IF value.err # "" THEN [r EXCEPT !.err = value.err]
            ELSE IF put.err # "" THEN [r EXCEPT !.err = put.err]
            ELSE [r EXCEPT !.event = put.event]
  IN  FoldLeft(each, start, newIncludeFields(c.fields))

dropEvent(c, e) == Ok(NoEvent)

(* add_fields, add_labels (its labels are flattened to one level), add_tags *)
makeFieldsProcessor(target, fields) ==
  [q \in {target \o p : p \in DOMAIN fields} |-> fields[From(q, target)]]

addFields(c, e) ==
  IF c.add = <<>> THEN Ok(e)
  ELSE Ok(deepUpdate(e, makeFieldsProcessor(c.target, c.add), c.overwrite))

Dotted(p) == FoldLeft(LAMBDA name, s : IF name = "" THEN s ELSE name \o "." \o s, "", p)
flattenLabels(labels) ==
  [q \in {<<Dotted(p)>> : p \in DOMAIN labels} |->
     Str(labels[CHOOSE p \in DOMAIN labels : <<Dotted(p)>> = q].text)]

addLabels(c, e) ==
  Ok(deepUpdate(e, makeFieldsProcessor(<<"labels">>, flattenLabels(c.add)), TRUE))

addTags(c, e) ==
  Ok(AddTags(e, IF c.target = <<>> THEN <<"tags">> ELSE c.target, c.tags).event)

(* extract_field: the parts between separators, the empty ones left out *)
Split(text, sep) ==
  LET cut == {0, Len(text) + 1} \cup {i \in 1..Len(text) : text[i] = sep}
      cuts == SetToSortSeq(cut, <)
  IN  [i \in 1..Len(cuts) - 1 |-> SubSeq(text, cuts[i] + 1, cuts[i + 1] - 1)]

deleteEmpty(parts) == SelectSeq(parts, LAMBDA s : s # <<>>)

extractField(c, e) ==
  LET value == GetValue(e, c.from)
      parts == deleteEmpty(Split(value.tree[<<>>].text, c.separator))
  IN  IF value.err # "" THEN Err(e, "error getting field")
      ELSE IF ~IsKind(value.tree, "string") THEN Err(e, "not a string")
      ELSE IF Len(parts) < c.index + 1 THEN Err(e, "index out of range")
      ELSE Ok(PutValue(e, c.to, Leaf(Str(parts[c.index + 1]))).event)

(* detect_mime_type and add_network_direction do nothing when a field is
   missing or is not what they look for *)
Text(e, p) ==
  LET value == GetValue(e, p)
  IN  IF value.err = "" /\ IsKind(value.tree, "string") THEN value.tree[<<>>].text ELSE <<>>

detectMimeType(c, e) ==
  IF Text(e, c.from) = <<>> \/ ~Decodes(Text(e, c.from)) THEN Ok(e)
  ELSE PutValue(e, c.to, Leaf(Str(<<"mime">>)))

IsIP(text) == text # <<>> /\ text[1] \in {"1", "9"}
networkDirection(internalSource, internalDestination) ==
  CASE internalSource /\ internalDestination -> <<"internal">>
    [] internalSource /\ ~internalDestination -> <<"outbound">>
    [] ~internalSource /\ internalDestination -> <<"inbound">>
    [] OTHER -> <<"external">>

addNetworkDirection(c, e) ==
  LET source == Text(e, c.from)
      destination == Text(e, c.dest)
  IN  IF ~IsIP(source) \/ ~IsIP(destination) THEN Ok(e)
      ELSE IF c.badNetwork THEN Err(e, "bad network")
      ELSE Ok(PutValue(e, c.to, Leaf(Str(networkDirection(source[1] = "1",
                                                          destination[1] = "1")))).event)

(* move_fields works on a copy, so a failure changes nothing, but it hands on
   no event at all.  c.order is the order of the keys of the parent. *)
moveFields(c, e) ==
  LET parent == GetValue(e, c.from)
      names == IF c.fields # <<>> THEN c.fields
               ELSE SelectSeq(c.order, LAMBDA k : Has(e, c.from \o k) /\ Below(e, c.from \o k) \cap NotFields(e) = {})
      move(r, k) ==
        LET from == c.from \o k
            value == GetValue(r.event, from)
        IN  IF r.err # "" \/ k \in c.exclude THEN r
            ELSE IF value.err = KeyNotFound /\ c.ignoreMissing THEN r
            ELSE IF value.err # "" THEN Err(NoEvent, value.err)
            ELSE LET put == PutValue(Delete(r.event, from).event, c.to \o k, value.tree)
                 IN  IF put.err # "" THEN Err(NoEvent, put.err) ELSE put
  IN  IF c.from # <<>> /\ parent.err # "" THEN Err(NoEvent, parent.err)
      ELSE IF c.from # <<>> /\ DOMAIN parent.tree = {<<>>} /\ ~IsKind(parent.tree, "map")
           THEN Err(NoEvent, "not an object")
      ELSE FoldLeft(move, Ok(e), names)

-----------------------------------------------------------------------------
(***************************************************************************)
(* The processors that decode, convert or derive values: convert, the      *)
(* decoders of CSV, XML, JSON, URLs and durations, extract_array, dissect, *)
(* syslog, registered_domain, timestamp, fingerprint, community_id,        *)
(* translate_sid, and the ones that stamp an event with static data.       *)
(***************************************************************************)

----------------------------------------------------------------------------
(* convert.  An integer has IntBits bits; its text is its decimal notation. *)
IntBits == 3
Digit == <<"0", "1", "2", "3", "4", "5", "6", "7", "8", "9">>
Digits == {Digit[i] : i \in 1..10}
NumberOf(text) == CHOOSE n \in -9..9 :
  text = (IF n < 0 THEN <<"-", Digit[1 - n]>> ELSE <<Digit[n + 1]>>)
TextOf(n) == IF n < 0 THEN <<"-", Digit[1 - n]>> ELSE <<Digit[n + 1]>>
Wrap(n) == ((n + 2^(IntBits - 1)) % 2^IntBits) - 2^(IntBits - 1)
IsInt(text) == Len(text) \in 1..2 /\ Last(text) \in Digits /\ (Len(text) = 2 => text[1] = "-")
Fits(n) == Wrap(n) = n
IsFloat(text) == Len(text) = 3 /\ text[1] \in Digits /\ text[2] = "." /\ text[3] \in Digits

Result(v) == [value |-> v, err |-> ""]
NoResult(err) == [value |-> EmptyMap, err |-> err]
Opaque(tree) == Value("string", <<"%", "v">>, <<>>)

toString(tree) ==
  IF IsKind(tree, "string") \/ IsKind(tree, "number") \/ IsKind(tree, "float")
  THEN Result(Str(tree[<<>>].text)) ELSE Result(Opaque(tree))

toLong(tree) ==
  LET text == tree[<<>>].text
  IN  IF IsKind(tree, "string") /\ IsInt(text) THEN Result(Num(text))
      ELSE IF IsKind(tree, "number") THEN Result(Num(text))
      ELSE IF IsKind(tree, "float") THEN Result(Num(<<text[1]>>))
      ELSE NoResult("to long")

(* A string out of range is refused, a wider integer is cut to 32 bits. *)
toInteger(tree) ==
  LET text == tree[<<>>].text
  IN  IF IsKind(tree, "string") /\ IsInt(text) /\ Fits(NumberOf(text)) THEN Result(Num(text))
      ELSE IF IsKind(tree, "number") THEN Result(Num(TextOf(Wrap(NumberOf(text)))))
      ELSE IF IsKind(tree, "float") THEN Result(Num(TextOf(Wrap(NumberOf(<<text[1]>>)))))
      ELSE NoResult("to integer")

toFloat(tree) ==
  LET text == tree[<<>>].text
      float(t) == Value("float", IF IsInt(t) THEN t \o <<".", "0">> ELSE t, <<>>)
  IN  IF IsKind(tree, "string") /\ (IsInt(text) \/ IsFloat(text)) THEN Result(float(text))
      ELSE IF IsKind(tree, "number") \/ IsKind(tree, "float") THEN Result(float(text))
      ELSE NoResult("to float")

toBoolean(tree) ==
  IF IsKind(tree, "string") /\ tree[<<>>].text \in {<<"0">>, <<"1">>}
  THEN Result(Value("bool", tree[<<>>].text, <<>>))
  ELSE IF IsKind(tree, "bool") THEN Result(tree[<<>>]) ELSE NoResult("to boolean")

toIP(tree) ==
  IF IsKind(tree, "string") /\ IsIP(tree[<<>>].text) THEN Result(tree[<<>>])
  ELSE NoResult("to ip")

transformType(type, tree) ==
  CASE type = "string" -> toString(tree)
    [] type = "long" -> toLong(tree)
    [] type = "integer" -> toInteger(tree)
    [] type = "float" -> toFloat(tree)
    [] type = "boolean" -> toBoolean(tree)
    [] type = "ip" -> toIP(tree)

(* The result of one conversion; skip stands for ignoredFailure. *)
convertField(c, f, e) ==
  LET v == GetValue(e, f.from)
      skip == [tree |-> <<>>, err |-> "", skip |-> TRUE]
  IN  IF v.err # ""
      THEN IF c.ignoreMissing /\ v.err = KeyNotFound THEN skip
           ELSE [skip EXCEPT !.err = v.err]
      ELSE IF f.type = "unset" THEN [tree |-> v.tree, err |-> "", skip |-> FALSE]
      ELSE LET t == transformType(f.type, v.tree)
           IN  [tree |-> Leaf(t.value), err |-> t.err, skip |-> t.err # ""]

writeTo(c, f, x, put) ==
  IF put.err # "" /\ c.failOnError THEN Err(x, put.err)
  ELSE IF c.mode = "rename" THEN Ok(Delete(put.event, f.from).event)
  ELSE Ok(put.event)

writeConverted(c, f, v, x) ==
  IF v.skip THEN Ok(x)
  ELSE IF f.to = <<>> THEN Ok(PutValue(x, f.from, v.tree).event)
  ELSE writeTo(c, f, x, PutValue(x, f.to, v.tree))

writeToEvent(c, e, converted) ==
  FoldLeft(LAMBDA r, i : IF r.err # "" THEN r
                         ELSE writeConverted(c, c.fields[i], converted[i], r.event),
           Ok(e), [i \in 1..Len(c.fields) |-> i])

unlessFailed(e, r) == IF r.err # "" THEN Err(e, r.err) ELSE r

convertAll(c, e, converted) ==
  IF c.failOnError /\ \E i \in DOMAIN converted : converted[i].err # "" THEN Err(e, "convert")
  ELSE unlessFailed(e, writeToEvent(c, e, converted))

convert(c, e) ==
  convertAll(c, e, [i \in 1..Len(c.fields) |-> convertField(c, c.fields[i], e)])

----------------------------------------------------------------------------
(* decode_csv_fields.  c.fields is the order in which the map is walked. *)
decodeCSVField(c, f, e) ==
  LET value == GetValue(e, f.from)
      text == value.tree[<<>>].text
      cells == Split(text, c.separator)
      record == Arr([i \in DOMAIN cells |-> Str(cells[i])])
  IN  IF value.err # "" THEN Missing(c, e, value.err)
      ELSE IF ~IsKind(value.tree, "string") THEN Err(e, "not a string")
      ELSE IF text = <<>> THEN Err(e, "EOF")
      ELSE IF f.from # f.to /\ ~c.overwrite /\ Has(e, f.to) THEN Err(e, "target exists")
      ELSE PutValue(e, f.to, Leaf(record))

decodeCSVFields(c, e) ==
  Each(LAMBDA f, x : decodeCSVField(c, f, x), c.fields, e, c.failOnError, Same)

(* urldecode *)
urlDecodeField(c, f, e) ==
  DecodeInto([c EXCEPT !.from = f.from], e, IF f.to = <<>> THEN f.from ELSE f.to)

urlDecode(c, e) ==
  Each(LAMBDA f, x : urlDecodeField(c, f, x), c.fields, e, c.failOnError, WithMessage)

(* decode_duration: seconds to the configured unit, here tens of it *)
decodeDuration(c, e) ==
  LET value == GetValue(e, c.from)
      text == value.tree[<<>>].text
  IN  IF value.err # "" THEN Err(e, "not present")
      ELSE IF ~IsKind(value.tree, "string") THEN Err(e, "not a string")
      ELSE IF ~IsInt(text) THEN Err(e, "not a duration")
      ELSE PutValue(e, c.from, Leaf(Value("float", text \o c.unit, <<>>)))

(* extract_array: the cells of an array; c.mappings is sorted by index *)
extractArray(c, e) ==
  LET value == GetValue(e, c.from)
      array == value.tree[<<>>].items
      fail(x, err) == IF c.failOnError THEN Err(e, err) ELSE Ok(x)
      map(r, m) ==
        LET put == PutValue(r.event, m.to, Leaf(array[m.index + 1]))
        IN  IF r.err # "" THEN r
            ELSE IF m.index >= Len(array) THEN fail(r.event, "index exceeds length")
            ELSE IF c.omitEmpty /\ array[m.index + 1] = Str(<<>>) THEN r
            ELSE IF ~c.overwrite /\ Has(r.event, m.to) THEN fail(r.event, "target exists")
            ELSE IF put.err # "" THEN fail(r.event, put.err)
            ELSE put
  IN  IF value.err # "" THEN Missing(c, e, value.err)
      ELSE IF ~IsKind(value.tree, "array") THEN fail(e, "unsupported type")
      ELSE FoldLeft(map, Ok(e), c.mappings)

(* registered_domain: the domain, its suffix and the rest of a dotted name.
   A failure after the first write keeps what was written. *)
unlessIgnored(c, x, err) == IF c.ignoreFailure THEN Ok(x) ELSE Err(x, err)

writePart(c, e, p, text, err) ==
  LET put == PutValue(e, p, Leaf(Str(text)))
  IN  IF err # "" \/ p = <<>> \/ text = <<>> THEN Err(e, err)
      ELSE IF put.err # "" THEN unlessIgnored(c, e, put.err) ELSE put

writeRest(c, labels, first) ==
  LET n == Len(labels)
      etld(r) == writePart(c, r.event, c.etld, labels[n], r.err)
      subdomain(r) == writePart(c, r.event, c.subdomain, IF n > 2 THEN labels[1] ELSE <<>>, r.err)
  IN  IF first.err # "" THEN unlessIgnored(c, first.event, first.err) ELSE subdomain(etld(first))

writeDomain(c, e, labels) ==
  LET n == Len(labels)
  IN  IF n < 2 \/ labels[1] = <<>> THEN unlessIgnored(c, e, "no registered domain")
      ELSE writeRest(c, labels, PutValue(e, c.to, Leaf(Str(labels[n - 1] \o <<".">> \o labels[n]))))

registeredDomain(c, e) ==
  LET value == GetValue(e, c.from)
  IN  IF value.err # "" THEN IF c.ignoreMissing \/ c.ignoreFailure THEN Ok(e) ELSE Err(e, value.err)
      ELSE IF ~IsKind(value.tree, "string") THEN unlessIgnored(c, e, "not a string")
      ELSE writeDomain(c, e, Split(value.tree[<<>>].text, "."))

(* timestamp: layouts are tried in turn *)
parseValueByLayout(tree, layout) ==
  LET text == tree[<<>>].text
  IN  IF layout \in {"UNIX", "UNIX_MS"}
      THEN IF (IsKind(tree, "number") \/ IsKind(tree, "string")) /\ IsInt(text)
           THEN Result(Time(<<layout>> \o text)) ELSE NoResult("not a number")
      ELSE IF IsKind(tree, "string") /\ text # <<>> /\ text[1] = layout
           THEN Result(Time(text)) ELSE NoResult("layout")

parseValue(c, tree) ==
  FoldLeft(LAMBDA r, layout : IF r.err = "" THEN r ELSE parseValueByLayout(tree, layout),
           NoResult("no layout"), c.layouts)

timestamp(c, e) ==
  LET value == GetValue(e, c.from)
      ts == IF IsKind(value.tree, "time") THEN Result(value.tree[<<>>]) ELSE parseValue(c, value.tree)
      put == PutValue(e, c.to, Leaf(ts.value))
      fail(err) == IF c.ignoreFailure THEN Ok(e) ELSE Err(e, err)
  IN  IF value.err # "" THEN IF c.ignoreFailure THEN Ok(e) ELSE Missing(c, e, value.err)
      ELSE IF ts.err # "" THEN fail(ts.err)
      ELSE IF put.err # "" THEN fail(put.err)
      ELSE put
----------------------------------------------------------------------------
(* jsontransform.  A document is a tree of leaves; the name "x.y" is one key
   with a dot in it, which expandFields turns into a path. *)
SplitName(name) == IF name = "x.y" THEN <<"x", "y">> ELSE <<name>>

Merged(new, old) ==
  IF <<>> \in DOMAIN new \cup DOMAIN old THEN [tree |-> new, err |-> "existing value"]
  ELSE IF DOMAIN new \cap DOMAIN old # {} THEN [tree |-> new, err |-> "cannot merge"]
  ELSE [tree |-> new @@ old, err |-> ""]

expandTo(rest, to, new, old) ==
  LET merged == IF old.err # "" THEN [tree |-> new, err |-> ""] ELSE Merged(new, old.tree)
  IN  Err(Graft(rest, to, merged.tree), merged.err)

expandKey(rest, to, new) ==
  IF NotAMap(rest, to) THEN Err(rest, "conflicting key")
  ELSE expandTo(rest, to, new, GetValue(rest, to))

expandFields(doc) ==
  LET step(r, p) ==
        LET key == <<p[1]>>
        IN  IF r.err # "" \/ Below(r.event, key) = {} THEN r
            ELSE expandKey(Without(r.event, Below(r.event, key)), SplitName(p[1]),
                           GetValue(r.event, key).tree)
  IN  FoldLeft(step, Ok(doc), SetToSeq({p \in DOMAIN doc : SplitName(p[1]) # <<p[1]>>}))

IsTimeText(text) == text = <<"T">>
Rest(keys, names) == [p \in {q \in DOMAIN keys : q[1] \notin names} |-> keys[p]]

(* The keys with a meaning of their own: @timestamp must be a time, type a
   text that does not start with "_"; a value that is not is an error only. *)
writeTimestamp(e, keys, addErrKey) ==
  IF Timestamp \notin DOMAIN keys THEN e
  ELSE IF IsKind(GetValue(keys, Timestamp).tree, "string") /\ IsTimeText(keys[Timestamp].text)
       THEN setTimestamp(e, Leaf(Time(keys[Timestamp].text))).event
       ELSE SetErrorWithOption(e, addErrKey)

writeMetadata(e, keys, addErrKey) ==
  LET meta == {p \in DOMAIN keys : p[1] = "@metadata"}
  IN  IF Metadata \in meta THEN SetErrorWithOption(e, addErrKey)
      ELSE deepUpdate(e, [p \in meta |-> keys[p]], TRUE)

writeType(e, keys, addErrKey) ==
  LET type == <<"type">>
      tree == GetValue(keys, type).tree
  IN  IF Below(keys, type) = {} THEN e
      ELSE IF IsKind(tree, "string") /\ keys[type].text # <<>> /\ keys[type].text[1] # "_"
           THEN Graft(e, type, tree)
           ELSE SetErrorWithOption(e, addErrKey)

writeSpecial(e, keys, addErrKey) ==
  writeType(writeMetadata(writeTimestamp(e, keys, addErrKey), keys, addErrKey), keys, addErrKey)

writeKeys(e, x, overwrite, addErrKey) ==
  IF x.err # "" THEN SetErrorWithOption(e, addErrKey)
  ELSE IF ~overwrite THEN deepUpdate(e, Rest(x.event, {"@timestamp", "@metadata"}), FALSE)
  ELSE deepUpdate(writeSpecial(e, x.event, addErrKey),
                  Rest(x.event, {"@timestamp", "@metadata", "type"}), TRUE)

WriteJSONKeys(e, doc, expand, overwrite, addErrKey) ==
  writeKeys(e, IF expand THEN expandFields(doc) ELSE Ok(doc), overwrite, addErrKey)

(* The decoder of encoding/json on the texts of the model. *)
decodeJSON(text) ==
  LET doc(p, v) == [tree |-> [q \in {p} |-> v], err |-> ""]
  IN  CASE text = <<"{x:1}">> -> doc(<<"x">>, Num(<<"1">>))
        [] text = <<"{x.y:1}">> -> doc(<<"x.y">>, Num(<<"1">>))
        [] text = <<"{x.y:1,x:2}">> ->
             [tree |-> [q \in {<<"x.y">>, <<"x">>} |-> Num(IF q = <<"x">> THEN <<"2">> ELSE <<"1">>)],
              err |-> ""]
        [] text = <<"{@timestamp:T}">> -> doc(Timestamp, Str(<<"T">>))
        [] text = <<"{@timestamp:1}">> -> doc(Timestamp, Num(<<"1">>))
        [] text = <<"{type:_}">> -> doc(<<"type">>, Str(<<"_">>))
        [] text = <<"{id:7}">> -> doc(<<"id">>, Str(<<"7">>))
        [] text = <<"{x:'{x:1}'}">> -> doc(<<"x">>, Str(<<"{x:1}">>))
        [] text = <<"{x:'[1]'}">> -> doc(<<"x">>, Str(<<"[1]">>))
        [] text = <<"{x:'{'}">> -> doc(<<"x">>, Str(<<"{">>))
        [] text = <<"[1]">> -> doc(<<>>, Arr(<<Num(<<"1">>)>>))
        [] text = <<"1">> -> doc(<<>>, Num(<<"1">>))
        [] OTHER -> [tree |-> <<>>, err |-> "parsing input as JSON"]

isStructured(text) == Len(text) = 1 /\ text # <<"1">> /\ decodeJSON(text).err = ""

(* Texts inside the document are decoded in turn down to max_depth; one that
   does not decode stays a text. *)
RECURSIVE unmarshal(_, _, _)
unmarshal(maxDepth, text, processArray) ==
  LET top == decodeJSON(text)
      isArray == top.err = "" /\ IsKind(top.tree, "array")
      try(v) ==
        LET sub == unmarshal(maxDepth - 1, v.text, processArray)
        IN  IF v.kind # "string" \/ ~isStructured(v.text) \/ sub.err # "" THEN Leaf(v)
            ELSE sub.tree
  IN  IF top.err # "" \/ maxDepth = 1 THEN top
      ELSE IF isArray /\ ~processArray THEN [top EXCEPT !.err = "processing skipped"]
      ELSE IF <<>> \in DOMAIN top.tree THEN top
      ELSE [top EXCEPT !.tree =
              FoldLeft(LAMBDA t, p : Graft(t, p, try(top.tree[p])), @, SetToSeq(DOMAIN @))]

putExpanded(c, target, e, x) ==
  PutValue(IF x.err # "" THEN SetErrorWithOption(e, c.addErrorKey) ELSE e,
           target, IF x.event = <<>> THEN Leaf(EmptyMap) ELSE x.event)

putDecoded(c, target, e, doc, isMap) ==
  IF target # <<>>
  THEN putExpanded(c, target, e, IF c.expandKeys /\ isMap THEN expandFields(doc) ELSE Ok(doc))
  ELSE IF isMap THEN Ok(WriteJSONKeys(e, doc, c.expandKeys, c.overwrite, c.addErrorKey))
  ELSE Err(e, "failed to add target to root")

withID(put, takeID, id) ==
  IF put.err = "" /\ takeID
  THEN [put EXCEPT !.event = Graft(@, <<"@metadata", "_id">>, Leaf(id))] ELSE put

firstError(r, unexpanded, put) ==
  Err(put.event, IF r.err # "" THEN r.err ELSE IF unexpanded THEN "failed to expand keys" ELSE put.err)

writeDecoded(c, target, r, output) ==
  LET isMap == <<>> \notin DOMAIN output.tree
      takeID == c.documentID # <<>> /\ isMap /\ c.documentID \in DOMAIN output.tree
                  /\ output.tree[c.documentID].kind = "string"
  IN  IF output.err # "" THEN Err(SetErrorWithOption(r.event, c.addErrorKey), output.err)
      ELSE firstError(r, target # <<>> /\ c.expandKeys /\ ~isMap,
             withID(putDecoded(c, target, r.event,
                               IF takeID THEN Without(output.tree, {c.documentID}) ELSE output.tree, isMap),
                    takeID, output.tree[c.documentID]))

decodeJSONField(c, field, r) ==
  LET data == GetValue(r.event, field)
  IN  IF data.err \notin {"", KeyNotFound} THEN Err(r.event, data.err)
      ELSE IF data.err = KeyNotFound \/ ~IsKind(data.tree, "string") THEN r
      ELSE writeDecoded(c, IF c.hasTarget THEN c.target ELSE field, r,
                        unmarshal(c.maxDepth, data.tree[<<>>].text, c.processArray))

decodeJSONFields(c, e) == FoldLeft(LAMBDA r, f : decodeJSONField(c, f, r), Ok(e), c.fields)

(* decode_xml: the same documents, in another notation *)
putXML(c, e, doc) ==
  IF c.to # <<>> THEN PutValue(e, c.to, IF doc = <<>> THEN Leaf(EmptyMap) ELSE doc)
  ELSE Ok(WriteJSONKeys(e, doc, FALSE, c.overwrite, ~c.ignoreFailure))

putXMLID(put, takeID, id) ==
  IF put.err # "" \/ ~takeID THEN put ELSE PutValue(put.event, <<"@metadata", "_id">>, Leaf(id))

writeXML(c, e, doc) ==
  LET takeID == c.documentID \in DOMAIN doc /\ doc[c.documentID].kind = "string"
  IN  putXMLID(putXML(c, e, IF takeID THEN Without(doc, {c.documentID}) ELSE doc),
               takeID, doc[c.documentID])

runXML(c, e) ==
  LET data == GetValue(e, c.from)
      output == decodeJSON(data.tree[<<>>].text)
  IN  IF data.err # "" THEN Missing(c, e, data.err)
      ELSE IF ~IsKind(data.tree, "string") THEN Err(e, "not a string")
      ELSE IF output.err # "" \/ <<>> \in DOMAIN output.tree THEN Err(e, "cannot decode")
      ELSE writeXML(c, e, output.tree)

tellFailure(c, run, Told(_)) ==
  IF run.err = "" \/ c.ignoreFailure THEN Ok(run.event) ELSE Err(Told(run.event), run.err)

decodeXML(c, e) == tellFailure(c, runXML(c, e), WithMessage)
=============================================================================
