------------------------------- MODULE Event -------------------------------
(***************************************************************************)
(* The event of libbeat (beat/event.go): a timestamp, metadata and a tree  *)
(* of fields.  An event is a function from the paths of its leaves to      *)
(* their values.  A path is a sequence of names, so "a.b" is <<"a", "b">>; *)
(* the timestamp is the leaf <<"@timestamp">> and the metadata are the     *)
(* leaves below "@metadata".  No leaf is above another one.  A map that    *)
(* has lost its last entry stays behind as the leaf EmptyMap.              *)
(*                                                                         *)
(* The maps themselves are mapstr.M of elastic-agent-libs, which is not    *)
(* part of the repository: NotAMap and AddTags say how the processors      *)
(* meet it.                                                                *)
(***************************************************************************)
EXTENDS Naturals, Sequences, SequencesExt, TLC

Timestamp == <<"@timestamp">>
Metadata == <<"@metadata">>
ErrorMessage == <<"error", "message">>
LogFlags == <<"log", "flags">>

(* Leaf values: a kind, the text of a scalar, the items of an array. *)
Value(kind, text, items) == [kind |-> kind, text |-> text, items |-> items]
Str(text) == Value("string", text, <<>>)
Num(text) == Value("number", text, <<>>)
Time(text) == Value("time", text, <<>>)
Arr(items) == Value("array", <<>>, items)
EmptyMap == Value("map", <<>>, <<>>)
Leaf(v) == [s \in {<<>>} |-> v]

(* What a call on the event returns: the event, or the tree found, and the
   error, "" for nil. *)
Ok(e) == [event |-> e, err |-> ""]
Err(e, err) == [event |-> e, err |-> err]
KeyNotFound == "key not found"

Below(e, p) == {q \in DOMAIN e : IsPrefix(p, q)}
Above(e, p) == {q \in DOMAIN e : IsStrictPrefix(q, p)}
From(q, p) == SubSeq(q, Len(p) + 1, Len(q))
NotAMap(e, p) == \E q \in Above(e, p) : e[q].kind # "map"
Without(e, keys) == [q \in DOMAIN e \ keys |-> e[q]]
PathErr(e, p) == IF NotAMap(e, p) THEN "not a map" ELSE KeyNotFound

SubTree(e, p, below) ==
  IF below = {} THEN [tree |-> <<>>, err |-> PathErr(e, p)]
  ELSE [tree |-> [s \in {From(q, p) : q \in below} |-> e[p \o s]], err |-> ""]

GetValue(e, p) ==
  IF p = Metadata THEN [tree |-> <<>>, err |-> "metadata access"] ELSE SubTree(e, p, Below(e, p))

Has(e, p) == p # Metadata /\ Below(e, p) # {}

(* A value that is not a map, as the type switches of the processors see it *)
IsKind(tree, kind) == DOMAIN tree = {<<>>} /\ tree[<<>>].kind = kind

setTimestamp(e, tree) ==
  IF IsKind(tree, "time") THEN Ok([e EXCEPT ![Timestamp] = tree[<<>>]])
  ELSE Err(e, "not a timestamp")

Graft(e, p, tree) ==
  [q \in {p \o s : s \in DOMAIN tree} |-> tree[From(q, p)]]
  @@ Without(e, {q \in DOMAIN e : IsPrefix(p, q) \/ IsPrefix(q, p)})

PutValue(e, p, tree) ==
  IF p = Timestamp THEN setTimestamp(e, tree)
  ELSE IF p = Metadata THEN Err(e, "alter metadata")
  ELSE IF NotAMap(e, p) THEN Err(e, "not a map")
  ELSE Ok(Graft(e, p, tree))

KeepParent(rest, parent) ==
  IF parent \in {<<>>, Metadata} \/ Below(rest, parent) # {} THEN rest
  ELSE Graft(rest, parent, Leaf(EmptyMap))

Delete(e, p) ==
  IF p \in {Timestamp, Metadata} THEN Err(e, "not supported")
  ELSE IF Below(e, p) = {} THEN Err(e, PathErr(e, p))
  ELSE Ok(KeepParent(Without(e, Below(e, p)), Front(p)))

(* deepUpdate merges d leaf by leaf.  An existing value is kept in the mode
   that does not overwrite, but a scalar in the way of a map is replaced in
   both modes.  The timestamp is set only when overwriting. *)
deepUpdateLeaf(e, p, v, overwrite) ==
  IF p = Timestamp THEN (IF overwrite THEN setTimestamp(e, Leaf(v)).event ELSE e)
  ELSE IF p = Metadata THEN e
  ELSE IF ~overwrite /\ Below(e, p) # {} THEN e
  ELSE Graft(e, p, Leaf(v))

deepUpdate(e, d, overwrite) ==
  FoldLeft(LAMBDA x, p : deepUpdateLeaf(x, p, d[p], overwrite), e, SetToSeq(DOMAIN d))

(* The error a processor leaves in the event it gives back. *)
WithMessage(e) == PutValue(e, ErrorMessage, Leaf(Str(<<"failed">>))).event

SetErrorWithOption(e, addErrKey) ==
  IF addErrKey
  THEN Graft(e, <<"error">>, [s \in {<<"message">>, <<"type">>} |-> Str(<<"json">>)])
  ELSE e

AddTagsTo(e, p, old, tags) ==
  IF old.err # "" THEN PutValue(e, p, Leaf(Arr(tags)))
  ELSE IF IsKind(old.tree, "array")
       THEN Ok(Graft(e, p, Leaf(Arr(old.tree[<<>>].items \o tags))))
       ELSE Err(e, "expected string array")

AddTags(e, p, tags) == AddTagsTo(e, p, GetValue(e, p), tags)
=============================================================================
