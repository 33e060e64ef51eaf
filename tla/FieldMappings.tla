-------------------------- MODULE FieldMappings --------------------------
(***************************************************************************)
(* What becomes of the field definitions of a Beat (fields.yml): the index *)
(* template for Elasticsearch (template) and the index pattern for Kibana  *)
(* (kibana).  A definition is a record; a mapping is a function from the   *)
(* path of a property, a sequence of names, to its attributes, and the     *)
(* "properties" levels of the JSON document are left out of the paths.     *)
(***************************************************************************)
EXTENDS Integers, Sequences, FiniteSets, SequencesExt, Functions

CONSTANT None

VARIABLES call, result

fieldVars == <<call, result>>

\* Field: a definition with nothing but its name and its type set.  A flag
\* that may be unset is "unset", "yes" or "no".
Field(name, type) ==
    [name |-> name, type |-> type, fields |-> <<>>, multi |-> <<>>,
     default |-> "unset", index |-> "unset", enabled |-> "unset",
     dynamic |-> "unset", ignoreAbove |-> 0, dynTemplate |-> FALSE,
     objectTypes |-> <<>>, scaling |-> 0, analyzer |-> None,
     aliasPath |-> <<>>, migration |-> FALSE, format |-> "", metric |-> "",
     overwrite |-> FALSE]

Flag(f, default) == IF f = "unset" THEN default ELSE f = "yes"

(***************************************************************************)
(* The versions of Elasticsearch, by the features they have: from 1 on     *)
(* histograms and field meta data (7.6), from 2 on wildcard (7.9), from 3  *)
(* on explicit dynamic templates (7.13), from 4 on match_only_text (7.14). *)
(***************************************************************************)
minVersionFieldMeta == 1

minVersionHistogram == 1

minVersionWildcard == 2

minVersionExplicitDynamicTemplate == 3

minVersionMatchOnlyText == 4

(***************************************************************************)
(* mapping: validation and concatenation of definitions.                   *)
(***************************************************************************)
Numeric == {"long", "integer", "scaled_float", "half_float", "histogram"}

Textual == {"text", "keyword", "wildcard", "match_only_text"}

allowedFormatters(type) ==
    CASE type \in Textual -> {"string", "url"}
      [] type \in Numeric -> {"string", "url", "bytes"}
      [] OTHER            -> {}

validateType(f) ==
    \/ f.type = "object" /\ ~(f.dynTemplate /\ f.objectTypes # <<>>)
    \/ f.type \in {"group", "nested", ""}
    \/ /\ f.type \in Textual \cup Numeric \cup {"ip", "alias", "array"}
       /\ f.format \in allowedFormatters(f.type) \cup {""}
       /\ f.metric \in (IF f.type \in Numeric THEN {"gauge", "counter"}
                                              ELSE {}) \cup {""}

\* Validate: scaling_factor stands for the settings that may not be mixed
\* with a list of object types.
Validate(f) ==
    /\ validateType(f)
    /\ Len(f.objectTypes) > 1 => f.scaling = 0

\* Unpacking the configuration validates every definition of the tree.
RECURSIVE Valid(_)
Valid(fs) ==
    \A i \in 1..Len(fs) :
        Validate(fs[i]) /\ Valid(fs[i].fields) /\ Valid(fs[i].multi)

\* GetKeys: the paths of the leaves.
RECURSIVE getKeys(_, _)
getKeys(fs, namespace) ==
    FlattenSeq([i \in 1..Len(fs) |->
        LET name == namespace \o fs[i].name IN
        IF fs[i].fields = <<>> THEN <<name>> ELSE getKeys(fs[i].fields, name)])

\* The first definition named key, or None.  A name with a dot is not equal
\* to a part of a path.
Named(fs, key) ==
    IF \E i \in 1..Len(fs) : fs[i].name = <<key>>
      THEN fs[CHOOSE i \in 1..Len(fs) :
                 /\ fs[i].name = <<key>>
                 /\ \A j \in 1..(i - 1) : fs[j].name # <<key>>]
      ELSE None

\* canConcat: a path can be added unless it is there already or runs through
\* a leaf that is not an object.
RECURSIVE canConcat(_, _)
canConcat(fs, keys) ==
    \/ keys = <<>>
    \/ LET f == Named(fs, Head(keys)) IN
       \/ f = None
       \/ /\ Tail(keys) # <<>>
          /\ f.fields # <<>> \/ f.type = "object"
          /\ canConcat(f.fields, Tail(keys))

\* ConcatFields, or None when the lists conflict.
ConcatFields(a, b) ==
    IF b = <<>> THEN a
    ELSE IF a = <<>> THEN b
    ELSE LET keys == getKeys(b, <<>>) IN
         IF \A i \in 1..Len(keys) : canConcat(a, keys[i])
           THEN a \o b ELSE None

\* GetField: the leaf at a path.
RECURSIVE getField(_, _)
getField(fs, keys) ==
    IF keys = <<>> THEN None
    ELSE LET f == Named(fs, Head(keys)) IN
         IF f = None THEN None
         ELSE IF f.fields # <<>> THEN getField(f.fields, Tail(keys))
         ELSE IF Tail(keys) # <<>> THEN None
         ELSE f

(***************************************************************************)
(* template: the processor.  Its state is a record: the properties (out),  *)
(* the analyzers by name, the dynamic templates in order, the default      *)
(* fields, and whether an error ended the work.                            *)
(***************************************************************************)
Empty == <<>>

Begins(path, q) == Len(q) >= Len(path) /\ SubSeq(q, 1, Len(path)) = path

\* mapstr.Put of a property with all that is below it: what was below it is
\* replaced, and levels that are missing above it are created.
PutProperty(out, path, attrs, below) ==
    LET keep  == {q \in DOMAIN out : ~Begins(path, q)}
        above == {SubSeq(path, 1, n) : n \in 1..(Len(path) - 1)}
        sub   == {path \o q : q \in DOMAIN below}
    IN  [q \in keep \cup above \cup {path} \cup sub |->
            IF q = path THEN attrs
            ELSE IF q \in sub
                   THEN below[SubSeq(q, Len(path) + 1, Len(q))]
            ELSE IF q \in keep THEN out[q]
            ELSE [type |-> ""]]

\* The part of the properties below path.
Below(out, path) ==
    [q \in {SubSeq(p, Len(path) + 1, Len(p)) :
               p \in {r \in DOMAIN out : Begins(path, r) /\ r # path}}
        |-> out[path \o q]]

\* Two functions as one; the first wins.
Merge(f, g) == [x \in DOMAIN f \cup DOMAIN g |->
                    IF x \in DOMAIN f THEN f[x] ELSE g[x]]

One(k, v) == [x \in {k} |-> v]

\* getDefaultProperties with the type of the property.
Props(p, f, type) ==
    Merge([type |-> type],
    Merge(IF f.index = "unset" THEN Empty
          ELSE [index |-> f.index = "yes"],
          IF p.es >= minVersionFieldMeta /\ f.metric # ""
            THEN [meta |-> f.metric] ELSE Empty))

\* addDynamicTemplate: a template with the same key is not added again.
addDynamicTemplate(st, name, pathMatch, matchType, attrs) ==
    IF \E i \in 1..Len(st.dyn) : /\ st.dyn[i].name = name
                                 /\ st.dyn[i].path = pathMatch
                                 /\ st.dyn[i].match = matchType
      THEN st
      ELSE [st EXCEPT !.dyn = Append(@, [name |-> name, path |-> pathMatch,
                                        match |-> matchType,
                                        attrs |-> attrs])]

\* matchType of object: by the object type unless the definition names one.
MatchingType(ot) ==
    IF ot.match # "" THEN ot.match
    ELSE CASE ot.type \in {"scaled_float", "histogram"} -> "*"
           [] ot.type \in {"text", "keyword"}           -> "string"
           [] OTHER                                     -> ot.type

\* object: one dynamic template for each object type it knows.
RECURSIVE ObjectTemplates(_, _, _, _, _)
ObjectTemplates(p, f, path, i, st) ==
    IF i > Len(f.objectTypes) THEN st
    ELSE LET ot    == f.objectTypes[i]
             mt    == MatchingType(ot)
             name  == IF Len(f.objectTypes) > 1 THEN Append(path, mt) ELSE path
         IN  ObjectTemplates(p, f, path, i + 1,
               IF ot.type = "" THEN st
               ELSE addDynamicTemplate(st, name, Append(path, "*"), mt,
                                       Props(p, f, ot.type)))

\* ignore_above of a keyword: the default of libbeat, that of Elasticsearch,
\* or the value of the definition.
IgnoreAbove(f) ==
    CASE f.ignoreAbove = 0  -> [ignore |-> 1024]
      [] f.ignoreAbove = -1 -> Empty
      [] OTHER              -> [ignore |-> f.ignoreAbove]

\* addToDefaultFields
addToDefaultFields(st, f, path) ==
    IF f.index # "no" THEN [st EXCEPT !.defaults = Append(@, path \o f.name)]
                      ELSE st

\* The analyzer of a definition: an entry of its name must be the same.
putAnalyzer(st, a) ==
    IF a = None \/ a.def = 0 THEN st
    ELSE [st EXCEPT
            !.analyzers = Merge(One(a.name, a.def), @),
            !.err = @ \/ (a.name \in DOMAIN st.analyzers
                            /\ st.analyzers[a.name] # a.def)]

RECURSIVE Process(_, _, _, _, _, _)

\* multi_fields: processed into a mapping of their own; an error in them is
\* dropped, but what they did to the analyzers, the dynamic templates and
\* the default fields stays.
MultiFields(p, f, path, default, st) ==
    LET sub == Process(p, f.multi, 1, path, default, [st EXCEPT !.out = Empty])
    IN  [st EXCEPT !.analyzers = sub.analyzers, !.dyn = sub.dyn,
                   !.defaults = sub.defaults, !.multi = sub.out]

\* The attributes of a textual or keyword property, with its multi-fields.
WithMulti(f, attrs, sub) ==
    IF f.multi = <<>> THEN attrs ELSE Merge(attrs, [multi |-> sub.multi])

\* Which of the similar types a definition gets: text and keyword where the
\* licence or the version does not allow match_only_text and wildcard.
EffectiveType(p, f) ==
    CASE f.type = "match_only_text" ->
             IF p.licensed /\ p.es >= minVersionMatchOnlyText
               THEN "match_only_text" ELSE "text"
      [] f.type = "wildcard" ->
             IF p.licensed /\ p.es >= minVersionWildcard
               THEN "wildcard" ELSE "keyword"
      [] f.type = "" -> "keyword"
      [] OTHER -> f.type

\* group: the properties of an earlier definition of the same name are kept,
\* its other attributes are not.  nested only adds its type.
Group(p, f, path, default, st) ==
    LET sub   == Process(p, f.fields, 1, path \o f.name, default,
                         [st EXCEPT !.out = Below(st.out, f.name)])
        attrs == Merge([type |-> IF f.type = "nested" THEN "nested" ELSE ""],
                       IF f.dynamic = "unset" THEN Empty
                       ELSE [dynamic |-> f.dynamic])
        some  == f.type = "nested" \/ f.dynamic # "unset" \/ sub.out # Empty
    IN  [sub EXCEPT !.out = IF some /\ ~sub.err
                              THEN PutProperty(st.out, f.name, attrs, sub.out)
                              ELSE st.out]

\* One leaf: [st, attrs], with None as attrs when it is not mapped.
Leaf(p, f, path, default, st) ==
    LET type == EffectiveType(p, f)
        sub  == MultiFields(p, f, IF type = "match_only_text" THEN <<>>
                                  ELSE path \o f.name,
                            IF type = "match_only_text" THEN FALSE
                                                        ELSE default, st)
    IN  CASE type \in {"text", "match_only_text"} ->
               [st |-> sub,
                attrs |-> WithMulti(f, Merge(Props(p, f, type),
                              IF f.analyzer = None THEN Empty
                              ELSE [analyzer |-> f.analyzer.name]), sub)]
          [] type = "keyword" ->
               [st |-> sub, attrs |-> WithMulti(f, Merge(Props(p, f, type),
                                                  IgnoreAbove(f)), sub)]
          [] type = "wildcard" ->
               [st |-> sub,
                attrs |-> WithMulti(f, Merge(Props(p, f, type),
                              IF f.ignoreAbove > 0
                                THEN [ignore |-> f.ignoreAbove]
                                ELSE Empty), sub)]
          [] type = "object" ->
               [st |-> ObjectTemplates(p, f, path \o f.name, 1, st),
                attrs |-> Merge(Props(p, f, type),
                              IF f.enabled = "unset" THEN Empty
                              ELSE [enabled |-> f.enabled = "yes"])]
          [] type = "alias" ->
               [st |-> st,
                attrs |-> IF f.migration /\ ~p.migration THEN None
                          ELSE Merge(Props(p, f, type), [to |-> f.aliasPath])]
          [] type = "histogram" ->
               [st |-> st, attrs |-> IF p.es < minVersionHistogram THEN None
                                     ELSE Props(p, f, type)]
          [] type = "integer" -> [st |-> st, attrs |-> Props(p, f, "long")]
          [] type = "scaled_float" ->
               [st |-> st, attrs |-> Merge(Props(p, f, type),
                              [scaling |-> IF f.scaling # 0 THEN f.scaling
                                                            ELSE 1000])]
          [] type = "array" ->
               [st |-> st, attrs |-> Props(p, f, IF f.objectTypes = <<>>
                                                   THEN ""
                                                   ELSE f.objectTypes[1].type)]
          [] OTHER -> [st |-> st, attrs |-> Props(p, f, type)]

\* What Process does with the attributes of a leaf: an explicit dynamic
\* template, or a property at its path.
PutLeaf(p, f, r) ==
    IF r.attrs = None THEN r.st
    ELSE IF f.dynTemplate
      THEN IF p.es >= minVersionExplicitDynamicTemplate
             THEN addDynamicTemplate(r.st, f.name, <<>>, "", r.attrs)
             ELSE r.st
      ELSE [r.st EXCEPT !.out = PutProperty(@, f.name, r.attrs, Empty)]

\* Process from the i-th definition on, below path, with the default_field of
\* the definition above.
Process(p, fs, i, path, default, st) ==
    IF i > Len(fs) \/ st.err THEN st
    ELSE LET f    == fs[i]
             own  == Flag(f.default, default)
             r    == Leaf(p, f, path, own, st)
             leaf == PutLeaf(p, f,
                       IF own /\ f.type \in Textual \cup {""}
                         THEN [r EXCEPT !.st = addToDefaultFields(@, f, path)]
                         ELSE r)
         IN  Process(p, fs, i + 1, path, default,
               IF f.name = <<>> THEN st
               ELSE IF f.type \in {"group", "nested"}
                 THEN Group(p, f, path, own, st)
               ELSE IF f.type \in {"text", "match_only_text"}
                 THEN putAnalyzer(leaf, f.analyzer)
                 ELSE leaf)

Start == [out |-> Empty, analyzers |-> Empty, dyn |-> <<>>, defaults |-> <<>>,
          multi |-> Empty, err |-> FALSE]

\* load: the definitions with the appended ones, processed from the root.
load(cfg, fs) ==
    LET all == ConcatFields(fs, cfg.append) IN
    IF all = None THEN None
    ELSE LET st == Process(cfg, all, 1, <<>>, FALSE, Start) IN
         IF st.err THEN None ELSE st

(***************************************************************************)
(* The rest of the template.                                               *)
(***************************************************************************)

\* New: the name of the JSON template when there is one, the name of the
\* configuration, or Beat and version; the pattern is the name with a star.
TemplateName(cfg) ==
    LET name == IF cfg.json # None THEN cfg.json ELSE cfg.name
    IN  IF name = "" THEN "beat-version" ELSE name

TemplatePattern(cfg) ==
    IF cfg.pattern # "" THEN <<cfg.pattern>> ELSE <<TemplateName(cfg), "*">>

\* buildIdxSettings: defaults, overwritten by the settings of the user, of
\* which number_of_shards is taken away where the server decides.
buildIdxSettings(cfg, defaults) ==
    LET user == IF cfg.serverless
                  THEN [k \in DOMAIN cfg.settings \ {"number_of_shards"} |->
                            cfg.settings[k]]
                  ELSE cfg.settings
        own  == Merge([refresh_interval |-> "5s", default_field |-> defaults],
                      IF cfg.serverless THEN Empty
                      ELSE [max_docvalue_fields_search |-> "200"])
    IN  Merge(user, own)

\* LoadMinimal: no fields, only the settings of the user.
LoadMinimal(cfg) ==
    [patterns |-> TemplatePattern(cfg), kind |-> "minimal",
     settings |-> IF cfg.serverless
                    THEN [k \in DOMAIN cfg.settings \ {"number_of_shards"} |->
                              cfg.settings[k]]
                    ELSE cfg.settings]

\* Generate: mappings, settings, analyzers and dynamic templates, the last of
\* which maps every other string to a keyword.
Generate(cfg, st) ==
    [patterns |-> TemplatePattern(cfg), kind |-> "full", out |-> st.out,
     dyn |-> Append(st.dyn, [name |-> <<"strings_as_keyword">>,
                             path |-> <<>>, match |-> "string",
                             attrs |-> [type |-> "keyword"]]),
     analyzers |-> st.analyzers, defaults |-> st.defaults,
     settings |-> buildIdxSettings(cfg, st.defaults)]

\* buildBody: a JSON file as it is, the fields of a file or of the Beat, or
\* no fields at all.
buildBody(cfg, fs) ==
    IF cfg.json # None THEN [patterns |-> <<>>, kind |-> "json"]
    ELSE IF fs = None THEN LoadMinimal(cfg)
    ELSE IF ~Valid(fs) \/ ~Valid(cfg.append) THEN None
    ELSE LET st == load(cfg, fs) IN
         IF st = None THEN None ELSE Generate(cfg, st)

(***************************************************************************)
(* kibana: the fields of the index pattern.                                *)
(***************************************************************************)
typeMapping(type) ==
    CASE type \in Numeric \ {"histogram"}    -> "number"
      [] type \in {"text", "keyword", ""}    -> "string"
      [] type \in {"ip"}                     -> type
      [] OTHER                               -> None

\* transformField
transformField(f, path) ==
    LET off == f.type = "object" /\ f.enabled = "no" IN
    [name |-> path, type |-> typeMapping(f.type),
     indexed |-> ~off /\ Flag(f.index, TRUE),
     searchable |-> ~off,
     aggregatable |-> ~off /\ f.type # "text",
     format |-> f.format]

\* add: a second definition of a path must be compatible and say that it
\* overwrites the first; anything else ends the transformation (a panic that
\* transform turns into an error).
AddKibana(st, f, path) ==
    LET known == {i \in 1..Len(st.fields) : st.fields[i].name = path}
        new   == transformField(f, path)
    IN  IF known = {}
          THEN [st EXCEPT !.fields = Append(@, new)]
          ELSE LET i == CHOOSE k \in known : TRUE IN
               IF f.overwrite
                  /\ (f.type = "" \/ st.fields[i].type = new.type)
                 THEN [st EXCEPT !.fields[i] = new]
                 ELSE [st EXCEPT !.err = TRUE]

\* The definition an alias shows: that of its target, under its own name.
AliasOf(all, f) ==
    LET target == getField(all, f.aliasPath) IN
    IF f.type # "alias" \/ target = None THEN f
    ELSE [target EXCEPT !.name = f.name]

RECURSIVE AddMulti(_, _, _, _)
AddMulti(st, f, path, i) ==
    IF i > Len(f.multi) \/ st.err THEN st
    ELSE AddMulti(AddKibana(st, [f EXCEPT !.type = f.multi[i].type],
                            path \o f.multi[i].name), f, path, i + 1)

RECURSIVE transformFields(_, _, _, _, _, _)
transformFields(p, all, fs, i, path, st) ==
    IF i > Len(fs) \/ st.err THEN st
    ELSE LET f    == fs[i]
             here == path \o f.name
             g    == AliasOf(all, f)
         IN  transformFields(p, all, fs, i + 1, path,
               IF f.type = "group"
                 THEN IF f.enabled = "no" THEN st
                      ELSE transformFields(p, all, f.fields, 1, here, st)
               ELSE IF f.type = "alias" /\ f.migration /\ ~p.migration THEN st
               ELSE AddMulti(AddKibana(st, g, here), g, here, 1))

\* transform, with the four fields every index has.
transform(p, fs) ==
    LET st   == transformFields(p, fs, fs, 1, <<>>,
                                [fields |-> <<>>, err |-> FALSE])
        meta == [i \in 1..4 |->
                    [name |-> <<(<<"_id", "_type", "_index", "_score">>)[i]>>,
                     type |-> IF i = 4 THEN "number" ELSE "string",
                     indexed |-> FALSE, searchable |-> i = 2,
                     aggregatable |-> i = 2, format |-> ""]]
    IN  IF st.err \/ ~Valid(fs) THEN None ELSE st.fields \o meta

(***************************************************************************)
(* The instance: lists of up to two definitions, and up to one appended.   *)
(***************************************************************************)
Raw == [Field(<<"raw">>, "keyword") EXCEPT !.default = "yes"]

An(def) == [name |-> "an", def |-> def]

Leaves(n) ==
    LET f(type) == Field(n, type) IN
    {f("keyword"), [f("keyword") EXCEPT !.default = "yes", !.ignoreAbove = -1],
     [f("keyword") EXCEPT !.multi = <<Raw>>, !.ignoreAbove = 20],
     [f("text") EXCEPT !.analyzer = An(1), !.default = "yes"],
     [f("text") EXCEPT !.analyzer = An(2), !.index = "no"],
     [f("match_only_text") EXCEPT !.multi = <<Raw>>],
     [f("wildcard") EXCEPT !.multi = <<[Raw EXCEPT !.default = "no"]>>],
     [f("object") EXCEPT !.objectTypes = <<[type |-> "long", match |-> ""]>>],
     [f("object") EXCEPT !.enabled = "no",
         !.objectTypes = <<[type |-> "keyword", match |-> ""],
                           [type |-> "text", match |-> "long"],
                           [type |-> "", match |-> ""],
                           [type |-> "histogram", match |-> "long"]>>],
     [f("histogram") EXCEPT !.metric = "gauge"],
     [f("scaled_float") EXCEPT !.scaling = 10],
     [f("integer") EXCEPT !.index = "no", !.format = "bytes"],
     [f("ip") EXCEPT !.metric = "gauge"],
     [f("keyword") EXCEPT !.dynTemplate = TRUE],
     [f("alias") EXCEPT !.aliasPath = <<"b">>],
     [f("alias") EXCEPT !.aliasPath = <<"b">>, !.migration = TRUE],
     [f("keyword") EXCEPT !.overwrite = TRUE], f("array")}

Groups ==
    {[Field(<<"a">>, type) EXCEPT !.fields = <<f>>] :
        type \in {"group", "nested"},
        f \in {Field(<<"b">>, "keyword"), Field(<<"c">>, "histogram"),
               [Field(<<"c">>, "text") EXCEPT !.analyzer = An(1)]}}
    \cup {[Field(<<"a">>, "group") EXCEPT !.default = "yes",
              !.fields = <<Field(<<"b">>, "wildcard"), Field(<<"c">>, "")>>],
          [Field(<<"a">>, "group") EXCEPT !.dynamic = "strict"],
          [Field(<<"a">>, "group") EXCEPT !.enabled = "no",
              !.fields = <<Field(<<"d">>, "text")>>]}

Definitions == Leaves(<<"a">>) \cup Groups

FieldLists ==
    {<<d>> : d \in Definitions}
    \cup {<<d, e>> : d \in Definitions,
                     e \in Leaves(<<"b">>) \cup Groups
                             \cup {Field(<<"a", "b">>, "text")}}

AppendLists ==
    {<<>>} \cup {<<d>> : d \in Groups \cup {Field(<<"a">>, "keyword"),
                                           Field(<<"a", "c">>, "keyword"),
                                           Field(<<"b">>, "ip")}}

FieldInit == call = None /\ result = None

\* One template for every list, version, licence and migration setting.
CallBuild ==
    /\ call = None
    /\ \E fs \in FieldLists, more \in AppendLists, es \in {0, 3, 4},
          on \in BOOLEAN :
         LET cfg == [append |-> more, es |-> es, licensed |-> on,
                     migration |-> on, json |-> None, name |-> "",
                     pattern |-> "", serverless |-> ~on, settings |-> Empty]
         IN  /\ call' = [cfg |-> cfg, fields |-> fs]
             /\ result' = [tmpl |-> buildBody(cfg, fs),
                           kibana |-> transform(cfg, fs)]

\* The configuration of the template itself, for one list of definitions.
CallSettings ==
    /\ call = None
    /\ \E json \in {None, "j"}, name \in {"", "n"}, pattern \in {"", "p"},
          serverless \in BOOLEAN, fs \in {None, <<Raw>>},
          keys \in SUBSET {"number_of_shards", "refresh_interval"} :
         LET cfg == [append |-> <<>>, es |-> 4, licensed |-> TRUE,
                     migration |-> FALSE, json |-> json, name |-> name,
                     pattern |-> pattern, serverless |-> serverless,
                     settings |-> [k \in keys |-> "user"]]
         IN  /\ call' = [cfg |-> cfg, fields |-> fs]
             /\ result' = [tmpl |-> buildBody(cfg, fs), kibana |-> None]

FieldNext == CallBuild \/ CallSettings

(***************************************************************************)
(* Properties.                                                             *)
(***************************************************************************)
Full == result # None /\ result.tmpl # None /\ result.tmpl.kind = "full"

\* The definitions of a list have names without dots, each of them once.
RECURSIVE Plain(_)
Plain(fs) ==
    /\ \A i, j \in 1..Len(fs) : fs[i].name = fs[j].name => i = j
    /\ \A i \in 1..Len(fs) : Len(fs[i].name) = 1 /\ Plain(fs[i].fields)

PlainCall == Plain(call.fields) /\ Plain(call.cfg.append)

\* The leaves of a list with their paths.
RECURSIVE LeafSet(_, _)
LeafSet(fs, path) ==
    UNION {LET f == fs[i] here == path \o fs[i].name IN
           IF f.type \in {"group", "nested"} THEN LeafSet(f.fields, here)
           ELSE {[path |-> here, f |-> f]} : i \in 1..Len(fs)}

AllLeaves == LeafSet(call.fields, <<>>) \cup LeafSet(call.cfg.append, <<>>)

\* A leaf has no property of its own: an explicit dynamic template, an alias
\* of a migration that is off, a histogram for an old Elasticsearch.
Unmapped(f) ==
    \/ f.dynTemplate
    \/ f.type = "alias" /\ f.migration /\ ~call.cfg.migration
    \/ f.type = "histogram" /\ call.cfg.es < minVersionHistogram

\* Where ConcatFields accepts the appended definitions, every leaf of both
\* lists has its property in the template, with its own type: no definition
\* replaces another one on the way (ConcatFields, Process, group).  An object
\* may be extended by a group, which replaces its attributes.
LeavesAreMapped ==
    (Full /\ PlainCall) =>
        \A l \in AllLeaves :
            Unmapped(l.f) \/ l.f.type = "object"
            \/ /\ l.path \in DOMAIN result.tmpl.out
               /\ result.tmpl.out[l.path].type
                    = CASE l.f.type = "integer" -> "long"
                        [] l.f.type = "array"   -> ""
                        [] OTHER -> EffectiveType(call.cfg, l.f)

Multi(attrs) == IF "multi" \in DOMAIN attrs THEN DOMAIN attrs.multi ELSE {}

\* The paths a query can use: properties and their multi-fields.
Searchable(out) ==
    DOMAIN out \cup UNION {{p \o m : m \in Multi(out[p])} : p \in DOMAIN out}

\* Every default field of the index is a property or a multi-field of the
\* template (addToDefaultFields with the path of the state).  The multi-fields
\* of match_only_text lose their path, and explicit dynamic templates are
\* listed although they are not properties.
DefaultFieldsExist ==
    (/\ Full /\ PlainCall
     /\ \A l \in AllLeaves :
           ~l.f.dynTemplate
           /\ EffectiveType(call.cfg, l.f) # "match_only_text") =>
        \A i \in 1..Len(result.tmpl.defaults) :
            result.tmpl.defaults[i] \in Searchable(result.tmpl.out)

\* Every analyzer a field of the template refers to is defined, with the
\* definition the field came with (the check of Process).
AnalyzersAgree ==
    Full => \A l \in AllLeaves :
        (l.f.type = "text" /\ l.f.analyzer # None) =>
            /\ l.f.analyzer.name \in DOMAIN result.tmpl.analyzers
            /\ result.tmpl.analyzers[l.f.analyzer.name] = l.f.analyzer.def

\* No two dynamic templates have the same name, which Elasticsearch refuses,
\* whatever object types a field lists (object, addDynamicTemplate).
DynamicTemplatesNamedOnce ==
    (Full /\ PlainCall) =>
        \A i, j \in 1..Len(result.tmpl.dyn) :
            result.tmpl.dyn[i].name = result.tmpl.dyn[j].name => i = j

\* A field that the index pattern shows exists in the index: both are made
\* from the same definitions by different code (transform, Process).  Not
\* covered are the leaves that Unmapped lists, and the multi-fields of the
\* target of an alias, which the index pattern shows below the alias.
PatternFieldsExist ==
    (/\ Full /\ result.kibana # None /\ PlainCall /\ call.cfg.append = <<>>
     /\ \A l \in AllLeaves : ~Unmapped(l.f)) =>
        \A i \in 1..(Len(result.kibana) - 4) :
            LET path == result.kibana[i].name IN
            \/ path \in Searchable(result.tmpl.out)
            \/ \E l \in AllLeaves : l.f.type = "alias" /\ Begins(l.path, path)

\* The settings of the user are in the template, except for the number of
\* shards where the server decides; so are the defaults they leave alone.
SettingsAreKept ==
    (result # None /\ result.tmpl # None /\ result.tmpl.kind # "json") =>
        LET s == result.tmpl.settings IN
        /\ \A k \in DOMAIN call.cfg.settings :
              IF k = "number_of_shards" /\ call.cfg.serverless
                THEN k \notin DOMAIN s
                ELSE k \in DOMAIN s /\ s[k] = call.cfg.settings[k]
        /\ Full => {"refresh_interval", "default_field"} \subseteq DOMAIN s
====
