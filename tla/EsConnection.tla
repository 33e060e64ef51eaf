---------------------------- MODULE EsConnection ----------------------------
(***************************************************************************)
(* One Elasticsearch connection (esleg/eslegclient): its settings, the     *)
(* version it learns from the server, the body encoder that bulk requests  *)
(* and single requests share, plain or gzip, and the response buffer.  A   *)
(* document may be impossible to encode: the encoder then leaves a part of *)
(* it behind.  The server answers anything to a request, but it accepts no *)
(* body that is not whole.                                                 *)
(***************************************************************************)
EXTENDS Integers, Sequences, SequencesExt, FiniteSets, TLC

CONSTANTS
  Docs,      \* documents that can be encoded
  BadDocs,   \* documents whose encoding fails half way
  MaxBody,   \* bound: documents in a body
  None

VARIABLES
  conf,      \* settings: [gz, auth], never change
  buf,       \* the encoder's buffer: the documents of the last body, whole or in part
  clean,     \* the encoder's folder is at the start of a document
  known,     \* conn.version, None when it is not valid
  serverless, \* conn.isServerless
  truth,     \* the version in the last answer to a Ping
  last       \* the last request: [op, docs, body, err] or [op, path]

connVars == <<conf, buf, clean, known, serverless, truth, last>>

Whole(d) == [doc |-> d, whole |-> TRUE]
Part(d) == [doc |-> d, whole |-> FALSE]
WholeBody(b) == \A i \in 1..Len(b) : b[i].whole

(***************************** settings **********************************)

(* The settings of a configuration; a user in the URL replaces the configured one *)
Validate(c) == ~(c.apiKey /\ c.user)
NewConnection(c) == [gz |-> c.compression > 0, basic |-> c.user \/ c.urlUser, apiKey |-> c.apiKey, headers |-> c.headers]
Configs == [compression : {0, 5}, user : BOOLEAN, urlUser : BOOLEAN, apiKey : BOOLEAN, headers : SUBSET {"Authorization"}]

(* Authorization values that execHTTPRequest puts into a request *)
Authorizations(s) == (IF s.basic THEN <<"basic">> ELSE <<>>) \o (IF s.apiKey THEN <<"key">> ELSE <<>>)
                     \o (IF "Authorization" \in s.headers THEN <<"own">> ELSE <<>>)

ConnInit ==
  /\ \E c \in Configs : Validate(c) /\ conf = [from |-> c] @@ NewConnection(c)
  /\ buf = <<>> /\ clean = TRUE /\ known = None /\ serverless = FALSE
  /\ truth = None /\ last = None

(***************************** encoder ***********************************)

(* Folding a document: what is written, and whether the folder is at a start again *)
Fold(d, c) == IF d \in Docs /\ c THEN [out |-> Whole(d), ok |-> TRUE, clean |-> TRUE]
              ELSE [out |-> Part(d), ok |-> d \in Docs, clean |-> FALSE]

(* AddRaw resets the folder after an error; only the JSON encoder returns it *)
AddRaw(e, d, gz) ==
  LET f == Fold(d, e.clean) IN [buf |-> Append(e.buf, f.out), clean |-> f.clean \/ ~f.ok, err |-> ~f.ok /\ ~gz]

(* Add: an error takes back what was written *)
AddDoc(e, d, gz) == LET r == AddRaw(e, d, gz) IN IF r.err THEN [r EXCEPT !.buf = e.buf] ELSE r

(* Reset empties the buffer; the folder stays as it is *)
Reset == [buf |-> <<>>, clean |-> clean, err |-> FALSE]

Put(e) == buf' = e.buf /\ clean' = e.clean

(***************************** requests **********************************)

(* What becomes of a request with a body: no answer, one that breaks off, or a
   status; execHTTPRequest makes an error of all but a full answer below 300 *)
execHTTPRequest(body) == {err \in BOOLEAN : ~err => WholeBody(body)}

Sent(op, docs, r) ==
  /\ Put(r)
  /\ \/ r.err /\ last' = [op |-> op, docs |-> docs, body |-> None, err |-> TRUE]
     \/ /\ ~r.err
        /\ \E e \in execHTTPRequest(r.buf) : last' = [op |-> op, docs |-> docs, body |-> r.buf, err |-> e]
  /\ UNCHANGED <<conf, known, serverless, truth>>

(* RequestURL with a body, as LoadJSON sends it: the body is encoded anew *)
LoadJSON(d) == Sent("load", <<d>>, AddRaw(Reset, d, conf.gz))

(* Bulk encodes document after document, stops at the first error *)
bulkEncode(docs, gz) ==
  FoldLeft(LAMBDA e, d : IF e.err THEN e ELSE AddRaw(e, d, gz), Reset, docs)

Bulk(docs) == docs # <<>> /\ Sent("bulk", docs, bulkEncode(docs, conf.gz))

(* A body collected with Add goes on without the documents that failed *)
AddAll(docs, gz) ==
  FoldLeft(LAMBDA c, d : LET r == AddDoc(c.enc, d, gz)
                         IN [enc |-> r, docs |-> IF r.err THEN c.docs ELSE Append(c.docs, d)],
           [enc |-> Reset, docs |-> <<>>], docs)

Collect(docs) ==
  LET c == AddAll(docs, conf.gz) IN c.docs # <<>> /\ Sent("bulk", c.docs, [c.enc EXCEPT !.err = FALSE])

(* makePath: the parts that are given, in order *)
makePath(index, docType, id) ==
  IF docType # "" THEN <<index, docType>> \o (IF id # "" THEN <<id>> ELSE <<>>)
  ELSE IF id # "" THEN (IF index # "" THEN <<index>> ELSE <<>>) \o <<id>> ELSE <<index>>

(* A search names the document type only before version 8 *)
SearchURIWithBody(docType) ==
  /\ last' = [op |-> "search", given |-> docType,
               path |-> makePath("i", IF known # None /\ known >= 8 THEN "" ELSE docType, "_search")]
  /\ UNCHANGED <<conf, buf, clean, known, serverless, truth>>

(***************************** version ***********************************)

Pings == [version : {7, 8, None}, flavor : {"default", "serverless", "other"}]

(* getVersion: an answer whose version cannot be read forgets the old one;
   a flavor that is not known changes nothing *)
getVersion(p) ==
  /\ known' = p.version /\ truth' = p.version
  /\ serverless' = CASE p.flavor = "serverless" -> TRUE [] p.flavor = "default" -> FALSE [] OTHER -> serverless

Connect ==
  \/ \E p \in Pings : getVersion(p) /\ UNCHANGED <<conf, buf, clean, last>>
  \/ UNCHANGED connVars  \* the ping failed

(* GetVersion pings only while no version is known *)
GetVersion ==
  /\ known = None
  /\ \E p \in Pings : getVersion(p) /\ UNCHANGED <<conf, buf, clean, last>>

ConnNext ==
  \/ \E d \in Docs \cup BadDocs : LoadJSON(d)
  \/ \E docs \in SeqOf(Docs \cup BadDocs, MaxBody) : Bulk(docs) \/ Collect(docs)
  \/ \E t \in {"", "doc"} : SearchURIWithBody(t)
  \/ Connect
  \/ GetVersion

(***************************** properties ********************************)

(* A request that succeeded carried the documents that Add, Marshal or Bulk
   had whole and in order.  Without compression no other body is
   ever sent, whatever documents failed before *)
RequestsAreWhole ==
  (last # None /\ last.op # "search" /\ last.body # None)
    => ((conf.gz /\ last.err) \/ last.body = [i \in 1..Len(last.docs) |-> Whole(last.docs[i])])

(* A search names a document type exactly when one is asked for and the server
   that answered last is not known to be of version 8 or later *)
PathFitsServer ==
  (last' # last /\ last'.op = "search")
       => (Contains(last'.path, "doc") <=> last'.given = "doc" /\ (truth = None \/ truth < 8))

(* A request carries one authorization at most, unless the URL has a user in
   spite of an API key, or the configured headers have an authorization of their own *)
OneAuthorization ==
  (Len(Authorizations(conf)) > 1) => ((conf.from.urlUser /\ conf.from.apiKey) \/ "Authorization" \in conf.headers)

=============================================================================
