------------------------------ MODULE Scripts -------------------------------
(***************************************************************************)
(* The javascript processor: the pool of sessions that run the script,     *)
(* what scripts do with an event and with processors they build, and the   *)
(* helpers for Windows paths and command lines.                            *)
(***************************************************************************)
EXTENDS Event, Naturals, Sequences, SequencesExt, FiniteSets

CONSTANT None

VARIABLES call, result

-----------------------------------------------------------------------------
(***************************************************************************)
(* The sessions of the javascript processor: session.go, javascript.go and *)
(* config.go of processors/script/javascript.  A session is a runtime that *)
(* one goroutine at a time may use.  Workers take one from the pool for    *)
(* each event, and a timer interrupts a script that runs for too long.     *)
(*                                                                         *)
(* The runtime is goja, which is not part of the repository: an interrupt  *)
(* ends the script that runs, and if none does it waits for the next one.  *)
(* Time is not modelled: a timer may go off at any moment until it is      *)
(* stopped, and the goroutine it then starts interrupts at any later one.  *)
(***************************************************************************)

CONSTANTS Workers, Sessions, MaxCached, MaxRuns

VARIABLES
  conf,       \* max_cached_sessions, only_cached_sessions, timeout; again: newSession works more than once
  pool,       \* the channel C of the pool
  evt,        \* what each session wraps: the worker whose event it is, and whether it is cancelled
  interrupt,  \* sessions whose runtime has an interrupt pending
  pc, held,   \* where each worker is, and its session
  timers,     \* workers whose timer is armed
  firing,     \* sessions about to be interrupted by a timer that went off
  own,        \* history: what happened to a worker's event in this run
  late,       \* history: sessions interrupted after the run their timer belonged to
  out,        \* the outcome of a worker's last run
  runs

sessionVars == <<conf, pool, evt, interrupt, pc, held, timers, firing, own, late, out, runs>>

Configs == [max : 0..MaxCached, only : BOOLEAN, timeout : BOOLEAN, again : BOOLEAN]
Fresh == [event |-> None, cancelled |-> FALSE]
InUse == {held[w] : w \in Workers} \ {None}

(* Put: a session that finds the channel full is dropped *)
PutInto(q, s) == IF Len(q) < conf.max THEN Append(q, s) ELSE q

(* newSessionPool: the session the script was tested with and, if no others may be
   made later, the ones that can be made now *)
newSessionPool(c) ==
  LET n == IF c.max = 0 THEN 0 ELSE IF c.only /\ c.again THEN c.max ELSE 1
  IN  SubSeq(SetToSeq(Sessions), 1, n)

SessionInit ==
  /\ conf \in Configs
  /\ pool = newSessionPool(conf)
  /\ evt = [s \in Sessions |-> Fresh]
  /\ interrupt = {} /\ timers = {} /\ firing = {} /\ late = {}
  /\ pc = [w \in Workers |-> "idle"]
  /\ held = [w \in Workers |-> None]
  /\ own = [w \in Workers |-> {}]
  /\ out = [w \in Workers |-> None]
  /\ runs = 0

Run(w) ==
  /\ pc[w] = "idle" /\ runs < MaxRuns
  /\ runs' = runs + 1
  /\ pc' = [pc EXCEPT ![w] = "get"]
  /\ own' = [own EXCEPT ![w] = {}]
  /\ out' = [out EXCEPT ![w] = None]
  /\ UNCHANGED <<conf, pool, evt, interrupt, held, timers, firing, late>>

(* Get: waits for a session if no others may be made, else makes one; one that
   cannot be made is nil *)
GetPooled(w) ==
  /\ pc[w] = "get" /\ pool # <<>>
  /\ held' = [held EXCEPT ![w] = Head(pool)]
  /\ pool' = Tail(pool)
  /\ pc' = [pc EXCEPT ![w] = "set"]
  /\ UNCHANGED <<conf, evt, interrupt, timers, firing, own, late, out, runs>>

GetNew(w) ==
  /\ pc[w] = "get" /\ pool = <<>> /\ ~conf.only
  /\ IF conf.again
     THEN LET s == CHOOSE x \in Sessions \ (InUse \cup {t.s : t \in firing}) : TRUE IN
            /\ held' = [held EXCEPT ![w] = s]
            /\ evt' = [evt EXCEPT ![s] = Fresh]
            /\ interrupt' = interrupt \ {s}
            /\ late' = late \ {s}
            /\ pc' = [pc EXCEPT ![w] = "set"]
     ELSE /\ pc' = [pc EXCEPT ![w] = "crashed"]
          /\ UNCHANGED <<held, evt, interrupt, late>>
  /\ UNCHANGED <<conf, pool, timers, firing, own, out, runs>>

(* setEvent and reset, and the timer *)
SetEvent(w) ==
  /\ pc[w] = "set"
  /\ evt' = [evt EXCEPT ![held[w]] = [event |-> w, cancelled |-> FALSE]]
  /\ timers' = IF conf.timeout THEN timers \cup {[w |-> w, s |-> held[w]]} ELSE timers
  /\ pc' = [pc EXCEPT ![w] = "script"]
  /\ UNCHANGED <<conf, pool, interrupt, held, firing, own, late, out, runs>>

(* The script calls Cancel *)
Cancel(w) ==
  /\ pc[w] = "script" /\ ~evt[held[w]].cancelled
  /\ evt' = [evt EXCEPT ![held[w]].cancelled = TRUE]
  /\ own' = [own EXCEPT ![w] = @ \cup {"cancelled"}]
  /\ UNCHANGED <<conf, pool, interrupt, pc, held, timers, firing, late, out, runs>>

(* How runProcessFunc answers when the script has ended: an exception leaves a tag
   and a message in the event, which is handed on even if it was cancelled; the
   event of a call that panicked is handed on unless it was cancelled *)
Outcome(w, how) ==
  [event |-> how \in {"exception", "timeout"} \/ ~evt[held[w]].cancelled,
   how |-> how, late |-> held[w] \in late]

(* An interrupt the script did not live to see stays pending *)
ScriptEnds(w, how) ==
  LET s == held[w]
  IN /\ pc[w] = "script"
     /\ how = "timeout" => s \in interrupt
     /\ interrupt' = IF how = "timeout" THEN interrupt \ {s} ELSE interrupt
     /\ late' = IF how # "timeout" /\ s \in interrupt THEN late \cup {s}
                ELSE IF how = "timeout" /\ \A t \in firing : t.s # s THEN late \ {s}
                ELSE late
     /\ out' = [out EXCEPT ![w] = Outcome(w, how)]
     /\ pc' = [pc EXCEPT ![w] = "ended"]
     /\ UNCHANGED <<conf, pool, evt, held, timers, firing, own, runs>>

(* The deferred calls: the timer is stopped, the session goes back *)
Return(w) ==
  /\ pc[w] = "ended"
  /\ timers' = {t \in timers : t.w # w}
  /\ late' = IF \E t \in firing : t.w = w THEN late \cup {held[w]} ELSE late
  /\ pool' = PutInto(pool, held[w])
  /\ held' = [held EXCEPT ![w] = None]
  /\ pc' = [pc EXCEPT ![w] = "idle"]
  /\ UNCHANGED <<conf, evt, interrupt, firing, own, out, runs>>

(* The timer goes off; Stop does not wait for the goroutine it has started *)
TimerFires(t) ==
  /\ timers' = timers \ {t}
  /\ firing' = firing \cup {t}
  /\ own' = [own EXCEPT ![t.w] = @ \cup {"overdue"}]
  /\ UNCHANGED <<conf, pool, evt, interrupt, pc, held, late, out, runs>>

Interrupt(t) ==
  /\ firing' = firing \ {t}
  /\ interrupt' = interrupt \cup {t.s}
  /\ late' = IF pc[t.w] = "script" THEN late ELSE late \cup {t.s}
  /\ UNCHANGED <<conf, pool, evt, pc, held, timers, own, out, runs>>

SessionNext ==
  \/ \E w \in Workers :
       \/ Run(w) \/ GetPooled(w) \/ GetNew(w) \/ SetEvent(w) \/ Cancel(w) \/ Return(w)
       \/ \E how \in {"returns", "exception", "panic", "timeout"} : ScriptEnds(w, how)
  \/ \E t \in timers : TimerFires(t)
  \/ \E t \in firing : Interrupt(t)

(* A runtime is never shared: a session is in the hands of one worker, or in the pool
   once (sessionPool.Get and Put) *)
SessionIsExclusive ==
  /\ \A v, w \in Workers : held[v] = held[w] /\ held[v] # None => v = w
  /\ \A i \in DOMAIN pool : pool[i] \notin InUse /\ \A j \in DOMAIN pool : pool[i] = pool[j] => i = j

(* An event is dropped only if its own script cancelled it: the mark a session keeps
   from the event before does not count (beatEventV0.reset) *)
DroppedIsCancelled ==
  \A w \in Workers : out[w] # None /\ ~out[w].event => "cancelled" \in own[w]

(* A script is interrupted because it ran for too long itself.  Not so in the code:
   Stop does not wait for a timer that has gone off, and its Interrupt may come when
   the run is over and its session has been given to the next one (session.go:232-237) *)
TimeoutIsAlwaysOwn ==
  \A w \in Workers : out[w] # None /\ out[w].how = "timeout" => "overdue" \in own[w]

(* What holds: a script is interrupted because it ran for too long itself, unless the
   timer of an earlier run of its session went off when that run was already over *)
TimeoutIsOwn ==
  \A w \in Workers :
    out[w] # None /\ out[w].how = "timeout" /\ ~out[w].late => "overdue" \in own[w]

(* With only_cached_sessions no outcome of a script takes a session away for good,
   so a worker that waits for one waits for a worker that holds one *)
SessionsAreKept ==
  conf.only => Len(pool) + Cardinality(InUse) = Len(newSessionPool(conf))

-----------------------------------------------------------------------------
(***************************************************************************)
(* What scripts of the javascript processor do with an event               *)
(* (processors/script/javascript: beatevent_v0.go, and chain.go and        *)
(* processor.go of module/processor), and how a script is loaded           *)
(* (javascript.go, session.go, config.go).  Each call is an operator from  *)
(* the event to the event after it, what the script gets back, and         *)
(* whether an exception or a panic ended the call.                         *)
(***************************************************************************)

scriptVars == <<call, result>>

Returns(e, v) == [event |-> e, value |-> v, thrown |-> FALSE]
Throws(e) == [event |-> e, value |-> "undefined", thrown |-> TRUE]

(* put *)
put(e, p, tree) ==
  LET r == PutValue(e, p, tree) IN IF r.err # "" THEN Throws(e) ELSE Returns(r.event, "old")

(* rename: the deletion comes first, so that a can become a.b, and is undone if the
   new place cannot be written *)
rename(e, from, to) ==
  LET value == GetValue(e, from)
      deleted == Delete(e, from)
      moved == PutValue(deleted.event, to, value.tree)
      undone == PutValue(deleted.event, from, value.tree)
  IN  IF Has(e, to) \/ value.err # "" \/ deleted.err # "" THEN Returns(e, "false")
      ELSE IF moved.err # "" THEN Returns(undone.event, "false")
      ELSE Returns(moved.event, "true")

(* delete *)
delete(e, p) == LET r == Delete(e, p) IN Returns(r.event, IF r.err = "" THEN "true" ELSE "false")

(* appendString: an error of the final Put is ignored *)
appendString(e, p, v, alwaysArray) ==
  LET old == GetValue(e, p).tree
      write(new) == Returns(PutValue(e, p, Leaf(new)).event, "undefined")
  IN  CASE old = <<>> -> write(IF alwaysArray THEN Arr(<<v>>) ELSE v)
        [] IsKind(old, "string") ->
             (IF old[<<>>] = v THEN Returns(e, "undefined") ELSE write(Arr(<<old[<<>>], v>>)))
        [] IsKind(old, "array") ->
             (IF \E i \in DOMAIN old[<<>>].items : old[<<>>].items[i] = v THEN Returns(e, "undefined")
              ELSE write(Arr(Append(old[<<>>].items, v))))
        [] OTHER -> Throws(e)

(* tag and appendTo *)
tag(e, v) == appendString(e, <<"tags">>, v, TRUE)
appendTo(e, p, v) == appendString(e, p, v, FALSE)

(* The processors of a chain: what one does to the event is "ok", "drop", "error" or,
   for a function, "cancel".  chain.run stops at a cancelled event and at an error. *)
processorRun(c, p) ==
  [ran |-> Append(c.ran, p), cancelled |-> c.cancelled \/ p \in {"drop", "cancel"}, err |-> p = "error"]

chainRun(procs, cancelled) ==
  FoldLeft(LAMBDA c, p : IF c.err \/ c.cancelled THEN c ELSE processorRun(c, p),
           [ran |-> <<>>, cancelled |-> cancelled, err |-> FALSE], procs)

(* beatProcessor.Run *)
RunChain(procs, cancelled) ==
  LET r == chainRun(procs, cancelled)
  IN  [ran |-> IF cancelled THEN <<>> ELSE r.ran, cancelled |-> r.cancelled,
       value |-> IF r.err THEN "throws" ELSE IF r.cancelled THEN "null" ELSE "event"]

(* newSession: what the script defines, if its functions throw, and the options *)
newSession(s, c, test) ==
  /\ s.main = "ok"
  /\ s.process = "function"
  /\ c.params => s.register = "function"
  /\ test => s.test \in {"absent", "function"}

(* Validate, loadSources and NewFromConfig: exactly one kind of source, which exists
   and compiles, and a session that works and passes the script's own test *)
Validate(c) == Cardinality({o \in {"source", "file", "files"} : o \in c.sources}) = 1
loadSources(c, s) == c.sources = {"source"} \/ (s.found /\ s.allowed)
NewFromConfig(c, s) == Validate(c) /\ loadSources(c, s) /\ s.compiles /\ newSession(s, c, TRUE)

----------------------------------------------------------------------------
(* The calls *)
Text(t) == Str(<<t>>)
Values == {Text("1"), Text("2"), Num(<<"1">>), Arr(<<Text("1")>>), Arr(<<Num(<<"1">>), Text("2")>>), EmptyMap}
Event0 == [p \in {Timestamp} |-> Time(<<"t">>)]
Events ==
  {Event0} \cup {Graft(Event0, p, Leaf(v)) : p \in {<<"a">>, <<"a", "b">>, <<"tags">>}, v \in Values}
  \cup {Graft(Graft(Event0, <<"a", "b">>, Leaf(v)), q, Leaf(Text("1"))) : v \in Values, q \in {<<"a", "c">>, <<"x">>}}
Paths == {<<"a">>, <<"a", "b">>, <<"a", "b", "c">>, <<"x">>, <<"x", "y">>, <<"tags">>}
Scripts ==
  [main : {"ok", "throws"}, process : {"absent", "other", "function"}, register : {"absent", "other", "function", "throws"},
   test : {"absent", "other", "function", "throws"}, found : BOOLEAN, allowed : BOOLEAN, compiles : BOOLEAN]

ScriptInit == call = None /\ result = None

Call(c, r) == call' = c /\ result' = r

CallPut == call = None /\ \E e \in Events, p \in Paths \cup {Timestamp, Metadata}, v \in Values :
  Call([op |-> "put", event |-> e, path |-> p, value |-> v], put(e, p, Leaf(v)))
CallRename == call = None /\ \E e \in Events, p, q \in Paths \cup {Timestamp, Metadata} :
  Call([op |-> "rename", event |-> e, from |-> p, to |-> q], rename(e, p, q))
CallDelete == call = None /\ \E e \in Events, p \in Paths \cup {Timestamp, Metadata} :
  Call([op |-> "delete", event |-> e, path |-> p], delete(e, p))
CallTag == call = None /\ \E e \in Events, v \in {Text("1"), Text("2")} :
  Call([op |-> "append", event |-> e, path |-> <<"tags">>, value |-> v], tag(e, v))
CallAppendTo == call = None /\ \E e \in Events, p \in Paths, v \in {Text("1"), Text("2")} :
  Call([op |-> "append", event |-> e, path |-> p, value |-> v], appendTo(e, p, v))
CallChain == call = None /\ \E procs \in BoundedSeq({"ok", "drop", "error", "cancel"}, 4), cancelled \in BOOLEAN :
  Call([op |-> "chain", procs |-> procs, cancelled |-> cancelled], RunChain(procs, cancelled))
CallLoad == call = None /\ \E s \in Scripts, sources \in SUBSET {"source", "file", "files"}, params \in BOOLEAN :
  LET c == [sources |-> sources, params |-> params]
  IN  Call([op |-> "load", script |-> s, conf |-> c],
           [ok |-> NewFromConfig(c, s), again |-> newSession(s, c, FALSE)])

ScriptNext ==
  CallPut \/ CallRename \/ CallDelete \/ CallTag \/ CallAppendTo \/ CallChain \/ CallLoad

Made(op) == call # None /\ call.op = op

(* Rename moves the whole value or leaves the event as it was, whatever stands at the
   new place and even if the old place is above the new one (beatEventV0.rename) *)
RenameIsWhole ==
  Made("rename") =>
    IF result.value = "false" THEN result.event = call.event
    ELSE /\ GetValue(result.event, call.to).tree = GetValue(call.event, call.from).tree
         /\ ~IsPrefix(call.from, call.to) => ~Has(result.event, call.from)
         /\ \A p \in DOMAIN call.event :
              ~IsPrefix(call.from, p) => p \in DOMAIN result.event \/ call.event[p] = EmptyMap

(* Tag and AppendTo keep what the field had, in its order, and add the value once,
   unless the field lies below a value that is not a map (appendString) *)
Held(e, p) ==
  LET t == GetValue(e, p).tree
  IN  IF t = <<>> THEN <<>> ELSE IF IsKind(t, "array") THEN t[<<>>].items ELSE <<t[<<>>]>>
AppendKeeps ==
  Made("append") /\ ~result.thrown /\ ~NotAMap(call.event, call.path) =>
    LET old == Held(call.event, call.path)
    IN  Held(result.event, call.path) =
          (IF \E i \in DOMAIN old : old[i] = call.value THEN old ELSE Append(old, call.value))

(* No processor of a chain sees an event that was cancelled before, and the script
   gets the event back only if it was neither cancelled nor refused (chain.run,
   beatProcessor.Run) *)
CancelEndsChain ==
  Made("chain") =>
    /\ \A i \in 1..(Len(result.ran) - 1) : result.ran[i] = "ok"
    /\ call.cancelled => result.ran = <<>>
    /\ (result.value = "event") = (~call.cancelled /\ result.ran = call.procs /\ \A i \in DOMAIN call.procs : call.procs[i] = "ok")

(* A script that was accepted can be loaded again: the sessions the pool makes later
   do not fail (newSessionPool drops the error of newSession) *)
AcceptedLoadsAgain == Made("load") => (result.ok => result.again)

-----------------------------------------------------------------------------
(***************************************************************************)
(* The Windows paths and command lines that scripts can take apart on any  *)
(* platform: processors/script/javascript/module/path/windows.go and       *)
(* module/windows/windows.go.  A text is a sequence of characters.  Clean  *)
(* works on the elements between separators instead of a buffer of bytes.  *)
(***************************************************************************)

CONSTANTS MaxPath, MaxArg

windowsVars == <<call, result>>

Sep == "\\"
Letters == {"a"}
isPathSeparator(c) == c \in {"/", Sep}
FromSlash(p) == [i \in DOMAIN p |-> IF p[i] = "/" THEN Sep ELSE p[i]]

(* volumeNameLen: a drive letter, or \\server\share where neither name begins with a dot *)
volumeNameLen(p) ==
  LET l == Len(p)
      sep(i) == isPathSeparator(p[i])
      n == CHOOSE i \in 4..l : (i = l \/ sep(i)) /\ \A j \in 4..(i - 1) : ~sep(j)
      e == CHOOSE i \in (n + 1)..(l + 1) : (i = l + 1 \/ sep(i)) /\ \A j \in (n + 1)..(i - 1) : ~sep(j)
  IN  IF l < 2 THEN 0
      ELSE IF p[2] = ":" /\ p[1] \in Letters THEN 2
      ELSE IF /\ l >= 5 /\ sep(1) /\ sep(2) /\ ~sep(3) /\ p[3] # "."
              /\ n < l /\ ~sep(n + 1) /\ p[n + 1] # "."
      THEN e - 1
      ELSE 0

volumeName(p) == SubSeq(p, 1, volumeNameLen(p))

(* IsAbs *)
IsAbs(p) ==
  LET l == volumeNameLen(p) IN l # 0 /\ Len(p) > l /\ isPathSeparator(p[l + 1])

(* The elements of a path, and how they are put together again *)
Elements(p) ==
  LET parts == FoldLeft(LAMBDA es, c : IF isPathSeparator(c) THEN Append(es, <<>>)
                                       ELSE [es EXCEPT ![Len(es)] = Append(@, c)], <<<<>>>>, p)
  IN  SelectSeq(parts, LAMBDA x : x # <<>>)
JoinElements(es) == FoldLeft(LAMBDA acc, x : IF acc = <<>> THEN x ELSE acc \o <<Sep>> \o x, <<>>, es)

(* Clean: ".." takes the element before it away, unless that is a ".." itself; at the
   root there is nothing above *)
CleanElement(es, x, rooted) ==
  IF x = <<".">> THEN es
  ELSE IF x # <<".", ".">> THEN Append(es, x)
  ELSE IF es # <<>> /\ Last(es) # <<".", ".">> THEN Front(es)
  ELSE IF rooted THEN es ELSE Append(es, x)

Clean(p) ==
  LET vol == volumeName(p)
      rest == SubSeq(p, Len(vol) + 1, Len(p))
      rooted == isPathSeparator(rest[1])
      es == FoldLeft(LAMBDA acc, x : CleanElement(acc, x, rooted), <<>>, Elements(rest))
      body == (IF rooted THEN <<Sep>> ELSE <<>>) \o JoinElements(es)
  IN  IF rest = <<>> THEN (IF Len(vol) > 1 /\ p[2] # ":" THEN FromSlash(p) ELSE Append(p, "."))
      ELSE FromSlash(vol \o (IF body = <<>> THEN <<".">> ELSE body))

(* Base and Dir *)
LastSep(p, least) ==
  LET at == {i \in (least + 1)..Len(p) : isPathSeparator(p[i])}
  IN  IF at = {} THEN least ELSE CHOOSE i \in at : \A j \in at : j <= i

Stripped(p) ==
  LET n == CHOOSE i \in 0..Len(p) : /\ i = 0 \/ ~isPathSeparator(p[i])
                                    /\ \A j \in (i + 1)..Len(p) : isPathSeparator(p[j])
  IN  SubSeq(p, 1, n)

Base(p) ==
  LET q == Stripped(p)
      r == SubSeq(q, Len(volumeName(q)) + 1, Len(q))
      b == SubSeq(r, LastSep(r, 0) + 1, Len(r))
  IN  IF p = <<>> THEN <<".">> ELSE IF b = <<>> THEN <<Sep>> ELSE b

InVolume(vol, dir) == IF dir = <<".">> /\ Len(vol) > 2 THEN vol ELSE vol \o dir

Dir(p) ==
  LET vol == volumeName(p)
  IN  InVolume(vol, Clean(SubSeq(p, Len(vol) + 1, LastSep(p, Len(vol)))))

(* readNextArg: one character after the other, with the argument so far, if it is in
   quotes, and the backslashes not written yet *)
BS(n) == [i \in 1..n |-> "\\"]
ArgInit == [b |-> <<>>, inquote |-> FALSE, nslash |-> 0, skip |-> FALSE, done |-> 0]

readChar(st, cmd, i) ==
  LET c == cmd[i]
      next == IF i < Len(cmd) THEN cmd[i + 1] ELSE ""
      flushed == [st EXCEPT !.b = @ \o BS(st.nslash), !.nslash = 0]
  IN  IF st.done # 0 THEN st
      ELSE IF st.skip THEN [st EXCEPT !.skip = FALSE]
      ELSE IF c = " " /\ ~st.inquote THEN [flushed EXCEPT !.done = i]
      ELSE IF c = "\\" THEN [st EXCEPT !.nslash = @ + 1]
      ELSE IF c # "q" THEN [flushed EXCEPT !.b = Append(@, c)]
      ELSE LET half == [st EXCEPT !.b = @ \o BS(st.nslash \div 2), !.nslash = 0]
               twice == st.inquote /\ next = "q"
           IN  IF st.nslash % 2 = 1 THEN [half EXCEPT !.b = Append(@, c)]
               ELSE [half EXCEPT !.b = IF twice THEN Append(@, c) ELSE @, !.skip = twice, !.inquote = ~@]

readNextArg(cmd) ==
  LET st == FoldLeft(LAMBDA s, i : readChar(s, cmd, i), ArgInit, [i \in 1..Len(cmd) |-> i])
  IN  [arg |-> st.b \o BS(st.nslash),
       rest |-> IF st.done = 0 THEN <<>> ELSE SubSeq(cmd, st.done + 1, Len(cmd))]

(* commandLineToArgv *)
RECURSIVE commandLineToArgv(_)
commandLineToArgv(cmd) ==
  IF cmd = <<>> THEN <<>>
  ELSE IF cmd[1] = " " THEN commandLineToArgv(Tail(cmd))
  ELSE LET r == readNextArg(cmd) IN <<r.arg>> \o commandLineToArgv(r.rest)

(* How Windows programs write an argument so that it can be read back: in quotes, a
   quote behind a backslash, and the backslashes before a quote doubled.  "q" stands
   for the quote. *)
EscapeArg(a) ==
  LET add(st, c) ==
        IF c = "\\" THEN [b |-> Append(st.b, c), n |-> st.n + 1]
        ELSE IF c = "q" THEN [b |-> st.b \o BS(st.n) \o <<"\\", "q">>, n |-> 0]
        ELSE [b |-> Append(st.b, c), n |-> 0]
      st == FoldLeft(add, [b |-> <<"q">>, n |-> 0], a)
  IN  st.b \o BS(st.n) \o <<"q">>

----------------------------------------------------------------------------
WindowsPaths == BoundedSeq({"a", ".", "/", "\\"}, MaxPath)
         \cup {<<"a", ":">> \o p : p \in BoundedSeq({"a", ".", "/", "\\"}, MaxPath - 2)}
Args == BoundedSeq({"a", " ", "q", "\\"}, MaxArg)

WindowsInit == call = None /\ result = None

CallPath ==
  /\ call = None
  /\ \E p \in WindowsPaths :
       /\ call' = [op |-> "path", path |-> p]
       /\ result' = [clean |-> Clean(p), dir |-> Dir(p), base |-> Base(p)]

CallSplit ==
  /\ call = None
  /\ \E x, y \in Args, quoted \in BOOLEAN :
       /\ quoted \/ (x # <<>> /\ \A c \in {" ", "q"} : ~Contains(x, c))
       /\ call' = [op |-> "split", args |-> <<x, y>>]
       /\ result' = commandLineToArgv((IF quoted THEN EscapeArg(x) ELSE x) \o <<" ">> \o EscapeArg(y))

WindowsNext == CallPath \/ CallSplit

Called(op) == call # None /\ call.op = op

(* Clean leaves nothing to clean and does not change whether a path is absolute or the
   volume it is on (windowsFilepath.Clean) *)
CleanIsStable ==
  Called("path") =>
    /\ Clean(result.clean) = result.clean
    /\ IsAbs(call.path) = IsAbs(result.clean)
    /\ FromSlash(volumeName(call.path)) = volumeName(result.clean)

(* The directory and the name of a path lead back to it (windowsFilepath.Dir, Base) *)
DirAndBaseAgree ==
  Called("path") /\ call.path # <<>> /\ ~isPathSeparator(Last(call.path)) /\ Len(call.path) > volumeNameLen(call.path) =>
    Clean(result.dir \o <<Sep>> \o result.base) = result.clean

(* An argument written by the rules of Windows is read back as it was, whatever
   spaces, quotes and backslashes it has (readNextArg) *)
ArgsAreRead == Called("split") => result = call.args
=============================================================================
