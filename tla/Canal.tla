-------------------------------- MODULE Canal --------------------------------
(***************************************************************************)
(* Canal of sql/binlogsync on top of a BinlogSyncer: the goroutine of Start*)
(* takes the events, calls the handlers of the tables and keeps the        *)
(* position; Close, CatchMasterPos and a crash with a restart beside it.   *)
(***************************************************************************)
EXTENDS BinlogSyncer

CONSTANTS Tables,           \* the tables of the database
          Include, Exclude, \* the tables that match the regular expressions
          Handlers,         \* handler -> the table it is registered for, NoTable for all
          Statements,       \* the sequences of tables that a statement changes
          MaxFiles,         \* a bound on the files of the log
          Scenarios         \* a log, the start position and the presence of a Setter in the options,
                            \* and bounds on how often each of the outside events happens

(* A log has one or more files, and a file ends with a rotate event when    *)
(* there is another one behind it.                                          *)
Kinds == {"none", "format", "rotate", "map", "rows", "xid", "alter", "drop", "other"}
Entries == [kind : Kinds, table : Tables \cup {NoTable}, end : BOOLEAN]
IsLog(l) ==
  /\ l \in Seq(Seq(Entries)) /\ l # <<>>
  /\ \A f \in DOMAIN l : \A i \in DOMAIN l[f] :
       /\ l[f][i].kind = "rotate" <=> f < Len(l) /\ i = Len(l[f])
       /\ l[f][i].kind = "rows" => l[f][i].table \in Tables

(* The position of the options, if there is one, is one of the log.         *)
ASSUME CanalAssumption ==
  /\ NoTable \notin Tables /\ Tables \subseteq STRING /\ Statements \subseteq Seq(Tables)
  /\ \A s \in Scenarios :
       /\ IsLog(s.log)
       /\ s.from # NoPos => /\ s.from \in Nat \X Nat /\ s.from[1] \in DOMAIN s.log
                            /\ s.from[2] \in 4..(4 + Len(s.log[s.from[1]]))

VARIABLES status,     \* masterStatus
          saved,      \* the position in the configuration
          run,        \* the goroutine: "idle", "check", "start", "get", "flush", "rows", "join", "do", "ended", "panic"
          pos, ev,    \* its local position and event
          table,      \* the version of the table it found, and whether another goroutine loaded it
          todo, interrupted,
          cache,      \* ddl.Tables: table -> -1 (unknown), -2 (empty), or a version
          flight,     \* FindTable of another goroutine inside of tableSFG
          byOptions,  \* the start position came from the options
          setter,     \* opts.ConfigSet is not nil
          closed, syncerNil, db,
          cpc, cres,  \* Close, and what its calls returned
          wpc, target,\* WaitUntilPos
          first, called, before, missed, skipped,  \* history
          budget

loopVars == <<pos, ev, table, todo, interrupted>>
canalVars == <<status, saved, run, loopVars, cache, flight>>
closeVars == <<closed, syncerNil, db, cpc, cres>>
waitVars == <<wpc, target>>
restVars == <<byOptions, setter, first, before, skipped>>
vars == <<log, syncerVars, canalVars, closeVars, waitVars, restVars, called, missed, budget>>

(* The tables as the server has them now, and when it wrote an event.       *)
Earlier(a, b) == a[1] < b[1] \/ (a[1] = b[1] /\ a[2] < b[2])
Ids == UNION {{<<f, i>> : i \in DOMAIN log[f]} : f \in DOMAIN log}
Changes(t) == {id \in Ids : LET e == log[id[1]][id[2]] IN e.kind \in {"alter", "drop"} /\ e.table = t}
Version(t) == Cardinality(Changes(t))
VersionAt(t, id) == Cardinality({c \in Changes(t) : Earlier(c, id)})
Exists(t) == \A c \in Changes(t) : log[c[1]][c[2]].kind # "drop"

Alive == run # "panic" /\ cpc # "panic"
Spend(what) == budget[what] > 0 /\ budget' = [budget EXCEPT ![what] = @ - 1]
-----------------------------------------------------------------------------
(* The server writes a statement, changes a table, starts a new file.       *)
Commit(ts) ==
  /\ Spend("commit") /\ \A i \in DOMAIN ts : Exists(ts[i])
  /\ Write(Statement(ts))
  /\ UNCHANGED <<syncerVars, canalVars, closeVars, waitVars, restVars, called, missed>>

ChangeTable(t, kind) ==
  /\ Spend("ddl") /\ Exists(t)
  /\ Write(<<Entry(kind, t, FALSE)>>)
  /\ UNCHANGED <<syncerVars, canalVars, closeVars, waitVars, restVars, called, missed>>

Rotate ==
  /\ Spend("flush") /\ Len(log) < MaxFiles
  /\ Flush
  /\ UNCHANGED <<syncerVars, canalVars, closeVars, waitVars, restVars, called, missed>>

Fault ==
  /\ Alive /\ Spend("break") /\ (Break \/ ReadError)
  /\ UNCHANGED <<canalVars, closeVars, waitVars, restVars, called, missed>>

Stream ==
  /\ Alive /\ onStream
  /\ UNCHANGED <<canalVars, closeVars, waitVars, restVars, called, missed, budget>>
-----------------------------------------------------------------------------
(* NewCanal with withUpdateBinlogStart: the position of the options, if it  *)
(* is complete, else that of the server.                                    *)
StartPos(p) == IF p[1] > 0 /\ p[2] > 0 THEN p ELSE MasterPos

NoFlight == [pc |-> "idle", table |-> NoTable, result |-> -1]

CanalInit ==
  /\ saved = NoPos /\ run = "idle" /\ pos = NoPos /\ ev = Artificial("none", NoPos)
  /\ table = [version |-> -1, shared |-> FALSE] /\ todo = {} /\ interrupted = FALSE
  /\ cache = [t \in Tables |-> -1] /\ flight = NoFlight
  /\ closed = FALSE /\ syncerNil = FALSE /\ db = "open" /\ cpc = "idle" /\ cres = <<>>
  /\ wpc = "idle" /\ target = NoPos
  /\ called = [h \in DOMAIN Handlers |-> <<>>] /\ before = [h \in DOMAIN Handlers |-> {}]
  /\ missed = {} /\ skipped = FALSE

Init == \E s \in Scenarios :
          /\ log = s.log /\ budget = s.budget /\ SyncerInit
          /\ status = StartPos(s.from) /\ byOptions = (s.from # NoPos) /\ setter = s.setter
          /\ first = status /\ CanalInit

(* The process dies, and is started again with the saved position in its    *)
(* options.                                                                 *)
Restart ==
  /\ Spend("crash")
  /\ NewSyncer /\ UNCHANGED log
  /\ status' = StartPos(saved) /\ byOptions' = (StartPos(saved) = saved)
  /\ skipped' = (skipped \/ StartPos(saved) # saved)
  /\ before' = [h \in DOMAIN Handlers |-> before[h] \cup {called[h][k].id : k \in DOMAIN called[h]}]
  /\ called' = [h \in DOMAIN Handlers |-> <<>>]
  /\ run' = "idle" /\ pos' = NoPos /\ ev' = Artificial("none", NoPos)
  /\ table' = [version |-> -1, shared |-> FALSE] /\ todo' = {} /\ interrupted' = FALSE
  /\ cache' = [t \in Tables |-> -1] /\ flight' = NoFlight
  /\ closed' = FALSE /\ syncerNil' = FALSE /\ db' = "open" /\ cpc' = "idle" /\ cres' = <<>>
  /\ wpc' = "idle" /\ target' = NoPos
  /\ UNCHANGED <<saved, setter, first, missed>>
-----------------------------------------------------------------------------
(* Start and run.                                                           *)
Start ==
  /\ Alive /\ run \in {"idle", "ended"} /\ Spend("start")
  /\ run' = "check"
  /\ UNCHANGED <<log, syncerVars, status, saved, loopVars, cache, flight, closeVars, waitVars, restVars, called, missed>>

(* startSyncBinlog: c.syncer is read for the comparison and once more for   *)
(* the call.                                                                *)
CheckSyncer ==
  /\ Alive /\ run = "check"
  /\ run' = IF syncerNil THEN "ended" ELSE "start"
  /\ pos' = status
  /\ UNCHANGED <<log, syncerVars, status, saved, ev, table, todo, interrupted, cache, flight,
                 closeVars, waitVars, restVars, called, missed, budget>>

CallStartSync ==
  /\ Alive /\ run = "start"
  /\ \/ syncerNil /\ run' = "panic" /\ UNCHANGED <<log, syncerVars>>
     \/ ~syncerNil /\ StartSync(pos) /\ run' = "get"
     \/ ~syncerNil /\ StartSyncFails /\ run' = "ended"
  /\ UNCHANGED <<status, saved, loopVars, cache, flight, closeVars, waitVars, restVars, called, missed, budget>>

(* masterSave: the position is written to the configuration at most once a  *)
(* second and if there is a Setter, which may fail.                         *)
masterSave(p) == status' = p /\ saved' \in IF setter THEN {saved, p} ELSE {saved}

(* GetEvent returns an error of the stream, or that of the context: two     *)
(* seconds without an event, or Start's own context.  The comparison with   *)
(* context.DeadlineExceeded is never true, as GetEvent wraps the error.     *)
GetError ==
  /\ Alive /\ run = "get" /\ errChan > 0
  /\ errChan' = errChan - 1 /\ run' = "ended"
  /\ UNCHANGED <<log, dump, con, mu, running, ctxDone, deadline, parserVars, nextPos, spc, hand, bleChan, pushed,
                 status, saved, loopVars, cache, flight, closeVars, waitVars, restVars, called, missed, budget>>

GetTimeout ==
  /\ Alive /\ run = "get" /\ Spend("stop")
  /\ run' = "ended"
  /\ UNCHANGED <<log, syncerVars, status, saved, loopVars, cache, flight, closeVars, waitVars, restVars, called, missed>>

Saves == {"map", "format", "xid", "alter", "drop"}

\* as TakeEvent, but a change of a table leaves the cache alone
TakeEventKeepsCache ==
  /\ Alive /\ run = "get" /\ bleChan # <<>>
  /\ \E e \in {Head(bleChan)}, p \in {<<pos[1], Head(bleChan).logPos>>} :
       /\ ev' = e /\ bleChan' = Tail(bleChan)
       /\ pos' = IF e.kind = "rotate" THEN e.to ELSE p
       /\ run' = CASE e.kind = "rotate" -> "flush" [] e.kind = "rows" -> "rows" [] OTHER -> "get"
       /\ UNCHANGED cache
       /\ IF e.kind \in Saves THEN masterSave(p) ELSE UNCHANGED <<status, saved>>
  /\ UNCHANGED <<log, dump, con, mu, running, ctxDone, deadline, parserVars, nextPos, spc, hand, errChan, pushed,
                 table, todo, interrupted, flight, closeVars, waitVars, restVars, called, missed, budget>>

(* The loop of startSyncBinlog up to the handlers.                          *)
TakeEvent ==
  /\ Alive /\ run = "get" /\ bleChan # <<>>
  /\ \E e \in {Head(bleChan)}, p \in {<<pos[1], Head(bleChan).logPos>>} :
       /\ ev' = e /\ bleChan' = Tail(bleChan)
       /\ pos' = IF e.kind = "rotate" THEN e.to ELSE p
       /\ run' = CASE e.kind = "rotate" -> "flush" [] e.kind = "rows" -> "rows" [] OTHER -> "get"
       /\ cache' = IF e.kind \in {"alter", "drop"} THEN [t \in Tables |-> -1] ELSE cache
       /\ IF e.kind \in Saves THEN masterSave(p) ELSE UNCHANGED <<status, saved>>
  /\ UNCHANGED <<log, dump, con, mu, running, ctxDone, deadline, parserVars, nextPos, spc, hand, errChan, pushed,
                 table, todo, interrupted, flight, closeVars, waitVars, restVars, called, missed, budget>>

(* flushEventHandlers: only an Interrupted error of a handler counts.       *)
FlushHandlers(ok) ==
  /\ Alive /\ run = "flush"
  /\ IF ok THEN masterSave(pos) /\ run' = "get" ELSE run' = "ended" /\ UNCHANGED <<status, saved>>
  /\ UNCHANGED <<log, syncerVars, loopVars, cache, flight, closeVars, waitVars, restVars, called, missed, budget>>

(* isTableAllowed; a table of another database is skipped like one that is  *)
(* not allowed.                                                             *)
Allowed(t) == (Include = {} /\ Exclude = {}) \/ t \in Include \ Exclude
HandlersOf(t) == {h \in DOMAIN Handlers : Handlers[h] \in {t, NoTable}}

(* WithCreateTable: a load that fails leaves an empty table in the cache.   *)
Loads(t, ok) == ok /\ Exists(t) /\ db = "open"
Loaded(t, ok) == [cache EXCEPT ![t] = IF Loads(t, ok) THEN Version(t) ELSE -2]
LoadError(ok) == IF ok /\ db = "open" THEN -1 ELSE -3

(* What handleRowsEvent does with the result of FindTable: a version, or    *)
(* -1 for NotFound, which is ignored, or -3 for another error.              *)
GotTable(r, shared) ==
  CASE r = -1 -> missed' = missed \cup {[id |-> ev.id, shared |-> shared]} /\ run' = "get" /\ UNCHANGED <<table, todo>>
    [] r = -3 -> run' = "ended" /\ UNCHANGED <<missed, table, todo>>
    [] OTHER -> /\ table' = [version |-> r, shared |-> shared] /\ todo' = HandlersOf(ev.table)
                /\ run' = "do" /\ UNCHANGED missed

(* handleRowsEvent with FindTable.                                          *)
HandleRows(ok) ==
  /\ Alive /\ run = "rows"
  /\ LET t == ev.table
     IN  CASE ~Allowed(t) -> masterSave(pos) /\ run' = "get" /\ UNCHANGED <<table, todo, missed, cache>>
           [] Allowed(t) /\ cache[t] # -1 -> GotTable(cache[t], FALSE) /\ UNCHANGED <<status, saved, cache>>
           [] Allowed(t) /\ cache[t] = -1 /\ flight.table = t ->
                run' = "join" /\ UNCHANGED <<status, saved, table, todo, missed, cache>>
           [] OTHER ->
                /\ cache' = Loaded(t, ok)
                /\ GotTable(IF Loads(t, ok) THEN Version(t) ELSE LoadError(ok), FALSE)
                /\ UNCHANGED <<status, saved>>
  /\ UNCHANGED <<log, syncerVars, pos, ev, interrupted, flight, closeVars, waitVars, restVars, called, budget>>

(* FindTable of another goroutine: the load and the look-up inside of the   *)
(* call of tableSFG, and its end, with which a waiting run goes on.         *)
FindTable(t) ==
  /\ Alive /\ Allowed(t) /\ cache[t] = -1 /\ flight = NoFlight /\ Spend("find")
  /\ flight' = [pc |-> "load", table |-> t, result |-> -1]
  /\ UNCHANGED <<log, syncerVars, status, saved, run, loopVars, cache, closeVars, waitVars, restVars, called, missed>>

FlightLoad(ok) ==
  /\ Alive /\ flight.pc = "load"
  /\ cache' = Loaded(flight.table, ok)
  /\ flight' = IF Loads(flight.table, ok) THEN [flight EXCEPT !.pc = "get"]
               ELSE [flight EXCEPT !.pc = "done", !.result = LoadError(ok)]
  /\ UNCHANGED <<log, syncerVars, status, saved, run, loopVars, closeVars, waitVars, restVars, called, missed, budget>>

FlightGet ==
  /\ Alive /\ flight.pc = "get"
  /\ flight' = [flight EXCEPT !.pc = "done", !.result = cache[flight.table]]
  /\ UNCHANGED <<log, syncerVars, status, saved, run, loopVars, cache, closeVars, waitVars, restVars, called, missed, budget>>

FlightEnd ==
  /\ Alive /\ flight.pc = "done"
  /\ flight' = NoFlight
  /\ IF run = "join" THEN GotTable(flight.result, TRUE) ELSE UNCHANGED <<run, table, todo, missed>>
  /\ UNCHANGED <<log, syncerVars, status, saved, pos, ev, interrupted, cache, closeVars, waitVars, restVars, called, budget>>

(* Do of one handler, and the end of processRowsEventHandler.               *)
Do(h, ok) ==
  /\ Alive /\ run = "do" /\ h \in todo
  /\ todo' = todo \ {h} /\ interrupted' = (interrupted \/ ~ok)
  /\ called' = [called EXCEPT ![h] = Append(@, [id |-> ev.id, table |-> table])]
  /\ UNCHANGED <<log, syncerVars, status, saved, run, pos, ev, table, cache, flight, closeVars, waitVars, restVars, missed, budget>>

\* as HandlersDone, but the handlers are not waited for
HandlersNotAwaited ==
  /\ Alive /\ run = "do"
  /\ IF interrupted THEN run' = "ended" /\ UNCHANGED <<status, saved>> ELSE masterSave(pos) /\ run' = "get"
  /\ interrupted' = FALSE
  /\ UNCHANGED <<log, syncerVars, pos, ev, table, todo, cache, flight, closeVars, waitVars, restVars, called, missed, budget>>

HandlersDone ==
  /\ Alive /\ run = "do" /\ todo = {}
  /\ IF interrupted THEN run' = "ended" /\ UNCHANGED <<status, saved>> ELSE masterSave(pos) /\ run' = "get"
  /\ interrupted' = FALSE
  /\ UNCHANGED <<log, syncerVars, pos, ev, table, todo, cache, flight, closeVars, waitVars, restVars, called, missed, budget>>
-----------------------------------------------------------------------------
(* Close, under the mutex mclose.                                           *)
CloseCalled ==
  /\ Alive /\ ~closed /\ Spend("close")
  /\ closed' = TRUE /\ cpc' = "syncer"
  /\ UNCHANGED <<log, syncerVars, canalVars, syncerNil, db, cres, waitVars, restVars, called, missed>>

(* A later call finds the flag set and returns nil, whatever the first one  *)
(* has returned.                                                            *)
CloseAgain ==
  /\ Alive /\ closed /\ cpc = "idle" /\ Spend("close")
  /\ cres' = Append(cres, "nil")
  /\ UNCHANGED <<log, syncerVars, canalVars, closed, syncerNil, db, cpc, waitVars, restVars, called, missed>>

CloseTheSyncer ==
  /\ Alive /\ cpc = "syncer"
  /\ CloseSyncer /\ cpc' = "wait"
  /\ UNCHANGED <<canalVars, closed, syncerNil, db, cres, waitVars, restVars, called, missed, budget>>

WaitForSyncer ==
  /\ Alive /\ cpc = "wait"
  /\ SyncerClosed /\ cpc' = "nil"
  /\ UNCHANGED <<canalVars, closed, syncerNil, db, cres, waitVars, restVars, called, missed, budget>>

ForgetSyncer ==
  /\ Alive /\ cpc = "nil"
  /\ syncerNil' = TRUE /\ cpc' = "onclose"
  /\ UNCHANGED <<log, syncerVars, canalVars, closed, db, cres, waitVars, restVars, called, missed, budget>>

(* OnClose, which is called even if it is nil, and dbcp.Close.              *)
OnClose(result) ==
  /\ Alive /\ cpc = "onclose"
  /\ CASE result = "panic" -> cpc' = "panic" /\ UNCHANGED <<db, cres>>
       [] result = "error" -> cpc' = "idle" /\ cres' = Append(cres, "error") /\ db' \in {db, "closed"}
       [] result = "nil" -> cpc' = "end" /\ db' = "closed" /\ UNCHANGED cres
  /\ UNCHANGED <<log, syncerVars, canalVars, closed, syncerNil, waitVars, restVars, called, missed, budget>>

CloseReturns ==
  /\ Alive /\ cpc = "end" /\ run \in {"idle", "ended"}
  /\ cpc' = "idle" /\ cres' = Append(cres, "nil")
  /\ UNCHANGED <<log, syncerVars, canalVars, closed, syncerNil, db, waitVars, restVars, called, missed, budget>>

(* CatchMasterPos; GetMasterPos fails if the start position came from the   *)
(* options, since its timeout is 0 then.                                    *)
CatchMasterPos ==
  /\ Alive /\ wpc = "idle" /\ ~byOptions /\ db = "open" /\ Spend("wait")
  /\ wpc' = "flush" /\ target' = MasterPos
  /\ UNCHANGED <<log, syncerVars, canalVars, closeVars, restVars, called, missed>>

(* WaitUntilPos: flushes the log (up to MaxFiles here) and compares.        *)
WaitUntilPos ==
  /\ Alive /\ wpc = "flush" /\ db = "open"
  /\ IF Len(log) < MaxFiles THEN Flush ELSE UNCHANGED log
  /\ wpc' = "compare"
  /\ UNCHANGED <<syncerVars, canalVars, closeVars, target, restVars, called, missed, budget>>

ComparePos ==
  /\ Alive /\ wpc = "compare"
  /\ wpc' = IF Earlier(status, target) THEN "flush" ELSE "reached"
  /\ UNCHANGED <<log, syncerVars, canalVars, closeVars, target, restVars, called, missed, budget>>

WaitFails ==
  /\ Alive /\ wpc = "flush"
  /\ wpc' = "failed"
  /\ UNCHANGED <<log, syncerVars, canalVars, closeVars, target, restVars, called, missed, budget>>

Run == \/ CheckSyncer \/ CallStartSync \/ GetError \/ TakeEvent \/ HandlersDone
       \/ \E ok \in BOOLEAN : FlushHandlers(ok) \/ HandleRows(ok)
       \/ \E h \in DOMAIN Handlers, ok \in BOOLEAN : Do(h, ok)
Flight == FlightGet \/ FlightEnd \/ \E ok \in BOOLEAN : FlightLoad(ok)
Close == \/ CloseTheSyncer \/ WaitForSyncer \/ ForgetSyncer \/ CloseReturns
         \/ \E r \in {"panic", "error", "nil"} : OnClose(r)
Next == \/ \E ts \in Statements : Commit(ts)
        \/ \E t \in Tables, kind \in {"alter", "drop"} : ChangeTable(t, kind)
        \/ Rotate \/ Fault \/ Stream \/ Restart \/ Start \/ Run \/ GetTimeout
        \/ (\E t \in Tables : FindTable(t)) \/ Flight
        \/ CloseCalled \/ CloseAgain \/ Close
        \/ CatchMasterPos \/ WaitUntilPos \/ ComparePos \/ WaitFails

(* Every goroutine goes on, and the server does not refuse for ever.        *)
Fairness == /\ WF_vars(Stream) /\ SF_vars(retrySync(TRUE) /\ Stream)
            /\ WF_vars(Run) /\ WF_vars(Flight) /\ WF_vars(Close)
Spec == Init /\ [][Next]_vars /\ Fairness
-----------------------------------------------------------------------------
(* What the position promises: every handler that is registered for the     *)
(* table of a rows event between the first position and masterStatus, or    *)
(* the saved position, was called with it, by this process or one before    *)
(* it, in the order of the log and once a process.  Events whose table was  *)
(* not found are passed over.  Once a restart has taken the position of the *)
(* server in place of the saved one, the events in between are lost, and    *)
(* nothing more is said about any event (skipped).                          *)
Covers(p, id) == Earlier(first, <<id[1], 4 + id[2]>>) /\ ~Earlier(p, <<id[1], 4 + id[2]>>)
Handled(h, id) == id \in before[h] \/ \E k \in DOMAIN called[h] : called[h][k].id = id
SyncedMeansHandled ==
  /\ \A h \in DOMAIN Handlers : \A k \in 1..(Len(called[h]) - 1) : Earlier(called[h][k].id, called[h][k + 1].id)
  /\ \A id \in Ids : LET e == log[id[1]][id[2]] IN
       e.kind = "rows" /\ Allowed(e.table) /\ (Covers(status, id) \/ Covers(saved, id)) =>
         \/ skipped \/ \E m \in missed : m.id = id
         \/ \A h \in HandlersOf(e.table) : Handled(h, id)

(* A handler gets the structure that the table had at the event, or a later *)
(* one, and an event is passed over only if its table is gone.  Neither     *)
(* holds if FindTable took part in the load of another goroutine, which may *)
(* be older than the change; a failed load leaves a table without columns.  *)
StructureIsRecent ==
  /\ \A h \in DOMAIN Handlers : \A k \in DOMAIN called[h] : LET c == called[h][k] IN
       c.table.shared \/ c.table.version = -2 \/ c.table.version >= VersionAt(log[c.id[1]][c.id[2]].table, c.id)
  /\ \A m \in missed : m.shared \/ ~Exists(log[m.id[1]][m.id[2]].table)

(* Close returns, unless its goroutines deadlock over the mutex of the      *)
(* syncer or a panic ends the process.  Once a call has returned, the       *)
(* stream has ended and its connection is closed; if the first call         *)
(* returned no error, the goroutine of Start has ended and the database is  *)
(* closed too.  A nil of a later call promises no more than the first call  *)
(* did: after an error of OnClose it is returned over an open database,     *)
(* although Close "closes all underlying connections" (canal.go:422).       *)
CloseEnds ==
  /\ cpc # "idle" ~> cpc = "idle" \/ ~Alive \/ Deadlocked
  /\ [](cres # <<>> =>
          /\ spc \in {"none", "ended"} /\ con = "nil"
          /\ Head(cres) = "nil" => run \notin {"get", "flush", "rows", "join", "do"} /\ db = "closed")

(* While it is consumed, a stream delivers the whole log or ends with an    *)
(* error: a connection that breaks is opened again where it broke, as long  *)
(* as Close does not wait for it.                                           *)
LogIsFollowed ==
  spc \notin {"none", "ended"} ~> \/ spc \in {"none", "ended"} \/ run = "ended" \/ ~Alive \/ Deadlocked
                                  \/ (spc = "read" /\ nextPos = MasterPos)
=============================================================================
