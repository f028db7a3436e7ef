----------------------------- MODULE DdlTables -----------------------------
(***************************************************************************)
(* sql/ddl: Tables, the cache of the table objects of a schema, with its   *)
(* options, and the tables of the database that it speaks about.           *)
(*                                                                         *)
(* A table of the database is the sequence of its columns, <<>> when there *)
(* is none; a table object has its columns, its listeners and its          *)
(* connection, 0 for nil.  An option is [opt, order, ...]; goroutines call *)
(* Options with a sequence of them, and the other methods of Tables.       *)
(* loaded, unsettled and valid are history: the tables as LoadColumns saw  *)
(* them and nobody has changed since; whether a table may have another     *)
(* connection than Tables; whether the last thing done was a Validate      *)
(* that returned nil.                                                      *)
(***************************************************************************)
EXTENDS Naturals, Sequences, FiniteSets, SequencesExt

CONSTANTS Names, Goroutines, Scenarios    \* a scenario: [db, calls, ddl, faults], the calls of each goroutine

VARIABLES scen, db, tm, tmDB, mu,         \* the database, Tables.tm, DB and mu
          todo, opts,                     \* goroutine -> its calls, and the options it has still to apply
          half,                           \* goroutine -> names that WithCreateTable has to load, or <<>>
          ddl, faults, loaded, unsettled, valid

vars == <<scen, db, tm, tmDB, mu, todo, opts, half, ddl, faults, loaded, unsettled, valid>>

NoTable == [cols |-> <<>>, listeners |-> <<>>, db |-> 0, id |-> 0]
NewTable(cs) == [NoTable EXCEPT !.cols = cs, !.id = 1]
Known == {n \in Names : tm[n] # NoTable}

(* The options in the order of their sortOrder, which is stable.            *)
Sorted(s) == SortSeq([i \in DOMAIN s |-> <<i, s[i]>>],
                     LAMBDA a, b : a[2].order < b[2].order \/ (a[2].order = b[2].order /\ a[1] < b[1]))
Idle(p) == opts[p] = <<>>

Init ==
  /\ scen \in Scenarios /\ db = scen.db /\ ddl = scen.ddl /\ faults = scen.faults
  /\ tm = [n \in Names |-> NoTable] /\ tmDB = 0 /\ mu = 0
  /\ todo = scen.calls /\ opts = [p \in Goroutines |-> <<>>] /\ half = [p \in Goroutines |-> <<>>]
  /\ loaded = {} /\ unsettled = FALSE /\ valid = FALSE
-----------------------------------------------------------------------------
\* as Upserted, but the new object takes the place of the old one
UpsertedPlain(old, new) == new

(* Upsert: the listeners of the old object go behind those of the new one,  *)
(* and its columns are taken if the new one has none.                       *)
Upserted(old, new) ==
  IF old = NoTable THEN new
  ELSE [new EXCEPT !.listeners = @ \o old.listeners, !.cols = IF @ = <<>> THEN old.cols ELSE @]

(* The names that exist before the first statement that fails.              *)
Executed(names, k) == {names[i] : i \in DOMAIN names \cap 1..k}
Points(names) == IF faults > 0 THEN 0..Len(names) ELSE {Len(names)}
Fail(p) == opts' = [opts EXCEPT ![p] = <<>>] /\ unsettled' = TRUE
Applied(p) == opts' = [opts EXCEPT ![p] = Tail(@)]
Fault(b) == faults' = IF b THEN faults - 1 ELSE faults

(* WithTable.                                                               *)
WithTable(p, o) ==
  /\ mu = 0 /\ tm' = [tm EXCEPT ![o.name] = Upserted(@, NewTable(o.cols))] /\ loaded' = loaded \ {o.name}
  /\ Applied(p) /\ UNCHANGED <<db, tmDB, mu, half, faults, unsettled>>

(* WithDropTable drops in the database, and leaves the cache alone.         *)
WithDropTable(p, o) ==
  /\ mu = 0
  /\ \E k \in Points(o.names) :
       /\ db' = [n \in Names |-> IF n \in Executed(o.names, k) THEN <<>> ELSE db[n]]
       /\ loaded' = loaded \ Executed(o.names, k) /\ Fault(k < Len(o.names))
       /\ IF k < Len(o.names) THEN Fail(p) ELSE Applied(p) /\ UNCHANGED unsettled
  /\ UNCHANGED <<tm, tmDB, mu, half>>

(* WithCreateTable: a new object for each name, and its CREATE statement,   *)
(* if there is one (cols); the mutex is held until the columns are loaded.  *)
WithCreateTable(p, o) ==
  /\ mu = 0
  /\ \E k \in IF o.cols = <<>> THEN {Len(o.names)} ELSE Points(o.names) :
       /\ tm' = [n \in Names |-> IF n \in Executed(o.names, k + 1) THEN NewTable(<<>>) ELSE tm[n]]
       /\ db' = [n \in Names |-> IF n \in Executed(o.names, k) /\ db[n] = <<>> THEN o.cols ELSE db[n]]
       /\ loaded' = loaded \ ToSet(o.names) /\ Fault(k < Len(o.names))
       /\ IF k < Len(o.names) THEN Fail(p) /\ UNCHANGED <<mu, half>>
          ELSE mu' = p /\ half' = [half EXCEPT ![p] = o.names] /\ UNCHANGED <<opts, unsettled>>
  /\ UNCHANGED tmDB

(* LoadColumns fails if none of the tables is there; one that is missing    *)
(* beside others gets no columns.                                           *)
LoadColumns(p) ==
  /\ mu = p /\ mu' = 0 /\ half' = [half EXCEPT ![p] = <<>>]
  /\ \E fails \in {FALSE} \cup (IF faults > 0 THEN {TRUE} ELSE {}) :
       /\ Fault(fails)
       /\ IF fails \/ \A n \in ToSet(half[p]) : db[n] = <<>>
          THEN Fail(p) /\ UNCHANGED <<tm, loaded>>
          ELSE /\ tm' = [n \in Names |-> IF n \in ToSet(half[p]) THEN [tm[n] EXCEPT !.cols = db[n]] ELSE tm[n]]
               /\ loaded' = loaded \cup ToSet(half[p]) /\ Applied(p) /\ UNCHANGED unsettled
  /\ valid' = FALSE /\ UNCHANGED <<scen, db, tmDB, todo, ddl>>

(* WithDB: DB is written before the mutex is taken.                         *)
WithDB(p, o) ==
  IF o.opt = "db"
  THEN /\ tmDB' = o.db /\ opts' = [opts EXCEPT ![p][1].opt = "dbAll"] /\ UNCHANGED <<db, tm, mu, half, faults, loaded, unsettled>>
  ELSE /\ mu = 0 /\ tm' = [n \in Names |-> IF n \in Known THEN [tm[n] EXCEPT !.db = o.db] ELSE NoTable]
       /\ Applied(p) /\ UNCHANGED <<db, tmDB, mu, half, faults, loaded, unsettled>>

(* WithTableDMLListeners.                                                   *)
WithTableDMLListeners(p, o) ==
  /\ mu = 0
  /\ IF o.name \in Known
     THEN tm' = [tm EXCEPT ![o.name].listeners = Append(@, o.listener)] /\ Applied(p) /\ UNCHANGED unsettled
     ELSE Fail(p) /\ UNCHANGED tm
  /\ UNCHANGED <<db, tmDB, mu, half, faults, loaded>>

(* The end of Options: all objects get the connection of Tables.            *)
Finish(p, o) ==
  /\ mu = 0 /\ tm' = [n \in Names |-> IF n \in Known THEN [tm[n] EXCEPT !.db = tmDB] ELSE NoTable]
  /\ unsettled' = FALSE /\ Applied(p) /\ UNCHANGED <<db, tmDB, mu, half, faults, loaded>>

Apply(p) ==
  /\ ~Idle(p) /\ half[p] = <<>>
  /\ LET o == Head(opts[p]) IN
     CASE o.opt = "table" -> WithTable(p, o) [] o.opt = "drop" -> WithDropTable(p, o)
       [] o.opt = "create" -> WithCreateTable(p, o) [] o.opt \in {"db", "dbAll"} -> WithDB(p, o)
       [] o.opt = "listen" -> WithTableDMLListeners(p, o) [] OTHER -> Finish(p, o)
  /\ valid' = FALSE /\ UNCHANGED <<scen, todo, ddl>>
-----------------------------------------------------------------------------
(* Validate: the tables found in the database are counted and compared with *)
(* those in the cache; if the cache is empty all tables are found.  Without *)
(* a connection LoadColumns panics; the mutex is released, and the caller   *)
(* does nothing more.                                                       *)
ValidateCount == Known # {} /\ Cardinality({n \in Known : db[n] # <<>>}) = Cardinality(Known)
Validate == tmDB # 0 /\ ValidateCount /\ \A n \in Known : IsPrefix(tm[n].cols, db[n])

(* A goroutine begins its next call; all but Options are one step.          *)
Call(p) ==
  /\ Idle(p) /\ todo[p] # <<>>
  /\ LET c == Head(todo[p]) IN
     /\ todo' = [todo EXCEPT ![p] = IF c.call = "validate" /\ tmDB = 0 THEN <<>> ELSE Tail(@)]
     /\ CASE c.call = "options" -> /\ opts' = [opts EXCEPT ![p] = [i \in DOMAIN c.opts |-> Sorted(c.opts)[i][2]] \o <<[opt |-> "finish"]>>]
                                   /\ UNCHANGED tm
          [] c.call = "upsert" -> /\ mu = 0 /\ UNCHANGED opts
                                  /\ tm' = [tm EXCEPT ![c.name] = Upserted(@, [NewTable(c.cols) EXCEPT !.listeners = c.listeners])]
          [] c.call = "delete" -> mu = 0 /\ UNCHANGED opts /\ tm' = [n \in Names |-> IF n \in c.names THEN NoTable ELSE tm[n]]
          [] OTHER -> mu = 0 /\ UNCHANGED <<opts, tm>>
     /\ unsettled' = (unsettled \/ c.call = "upsert")
     /\ loaded' = CASE c.call = "upsert" -> loaded \ {c.name} [] c.call = "delete" -> loaded \ c.names [] OTHER -> loaded
     /\ valid' = (c.call = "validate" /\ Validate)
  /\ UNCHANGED <<scen, db, tmDB, mu, half, ddl, faults>>

(* Table.Rename, Swap and Drop, or another client: only the database        *)
(* changes.                                                                 *)
Rename(n, m) == db[n] # <<>> /\ db[m] = <<>> /\ db' = [db EXCEPT ![n] = <<>>, ![m] = db[n]]
Swap(n, m) == db[n] # <<>> /\ db[m] # <<>> /\ db' = [db EXCEPT ![n] = db[m], ![m] = db[n]]
Drop(n) == db[n] # <<>> /\ db' = [db EXCEPT ![n] = <<>>]
Change(n, m) ==
  /\ n # m /\ ddl > 0 /\ ddl' = ddl - 1 /\ (Rename(n, m) \/ Swap(n, m) \/ Drop(n))
  /\ loaded' = loaded \ {n, m} /\ valid' = FALSE
  /\ UNCHANGED <<scen, tm, tmDB, mu, todo, opts, half, faults, unsettled>>

Next == (\E p \in Goroutines : Call(p) \/ Apply(p) \/ LoadColumns(p)) \/ (\E n, m \in Names : Change(n, m))
Spec == Init /\ [][Next]_vars
-----------------------------------------------------------------------------
(* A table object that is replaced hands its listeners on, each once and in *)
(* their order; only WithCreateTable forgets them, against the comment of   *)
(* WithTableDMLListeners.                                                   *)
Creates(n) == \E p \in Goroutines : ~Idle(p) /\ Head(opts[p]).opt = "create" /\ n \in ToSet(Head(opts[p]).names)
ListenersStay ==
  \A n \in Names : n \in Known /\ tm'[n] # NoTable /\ ~Creates(n) =>
    SelectSeq(tm'[n].listeners, LAMBDA l : l \in ToSet(tm[n].listeners)) = tm[n].listeners

(* Between the calls all objects have the connection of Tables, whoever has *)
(* set it last, unless an Options has failed or Upsert has brought a new    *)
(* one; what LoadColumns has read is what is in the database until somebody *)
(* changes it; and Validate returns nil only if each object of the cache    *)
(* fits its table.                                                          *)
ObjectsAreTrue ==
  /\ (\A p \in Goroutines : Idle(p)) /\ ~unsettled => \A n \in Known : tm[n].db = tmDB
  /\ \A n \in loaded \cap Known : tm[n].cols = db[n]
  /\ valid => Known # {} /\ \A n \in Known : db[n] # <<>> /\ IsPrefix(tm[n].cols, db[n])

(* Every step of Options, Upsert, DeleteFromCache and Validate keeps both.  *)
TablesAreTrue == [][ListenersStay /\ ObjectsAreTrue']_vars
=============================================================================
