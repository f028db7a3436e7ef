------------------------------- MODULE Artisan -------------------------------
(***************************************************************************)
(* One SQL builder of sql/dml, shared by several goroutines, and the       *)
(* Artisan that each of them gets from it with WithArgs, Prepare or Clone: *)
(* it collects arguments and records and runs the statement many times.    *)
(***************************************************************************)
EXTENDS DmlBuilder

CONSTANTS Procs,      \* the goroutines; each has one Artisan
          Cases       \* a sequence of records [stmt, plain, supplies, exts, max]:
                      \* a statement, whether it has none of the forms that InOrder
                      \* is about, inputs that give a value to each of its place
                      \* holders, the arguments of a call, and for each goroutine
                      \* a bound on its calls

VARIABLES case,       \* the chosen index of Cases
          written,    \* what toSQL of this statement writes (never changes)
          disabled,   \* the builder's IsBuildCacheDisabled
          built,      \* the builder has written its SQL
          mem,        \* the byte arrays behind insertCachedSQL
          pc,         \* "new", "read" (inside of Insert.WithArgs), "open"
          pairs,      \* what Insert.WithArgs has read of the pairs and the Select
          art,        \* the Artisan of a goroutine
          given,      \* its inputs since it was made or reset (history)
          sent,       \* its last call
          past,       \* what has happened to it (history)
          calls

Table == Cases
Stmt == Table[case].stmt

vars == <<case, written, disabled, built, mem, pc, pairs, art, given, sent, past, calls>>
-----------------------------------------------------------------------------
(* Insert.toSQL adds the columns of the pairs to its columns; the cache     *)
(* makes writeBuildCache drop the parts.                                    *)
extend(stmt) == IF stmt.kind = "i" THEN [stmt EXCEPT !.columns = insertColumns(stmt)] ELSE stmt
discard(stmt) == IF stmt.kind = "i" THEN [stmt EXCEPT !.select = <<>>, !.pairs = <<>>, !.onDuplicateKeys = <<>>]
                 ELSE stmt

(* The builder before and after BuilderBase.buildToSQL.  To build once more,*)
(* with the cache disabled, writes the same.                                *)
newBuilder == [stmt |-> Stmt, cached |-> FALSE, ok |-> TRUE, sql |-> <<>>, names |-> <<>>]
buildToSQL(d) ==
  [stmt |-> IF written.ok /\ ~d THEN discard(extend(Stmt)) ELSE extend(Stmt), cached |-> written.ok /\ ~d,
   ok |-> written.ok, sql |-> written.sql, names |-> written.names]
Builder == IF built THEN buildToSQL(disabled) ELSE newBuilder

ASSUME BuildsOnce == \A c \in DOMAIN Table : toSQL(extend(Table[c].stmt)) = toSQL(Table[c].stmt)

(* A statement that writes nothing at all: a Union of one template and no   *)
(* StringReplace.                                                           *)
writesNothing(stmt) ==
  stmt.kind = "n" /\ Len(stmt.selects) = 1 /\ stmt.templateStmtCount = 0 /\ stmt.orderBys = <<>>

(* BuilderBase.withArtisan, after buildToSQL                                *)
newArtisan(b) ==
  [err |-> ~b.ok, empty |-> writesNothing(b.stmt), source |-> b.stmt.kind, sql |-> b.sql, names |-> b.names,
   qualifier |-> IF b.stmt.kind \in {"s", "u", "d"} THEN b.stmt.table ELSE "",
   template |-> IF b.stmt.kind = "n" THEN b.stmt.templateStmtCount ELSE 0,
   prepared |-> FALSE, args |-> <<>>, recs |-> <<>>, raw |-> <<>>, aliases |-> <<>>,
   buf |-> 0, len |-> 0, columnCount |-> 0, rowCount |-> 0, buildValues |-> FALSE,
   hasNamedArgs |-> 0, next |-> 0, interpolate |-> FALSE, expand |-> FALSE]

(* What Insert.WithArgs reads first, and its end                            *)
readPairs(stmt) ==
  [isSelect |-> stmt.kind = "i" /\ stmt.select # <<>>,
   args |-> IF stmt.kind # "i" THEN <<>>
            ELSE [i \in DOMAIN stmt.pairs |-> IF stmt.pairs[i].kind = "arg" THEN stmt.pairs[i].args[1] ELSE Unset]]

insertArtisan(a, stmt, read) ==
  IF read.isSelect THEN [a EXCEPT !.source = "I"]
  ELSE [a EXCEPT !.args = read.args, !.rowCount = stmt.rowCount, !.buildValues = stmt.isBuildValues,
                 !.columnCount = IF stmt.recordPlaceHolderCount > 0 THEN stmt.recordPlaceHolderCount
                                 ELSE Len(stmt.columns)]

WithArgsOf(b, read) ==
  IF b.stmt.kind = "i" THEN insertArtisan(newArtisan(b), b.stmt, read) ELSE newArtisan(b)
-----------------------------------------------------------------------------
(* The inputs: Int and Ints, Name, Record, Raw, WithQualifiedColumnsAliases,*)
(* Interpolate, ExpandPlaceHolders.  A record is an entity or a collection: *)
(* fields are its columns, noop the ones it skips, size 0 for an entity.    *)
supply(a, in) ==
  CASE in.op = "add" -> [a EXCEPT !.args = add(@, in.vals)]
    [] in.op = "Name" -> [a EXCEPT !.args = Append(@, Name(in.name))]
    [] in.op = "Record" -> [a EXCEPT !.recs = Append(@, in)]
    [] in.op = "Raw" -> [a EXCEPT !.raw = in.vals]
    [] in.op = "Aliases" -> [a EXCEPT !.aliases = in.names]
    [] in.op = "Interpolate" -> [a EXCEPT !.interpolate = TRUE]
    [] in.op = "ExpandPlaceHolders" -> [a EXCEPT !.expand = TRUE]

supplyAll(a, ins) == FoldLeft(supply, a, ins)

\* as Reset, but the arguments stay
ResetKeepsArgs(a) ==
  [a EXCEPT !.recs = <<>>, !.raw = <<>>, !.next = 0, !.buildValues = FALSE, !.len = 0]

Reset(a) ==
  [a EXCEPT !.recs = <<>>, !.args = <<>>, !.raw = <<>>, !.next = 0, !.buildValues = FALSE, !.len = 0]

(* Artisan.Clone: the options and the cached SQL stay, without a connection;*)
(* the caller sets it with WithDB.                                          *)
Clone(a) == [a EXCEPT !.raw = <<>>, !.args = <<>>, !.recs = <<>>]
-----------------------------------------------------------------------------
(* ColumnMapper.MapColumns, as the examples and the tests implement it: an  *)
(* entity adds one value per column, a collection one slice when a single   *)
(* column is asked for, else its entities one after the other.              *)
Field(r, c, i) == <<"v", r.rec, c, i>>

MapColumns(r, columns, as) ==
  LET known == SelectSeq(columns, LAMBDA c : c \in r.fields)
      asked == IF columns = <<>> THEN r.all ELSE known
      entity(xs, i) == FoldLeft(LAMBDA ys, c : add(ys, <<Field(r, c, i)>>), xs, asked)
      rows == [i \in 1..(IF r.size = 0 THEN 1 ELSE r.size) |-> i]
      slice == [i \in 1..r.size |-> Field(r, columns[1], i)]
  IN  CASE \E i \in DOMAIN columns : columns[i] \notin r.fields \cup r.noop -> [ok |-> FALSE, args |-> as]
        [] r.size > 0 /\ Len(columns) = 1 /\ columns[1] \notin r.noop -> [ok |-> TRUE, args |-> add(as, slice)]
        [] r.size > 0 /\ Len(columns) = 1 -> [ok |-> FALSE, args |-> as]
        [] OTHER -> [ok |-> TRUE, args |-> FoldLeft(entity, as, rows)]

(* Artisan.nextUnnamedArg                                                   *)
nextUnnamedArg(args, next) ==
  LET unnamed == SelectSeq(args, LAMBDA x : x.name = "")
  IN  IF next >= 0 /\ next < Len(unnamed)
      THEN [args |-> <<unnamed[next + 1]>>, next |-> next + 1] ELSE [args |-> <<>>, next |-> -1]

(* One name of qualifiedColumns in appendConvertedRecordsToArguments.  The  *)
(* records are tried one after the other; a qualifier that the first of     *)
(* them sets to the default stays for the others.                           *)
mapped(t, m) == [t EXCEPT !.ok = m.ok, !.found = TRUE, !.args = m.args]

tryRecord(a, id, t, r) ==
  LET rq == IF r.qualifier = "" /\ t.qualifier # "" THEN a.qualifier ELSE r.qualifier
      u == [t EXCEPT !.qualifier = IF rq # "" /\ @ = "" THEN a.qualifier ELSE @]
  IN  CASE ~t.ok -> t
        [] rq = u.qualifier -> mapped(u, MapColumns(r, <<id[2]>>, t.args))
        [] OTHER -> u

orUnnamed(acc, tried, unnamed) ==
  IF tried.found THEN [acc EXCEPT !.ok = tried.ok, !.args = tried.args]
  ELSE [acc EXCEPT !.args = @ \o unnamed.args, !.next = unnamed.next]

recordArgs(a, acc, id) ==
  orUnnamed(acc,
            FoldLeft(LAMBDA t, r : tryRecord(a, id, t, r),
                     [ok |-> TRUE, found |-> FALSE, args |-> acc.args,
                      qualifier |-> IF id[1] = ":" THEN "" ELSE id[1]], a.recs),
            nextUnnamedArg(a.args, acc.next))

nameArgs(a, acc, id) ==
  LET hits == SelectSeq(a.args, LAMBDA x : x.name = id[2] /\ id[2] # "")
  IN  CASE ~acc.ok -> acc
        [] id[1] = ":" /\ a.args # <<>> ->
             [acc EXCEPT !.args = @ \o IF hits = <<>> THEN <<>> ELSE <<hits[1]>>]
        [] OTHER -> recordArgs(a, acc, id)

(* The names of all copies of a Union template; each starts again with the  *)
(* first unnamed argument.                                                  *)
copyEnd(acc) == IF acc.ok THEN [acc EXCEPT !.next = 0] ELSE acc
orArguments(a, acc) == IF acc.ok /\ acc.args = <<>> THEN [acc EXCEPT !.args = a.args] ELSE acc

appendConvertedRecordsToArguments(a) ==
  LET copies == IF a.template = 0 THEN 1 ELSE a.template
      names == IF a.aliases # <<>> THEN a.aliases ELSE a.names
      copy(acc, i) == copyEnd(FoldLeft(LAMBDA x, id : nameArgs(a, x, id), acc, names))
  IN  CASE a.args = <<>> /\ a.recs = <<>> -> [ok |-> TRUE, args |-> <<>>, next |-> a.next]
        [] a.args # <<>> /\ a.recs = <<>> /\ a.hasNamedArgs < 2 ->
             [ok |-> TRUE, args |-> multiplyArguments(a.args, copies), next |-> a.next]
        [] a.aliases # <<>> /\ Len(a.aliases) # Len(a.names) -> [ok |-> FALSE, args |-> <<>>, next |-> a.next]
        [] OTHER -> orArguments(a, FoldLeft(copy, [ok |-> TRUE, args |-> <<>>, next |-> a.next],
                                            [i \in 1..copies |-> i]))
-----------------------------------------------------------------------------
(* The result of prepareArgs: the Artisan and the memory afterwards, the    *)
(* SQL and the arguments for the database.                                  *)
Result(a, m, ok, sql, args) == [a |-> a, mem |-> m, ok |-> ok, sql |-> sql, args |-> args]
Error(a, m) == Result(a, m, FALSE, <<>>, <<>>)

(* Artisan.prepareArgsInsert: the records add their values to the arguments.*)
insertArguments(a) ==
  FoldLeft(LAMBDA acc, r : IF ~acc.ok \/ r.qualifier # "" THEN [acc EXCEPT !.ok = FALSE]
                           ELSE MapColumns(r, [i \in DOMAIN a.names |-> a.names[i][2]], acc.args),
           [ok |-> TRUE, args |-> a.args], a.recs)

(* The VALUES of prepareArgsInsert, written in front of ON DUPLICATE KEY.   *)
insertWithValues(a, total) ==
  LET odk == SelectInSeq(a.sql, LAMBDA t : t = OnDuplicateKey)
      end == IF odk = 0 THEN Len(a.sql) ELSE odk - 1
      rows == CASE a.rowCount > 0 -> writeInsertPlaceholders(a.rowCount, total \div a.rowCount, a.names)
                [] a.columnCount > 0 ->
                     writeInsertPlaceholders(IF total < a.columnCount THEN 1 ELSE total \div a.columnCount,
                                             a.columnCount, a.names)
                [] OTHER -> <<>>
  IN  SubSeq(a.sql, 1, end) \o rows \o SubSeq(a.sql, end + 1, Len(a.sql))

(* bufTrySizeByResliceOrNew and copy: a byte array that is large enough is  *)
(* written again, whoever else refers to it.  Its size is counted in tokens.*)
store(a, m, sql) ==
  IF a.buf > 0 /\ Len(sql) <= Len(m[a.buf])
  THEN Result([a EXCEPT !.len = Len(sql)], [m EXCEPT ![a.buf] = sql \o SubSeq(@, Len(sql) + 1, Len(@))], TRUE, sql, <<>>)
  ELSE Result([a EXCEPT !.buf = Len(m) + 1, !.len = Len(sql)], Append(m, sql), TRUE, sql, <<>>)

insertText(a, m, total) ==
  CASE ~a.buildValues /\ a.len = 0 -> store(a, m, insertWithValues(a, total))
    [] a.len > 0 -> Result(a, m, TRUE, SubSeq(m[a.buf], 1, a.len), <<>>)
    [] OTHER -> Result(a, m, TRUE, a.sql, <<>>)

(* The interpolated text of t, or t itself with the arguments.              *)
interpolated(t, i) == [t EXCEPT !.ok = i.ok, !.sql = i.sql]
option(t, as, has, extArgs) ==
  CASE (t.a.interpolate \/ t.a.expand) /\ extArgs # <<>> /\ ~has -> Error(t.a, t.mem)
    [] t.a.interpolate -> interpolated(t, writeInterpolate(t.sql, as))
    [] OTHER -> [t EXCEPT !.args = Interfaces(as, extArgs)]

insertCollected(a, m, cm, ext) ==
  CASE ~cm.ok -> Error(a, m)
    [] a.prepared -> Result(a, m, TRUE, a.sql, Interfaces(cm.args, ext))
    [] OTHER -> option(insertText(a, m, Len(cm.args) + Len(ext \o a.raw)), cm.args,
                       a.recs # <<>> \/ cm.args # <<>>, ext \o a.raw)

prepareArgsInsert(a, m, ext) == insertCollected(a, m, insertArguments(a), ext)

(* The look for names in the SQL, which happens once.                       *)
foundNames(a, x) ==
  [a EXCEPT !.sql = x.sql, !.names = x.names,
            !.hasNamedArgs = IF x.found \/ (a.recs = <<>> /\ \E i \in DOMAIN a.args : a.args[i].name # "")
                             THEN 2 ELSE 1]
findNames(a) ==
  IF a.prepared \/ a.hasNamedArgs # 0 THEN a ELSE foundNames(a, extractReplaceNamedArgs(a.sql, a.names))

(* The arguments of a slice are counted by a.Len, not the collected ones.   *)
expandedText(a, collected) ==
  IF a.expand /\ Len(Places(a.sql)) < TotalLen(a.args) THEN expandPlaceHolders(a.sql, collected) ELSE a.sql

finish(a, m, r, extArgs) ==
  LET b == [a EXCEPT !.next = r.next, !.template = IF @ = 0 THEN 1 ELSE @]
  IN  CASE ~r.ok -> Error(b, m)
        [] a.prepared -> Result(b, m, TRUE, a.sql, Interfaces(r.args, extArgs))
        [] OTHER -> option(Result(b, m, TRUE, expandedText(a, r.args), <<>>), r.args,
                           a.recs # <<>> \/ a.args # <<>>, extArgs)

collect(a, m, extArgs) == finish(a, m, appendConvertedRecordsToArguments(a), extArgs)

(* Artisan.prepareArgs.  sql of a prepared Artisan is the prepared text; the*)
(* code passes the empty string and the statement knows its text.           *)
prepareArgs(a, m, ext) ==
  CASE a.err \/ (a.empty /\ ~a.prepared) -> Error(a, m)
    [] a.source = "i" -> prepareArgsInsert(a, m, ext)
    [] a.raw = <<>> /\ a.args = <<>> /\ a.recs = <<>> ->
         Result([a EXCEPT !.hasNamedArgs = 1], m, TRUE, a.sql, ext)
    [] OTHER -> collect(findNames(a), m, ext \o a.raw)
-----------------------------------------------------------------------------
NoInputs == [ins |-> <<>>, rounds |-> 0]
NoMessage == [ok |-> FALSE, sql |-> <<>>, args |-> <<>>]
NotSent == [msg |-> NoMessage, given |-> NoInputs, past |-> {}, fresh |-> NoMessage, plain |-> NoMessage,
            first |-> NoInputs]

Init ==
  /\ case \in DOMAIN Cases
  /\ written = toSQL(Stmt)
  /\ disabled \in BOOLEAN
  /\ built = FALSE
  /\ mem = <<>>
  /\ pc = [p \in Procs |-> "new"]
  /\ pairs = [p \in Procs |-> readPairs(Stmt)]
  /\ art = [p \in Procs |-> newArtisan(Builder)]
  /\ given = [p \in Procs |-> NoInputs]
  /\ sent = [p \in Procs |-> NotSent]
  /\ past = [p \in Procs |-> {}]
  /\ calls = [p \in Procs |-> 0]

MayCall(p) == calls[p] < Table[case].max[p]

(* ToSQL and String of the builder.                                         *)
ToSQL ==
  /\ ~built
  /\ built' = TRUE
  /\ UNCHANGED <<case, written, disabled, mem, pc, pairs, art, given, sent, past, calls>>

(* Insert.WithArgs reads the pairs and the Select, then builds the SQL; the *)
(* lock is released between the two.  The other statements only build.      *)
ReadPairs(p) ==
  /\ pc[p] = "new" /\ MayCall(p) /\ Builder.stmt.kind = "i"
  /\ pairs' = [pairs EXCEPT ![p] = readPairs(Builder.stmt)]
  /\ past' = [past EXCEPT ![p] = IF Builder.cached THEN {"late"} ELSE {}]
  /\ pc' = [pc EXCEPT ![p] = "read"]
  /\ UNCHANGED <<case, written, disabled, built, mem, art, given, sent, calls>>

WithArgs(p) ==
  /\ pc[p] = (IF Builder.stmt.kind = "i" THEN "read" ELSE "new") /\ MayCall(p)
  /\ built' = TRUE
  /\ art' = [art EXCEPT ![p] = WithArgsOf(buildToSQL(disabled), pairs[p])]
  /\ pc' = [pc EXCEPT ![p] = "open"]
  /\ UNCHANGED <<case, written, disabled, mem, pairs, given, sent, past, calls>>

(* Prepare of the builder and WithArgs of the Stmt.  The server does not    *)
(* accept an INSERT without its VALUES or a name in the text.               *)
Prepare(p) ==
  /\ pc[p] = "new" /\ MayCall(p)
  /\ Stmt.kind = "i" => Stmt.isBuildValues \/ Stmt.select # <<>>
  /\ built' = TRUE
  /\ written.ok /\ ~writesNothing(Stmt) /\ ~HasNames(written.sql)
  /\ art' = [art EXCEPT ![p] = [newArtisan(buildToSQL(disabled)) EXCEPT !.prepared = TRUE]]
  /\ pc' = [pc EXCEPT ![p] = "open"]
  /\ UNCHANGED <<case, written, disabled, mem, pairs, given, sent, past, calls>>

(* What becomes of the past of p: a call without inputs and the first call  *)
(* with inputs decide about the names; a call builds the VALUES of an       *)
(* INSERT, until the next Reset.                                            *)
Uses(g, op) == \E i \in DOMAIN g.ins : g.ins[i].op = op
Unnamed(g) == ~Uses(g, "Name") \/ Uses(g, "Record")
AfterCall(h, g) ==
  h \cup {"built"} \cup (CASE g.rounds = 0 -> {"empty"}
                           [] h \cap {"empty", "unnamed", "named"} # {} -> {}
                           [] Unnamed(g) -> {"unnamed"}
                           [] OTHER -> {"named"})
AfterReset(h) == (h \ {"built"}) \cup {"reset"}

(* The options outlive a Reset and a Clone.                                 *)
Options == {"Aliases", "Interpolate", "ExpandPlaceHolders"}
Kept(g) == [ins |-> SelectSeq(g.ins, LAMBDA in : in.op \in Options), rounds |-> 0]

CloneOf(p, q) ==
  /\ pc[p] = "new" /\ MayCall(p) /\ pc[q] \in {"open", "ready"}
  /\ art' = [art EXCEPT ![p] = Clone(art[q])]
  /\ given' = [given EXCEPT ![p] = Kept(given[q])]
  /\ past' = [x \in Procs |-> IF x \in {p, q} THEN past[q] \cup {"cloned"} ELSE past[x]]
  /\ pc' = [pc EXCEPT ![p] = "open"]
  /\ UNCHANGED <<case, written, disabled, built, mem, pairs, sent, calls>>

Supply(p, ins) ==
  /\ pc[p] = "open" /\ MayCall(p)
  /\ art' = [art EXCEPT ![p] = supplyAll(@, ins)]
  /\ given' = [given EXCEPT ![p] = [ins |-> @.ins \o ins, rounds |-> @.rounds + 1]]
  /\ pc' = [pc EXCEPT ![p] = "ready"]
  /\ UNCHANGED <<case, written, disabled, built, mem, pairs, sent, past, calls>>

(* What a new Artisan of a new builder sends for the inputs ins (history).  *)
NewArtisan(p) == IF art[p].prepared THEN [newArtisan(buildToSQL(FALSE)) EXCEPT !.prepared = TRUE]
                 ELSE WithArgsOf(buildToSQL(FALSE), readPairs(Stmt))
Message(r) == [ok |-> r.ok, sql |-> r.sql, args |-> r.args]
Fresh(p, ins, ext) == Message(prepareArgs(supplyAll(NewArtisan(p), ins), <<>>, ext))

(* Exec, Query, QueryRow, Iterate*, Load and its relatives: prepareArgs and *)
(* a call of the database.  load: a Load function whose query succeeds; only*)
(* then is the Artisan reset.                                               *)
Called(p, ext, r, reset) ==
  /\ art' = [art EXCEPT ![p] = IF reset THEN Reset(r.a) ELSE r.a]
  /\ mem' = r.mem
  /\ sent' = [sent EXCEPT ![p] =
       [msg |-> Message(r), given |-> given[p], past |-> past[p], fresh |-> Fresh(p, given[p].ins, ext),
        plain |-> IF Uses(given[p], "Interpolate")
                  THEN Fresh(p, SelectSeq(given[p].ins, LAMBDA in : in.op # "Interpolate"), ext) ELSE NoMessage,
        first |-> IF "built" \in past[p] THEN @.first ELSE given[p]]]
  /\ given' = [given EXCEPT ![p] = IF reset THEN Kept(@) ELSE @]
  /\ past' = [past EXCEPT ![p] = IF reset THEN AfterReset(AfterCall(@, given[p])) ELSE AfterCall(@, given[p])]

Call(p, ext, load) ==
  /\ pc[p] \in {"open", "ready"} /\ MayCall(p)
  /\ \E r \in {prepareArgs(art[p], mem, ext)} : Called(p, ext, r, r.ok /\ load)
  /\ pc' = [pc EXCEPT ![p] = "open"]
  /\ calls' = [calls EXCEPT ![p] = @ + 1]
  /\ UNCHANGED <<case, written, disabled, built, pairs>>

ResetIt(p) ==
  /\ pc[p] = "open" /\ "built" \in past[p]
  /\ art' = [art EXCEPT ![p] = Reset(@)]
  /\ given' = [given EXCEPT ![p] = Kept(@)]
  /\ past' = [past EXCEPT ![p] = AfterReset(@)]
  /\ UNCHANGED <<case, written, disabled, built, mem, pc, pairs, sent, calls>>

Next ==
  \/ ToSQL
  \/ \E p \in Procs :
       \/ ReadPairs(p) \/ WithArgs(p) \/ Prepare(p) \/ ResetIt(p)
       \/ \E q \in Procs \ {p} : CloneOf(p, q)
       \/ \E ins \in Table[case].supplies : Supply(p, ins)
       \/ \E ext \in Table[case].exts, load \in BOOLEAN : Call(p, ext, load)

Spec == Init /\ [][Next]_vars
-----------------------------------------------------------------------------
(* The known ways in which an earlier call disturbs a later one.            *)
Disturbed(p) ==
  LET s == sent[p]
      h == s.past
      rebuilt == Stmt.kind = "i" /\ ~art[p].prepared
  IN  \/ HasNames(written.sql) /\ ("empty" \in h \/ s.given.rounds = 0)
      \/ ~Unnamed(s.given) /\ h \cap {"empty", "unnamed"} # {}
      \/ rebuilt /\ "built" \in h /\ s.given # s.first
      \/ rebuilt /\ Stmt.isBuildValues /\ "reset" \in h
      \/ rebuilt /\ Stmt.pairs # <<>> /\ h \cap {"late", "reset", "cloned"} # {}
      \/ rebuilt /\ Stmt.select # <<>> /\ "late" \in h
      \/ rebuilt /\ "cloned" \in h

(* A call sends what a new Artisan would send for the same inputs.  The     *)
(* exceptions are the ones of Disturbed: an empty or an unnamed first call  *)
(* (hasNamedArgs is decided once), another number of values for an INSERT   *)
(* without Reset, Reset after BuildValues or with Pairs, Insert.WithArgs    *)
(* after the SQL was cached, and a Clone, which shares insertCachedSQL.     *)
HistoryDoesNotMatter ==
  \A p \in Procs : sent[p].msg.ok /\ ~Disturbed(p) => sent[p].msg = sent[p].fresh

(* A value of a record or a named value belongs to the place written for it.*)
Fits(v, place) == v[1] = "v" /\ v[3] # "" => place[3] = v[3] /\ (v[2] = ":" => place[2] = ":")

(* Several values for one place holder, from a slice or from a collection   *)
(* that is asked for one column.                                            *)
Slices(g) == \E i \in DOMAIN g.ins : g.ins[i].op = "add" /\ Len(g.ins[i].vals) > 1
Column(g) == \E i \in DOMAIN g.ins : g.ins[i].op = "Record" /\ g.ins[i].size > 0
                                      /\ (Stmt.kind = "i" => Len(insertColumns(Stmt)) = 1)

(* The names that toSQL and prepareArgs have collected are the names of the *)
(* place holders, in their order, once for each row or copy.  It is not so  *)
(* with a BETWEEN place holder, with PlaceHolders, with an expression in    *)
(* SET, with names in free expressions beside other place holders or behind *)
(* a quoted string, with as many place holders in ON DUPLICATE KEY as there *)
(* are columns, and with Pairs after BuildValues.                           *)
InOrder(p) ==
  LET places == Places(sent[p].msg.sql)
      names == art[p].names
  IN  /\ ~HasNames(sent[p].msg.sql)
      /\ ~(Stmt.kind = "i" /\ Stmt.pairs # <<>> /\ Stmt.isBuildValues)
      /\ IF names = <<>> THEN places = <<>>
         ELSE [i \in DOMAIN places |-> <<places[i][2], places[i][3]>>]
              = FlattenSeq([k \in 1..(Len(places) \div Len(names)) |-> names])

(* Complete inputs, given once, fill every place holder, and each column and*)
(* each name gets its own value (toSQL collects the names in the order in   *)
(* which it writes the place holders; prepareArgs looks the values up).     *)
ValuesAtTheirPlaces ==
  \A p \in Procs :
    LET s == sent[p]
        places == Places(s.msg.sql)
    IN  /\ s.msg.ok /\ s.given.rounds = 1 /\ ~Disturbed(p) /\ ~Uses(s.given, "Interpolate")
        /\ Table[case].plain \/ InOrder(p)
        /\ ~Column(s.given)
        /\ ~(art[p].prepared /\ (Slices(s.given) \/ Uses(s.given, "Name")))
        => /\ Len(places) = Len(s.msg.args)
           /\ Uses(s.given, "Aliases") \/ \A i \in DOMAIN places : Fits(s.msg.args[i], places[i])

(* Interpolate writes the values that are sent without it to their places,  *)
(* and sends no arguments; without inputs the arguments of the call itself  *)
(* are sent as they are (the early return of prepareArgs).                  *)
InterpolationSaysTheSame ==
  \A p \in Procs :
    LET s == sent[p]
        inputs == \E i \in DOMAIN s.given.ins : s.given.ins[i].op \notin Options
    IN  /\ s.msg.ok /\ ~Disturbed(p) /\ ~art[p].prepared
        /\ s.plain.ok /\ Len(Places(s.plain.sql)) = Len(s.plain.args)
        => s.msg = IF inputs THEN [ok |-> TRUE, args |-> <<>>,
                                   sql |-> Replace(s.plain.sql, [i \in DOMAIN s.plain.args |-> <<s.plain.args[i]>>])]
                   ELSE s.plain
=============================================================================
