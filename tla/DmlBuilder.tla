----------------------------- MODULE DmlBuilder -----------------------------
(***************************************************************************)
(* The SQL builders of sql/dml: what a statement writes into the SQL       *)
(* string and which names it collects for its place holders.               *)
(*                                                                         *)
(* SQL is a sequence of tokens; the key words, identifiers and brackets,   *)
(* which no other step looks at, are left out.                             *)
(*   <<"?", q, c, 0>>  a place holder.  q and c are the qualifier and the  *)
(*                     column (or ":" and the name) that it is written for,*)
(*                     <<"", "">> inside of a free expression.  The string *)
(*                     in the code is just a question mark.                *)
(*   <<":", n, "", 0>> a named place holder in a free expression           *)
(*   <<"v", r, c, i>>  a value; "s" instead of "v" when it is written with *)
(*                     single quotes                                       *)
(*   Text              any other text that ends a name                     *)
(*   OnDuplicateKey    the words ON DUPLICATE KEY UPDATE                   *)
(* The names that toSQL collects (placeHolders) are pairs <<q, c>>, with   *)
(* q = ":" for a named one.  The buffer and the names are only appended    *)
(* to: every clause is a Part and a statement is the concatenation Cat.    *)
(***************************************************************************)
EXTENDS Integers, Sequences, SequencesExt

Place(id) == <<"?", id[1], id[2], 0>>
Text == <<"t", "", "", 0>>
OnDuplicateKey == <<"o", "", "", 0>>
IsPlace(t) == t[1] = "?"
Places(sql) == SelectSeq(sql, IsPlace)
HasNames(sql) == \E i \in DOMAIN sql : sql[i][1] = ":"
Free == <<"", "">>

Part(s, n) == [ok |-> TRUE, sql |-> s, names |-> n]
Nothing == Part(<<>>, <<>>)
Failed == [ok |-> FALSE, sql |-> <<>>, names |-> <<>>]

Then(p, q) == IF p.ok /\ q.ok THEN Part(p.sql \o q.sql, p.names \o q.names) ELSE Failed
Cat(parts) == FoldLeft(Then, Nothing, parts)
-----------------------------------------------------------------------------
(* type argument: a name, and the values of a scalar or of a slice.  Name   *)
(* leaves an argument that is not set, whose value is nil.                  *)
Nil == <<"v", "nil", "", 0>>
Arg(vals) == [name |-> "", set |-> TRUE, vals |-> vals]
Name(n) == [name |-> n, set |-> FALSE, vals |-> <<Nil>>]
Unset == Name("")

(* arguments.add                                                            *)
add(as, vals) ==
  IF as # <<>> /\ ~Last(as).set
  THEN Append(Front(as), [Last(as) EXCEPT !.set = TRUE, !.vals = vals])
  ELSE Append(as, Arg(vals))

(* arguments.Len, arguments.Interfaces, arguments.multiplyArguments         *)
TotalLen(as) == FoldLeft(LAMBDA n, a : n + Len(a.vals), 0, as)
Interfaces(as, args) == args \o FlattenSeq([i \in DOMAIN as |-> as[i].vals])
multiplyArguments(as, factor) == FlattenSeq([i \in 1..factor |-> as])

(* argument.writeTo: position 0 writes all values of a slice.               *)
writeTo(a, pos) ==
  CASE ~a.set -> <<>>
    [] pos = 0 -> a.vals
    [] OTHER -> <<a.vals[IF Len(a.vals) = 1 THEN 1 ELSE pos]>>

(* The i-th place holder of sql is replaced by what is at i in by.          *)
Replace(sql, by) ==
  FoldLeft(LAMBDA acc, t : IF IsPlace(t)
                           THEN [n |-> acc.n + 1, out |-> acc.out \o by[acc.n + 1]]
                           ELSE [acc EXCEPT !.out = Append(@, t)],
           [n |-> 0, out |-> <<>>], sql).out

writeInterpolate(sql, as) ==
  CASE as = <<>> -> Part(sql, <<>>)
    [] Len(Places(sql)) # Len(as) -> Failed
    [] OTHER -> Part(Replace(sql, [i \in DOMAIN as |-> writeTo(as[i], 0)]), <<>>)

expandPlaceHolders(sql, as) ==
  Replace(sql, [i \in DOMAIN Places(sql) |-> IF i > Len(as) THEN <<>>
                                             ELSE [j \in DOMAIN as[i].vals |-> Places(sql)[i]]])

writeExpression(text, as) ==
  IF Places(text) = <<>> \/ as = <<>> THEN Part(text, <<>>) ELSE writeInterpolate(text, as)

(* extractReplaceNamedArgs: a name counts when some text follows it; after  *)
(* the first single quote nothing is replaced, as quoteStart is never reset.*)
extractReplaceNamedArgs(sql, names) ==
  LET quoted(i) == \E j \in 1..(i - 1) : sql[j][1] = "s"
      named(i) == sql[i][1] = ":" /\ ~quoted(i)
      found == SelectSeq([i \in DOMAIN sql |-> i], LAMBDA i : named(i) /\ i < Len(sql))
  IN  [sql |-> [i \in DOMAIN sql |-> IF named(i) THEN Place(<<":", sql[i][2]>>) ELSE sql[i]],
       names |-> names \o [k \in DOMAIN found |-> <<":", sql[found[k]][2]>>],
       found |-> found # <<>>]
-----------------------------------------------------------------------------
(* type Condition.  kind is the form that the constructors leave behind:    *)
(* "(" and ")", "using" (Columns), "expr" (Expr), "rexpr" (Column.Expr),    *)
(* "sub" (Sub), "arg" (Int, Strs, ...), "col" (Column.Column), "ph"         *)
(* (PlaceHolder), "phs" (PlaceHolders), "named" (NamedArg), "none".         *)
(* A "left expression" with Sub has the kind "expr" and a sub-select.       *)
Cond(left, kind) == [left |-> left, kind |-> kind, op |-> "", text |-> <<>>, args |-> <<>>,
                     name |-> "", count |-> 0, sub |-> <<>>]

(* Op.write: "in" stands for the operators that write all the arguments.    *)
opWrite(op, as) ==
  LET a == IF Len(as) = 1 THEN as[1] ELSE Unset
  IN  CASE op = "null" -> <<>>
        [] op = "between" -> IF a.set THEN writeTo(a, 1) \o writeTo(a, 2) ELSE <<Place(Free)>>
        [] op = "in" -> FlattenSeq([i \in DOMAIN as |-> writeTo(as[i], 0)])
        [] OTHER -> writeTo(a, 0)

(* The three forms of Right.PlaceHolder.                                    *)
placeHolderPart(c) ==
  CASE c.kind = "ph" -> Part(<<Place(c.left)>>, <<c.left>>)
    [] c.kind = "phs" -> Part([i \in 1..c.count |-> Place(c.left)], <<c.left>>)
    [] c.kind = "named" -> Part(<<Place(<<":", c.name>>)>>, <<<<":", c.name>>>>)

RECURSIVE toSQL(_)

(* The statements inside of another one.                                    *)
nested(stmts) == Cat([i \in DOMAIN stmts |-> toSQL(stmts[i])])

(* One condition of Conditions.write, with the closing bracket.             *)
condition(c) ==
  LET op == Part(opWrite(c.op, <<>>), <<>>)
      sub == nested(c.sub)
      body ==
        CASE c.kind = "expr" ->
               LET right ==
                     CASE Places(c.text) = <<>> /\ Len(c.args) = 1 /\ c.op # "" -> Part(opWrite(c.op, c.args), <<>>)
                       [] c.sub # <<>> -> Cat(<<op, sub>>)
                       [] OTHER -> Nothing
               IN  Cat(<<writeExpression(c.text, c.args), right>>)
          [] c.kind = "rexpr" -> Cat(<<op, writeExpression(c.text, c.args)>>)
          [] c.kind = "sub" -> Cat(<<op, sub>>)
          [] c.kind = "arg" ->
               Part(opWrite(IF Len(c.args[1].vals) > 1 /\ c.op = "" THEN "in" ELSE c.op, c.args), <<>>)
          [] c.kind = "col" -> op
          [] c.kind = "none" -> Part(opWrite(IF c.op = "" THEN "null" ELSE c.op, <<>>), <<>>)
          [] OTHER -> Cat(<<op, placeHolderPart(c)>>)
  IN  Cat(<<body, Part(<<Text>>, <<>>)>>)

(* Conditions.write: in a join the first USING ends the conditions.         *)
write(cs, type) ==
  LET using == SelectInSeq(cs, LAMBDA c : c.kind = "using")
      used == IF type = "j" /\ using > 0 THEN SubSeq(cs, 1, using - 1) ELSE cs
      real == SelectSeq(used, LAMBDA c : c.kind \notin {"(", ")"})
  IN  Cat([i \in DOMAIN real |-> condition(real[i])])

(* Conditions.writeSetClauses                                               *)
writeSetClauses(cs) ==
  Cat([i \in DOMAIN cs |->
    LET c == cs[i]
    IN  CASE c.kind = "arg" -> Part(writeTo(c.args[1], 0), <<>>)
          [] c.kind = "rexpr" -> Cat(<<writeExpression(c.text, c.args), Part(<<Text>>, <<c.left>>)>>)
          [] c.kind = "sub" -> nested(c.sub)
          [] OTHER -> Part(<<Place(c.left)>>, <<c.left>>)])

(* Conditions.writeOnDuplicateKey                                           *)
writeOnDuplicateKey(cs) ==
  Cat(<<IF cs = <<>> THEN Nothing ELSE Part(<<OnDuplicateKey>>, <<>>)>> \o [i \in DOMAIN cs |->
    LET c == cs[i]
    IN  CASE c.kind = "rexpr" -> LET e == writeExpression(c.text, c.args) IN IF e.ok THEN e ELSE Nothing
          [] c.kind \in {"ph", "phs", "named"} -> placeHolderPart(c)
          [] c.kind = "arg" -> Part(writeTo(c.args[1], 0), <<>>)
          [] OTHER -> Nothing])
-----------------------------------------------------------------------------
(* insertTemplate, calcInsertTemplatePlaceholderPos, writeInsertPlaceholders*)
insertTemplateCount == 15
Row(n) == <<"(">> \o [i \in 1..(2 * n - 1) |-> IF i % 2 = 1 THEN "?" ELSE ","] \o <<")">>
insertTemplate == FlattenSeq([n \in 1..insertTemplateCount |-> Row(n)])

\* as calcInsertTemplatePlaceholderPos, but a row ends one byte too late
calcInsertTemplatePlaceholderPosLate(columnCount) ==
  FoldLeft(LAMBDA p, i : [start |-> p.end, end |-> i + p.end + i + 2],
           [start |-> 0, end |-> 0], [i \in 1..columnCount |-> i])

calcInsertTemplatePlaceholderPos(columnCount) ==
  FoldLeft(LAMBDA p, i : [start |-> p.end, end |-> (i - 1) + p.end + i + 2],
           [start |-> 0, end |-> 0], [i \in 1..columnCount |-> i])

(* The place holders of a row stand for its columns.                        *)
writeInsertPlaceholders(rowCount, columnCount, columns) ==
  LET pos == calcInsertTemplatePlaceholderPos(columnCount)
      row == IF columnCount <= insertTemplateCount
             THEN SubSeq(insertTemplate, pos.start + 1, pos.end) ELSE Row(columnCount)
      marks == Len(SelectSeq(row, LAMBDA ch : ch = "?"))
      place(i) == Place(IF columns = <<>> THEN Free ELSE columns[((i - 1) % Len(columns)) + 1])
  IN  FlattenSeq([r \in 1..rowCount |-> [i \in 1..marks |-> place(i)]])

(* Insert.toSQL adds the columns of the pairs to the columns.               *)
insertColumns(b) ==
  FoldLeft(LAMBDA cols, cv : IF Contains(cols, cv.left) THEN cols ELSE Append(cols, cv.left),
           b.columns, b.pairs)

(* The VALUES of Insert.toSQL; without IsBuildValues it ends after the word.*)
insertValues(b, columns) ==
  LET argCount0 == IF b.recordPlaceHolderCount > 0 THEN b.recordPlaceHolderCount ELSE Len(columns)
      rowCount == IF b.rowCount > 0 THEN b.rowCount ELSE 1
      leading == IF Len(b.pairs) <= argCount0 THEN argCount0 ELSE 0
      pair(cv) == CASE cv.kind = "arg" -> Part(writeTo(cv.args[1], 0), <<>>)
                    [] cv.kind = "rexpr" -> Part(cv.text, <<>>)
                    [] cv.kind = "sub" -> nested(cv.sub)
                    [] OTHER -> Nothing
  IN  CASE columns = <<>> \/ ~b.isBuildValues -> Nothing
        [] b.pairs # <<>> ->
             Cat(<<Part([i \in 1..leading |-> Place(columns[((i - 1) % Len(columns)) + 1])], <<>>)>>
                 \o [i \in DOMAIN b.pairs |-> pair(b.pairs[i])])
        [] OTHER -> Part(writeInsertPlaceholders(rowCount, argCount0, columns), <<>>)

(* A column or a table: id.writeQuoted.  text is empty for a plain name.    *)
Ident(text) == [text |-> text, derived |-> <<>>]
Derived(sel) == [text |-> <<>>, derived |-> <<sel>>]
writeQuoted(a) == Cat(<<nested(a.derived), Part(a.text, <<>>)>>)
writeAll(idc) == Cat([i \in DOMAIN idc |-> writeQuoted(idc[i])])
writeJoins(joins) ==
  Cat([i \in DOMAIN joins |-> Cat(<<writeQuoted(joins[i].table), write(joins[i].on, "j")>>)])

(* The join that Select.toSQL adds for OrderByRandom.                       *)
randomJoin(b) ==
  LET sel == [kind |-> "s", table |-> b.table, from |-> <<Ident(<<>>)>>, columns |-> <<Ident(<<Text>>)>>,
              joins |-> <<>>, wheres |-> b.wheres, groupBys |-> <<>>, havings |-> <<>>,
              orderBys |-> <<>>, random |-> FALSE]
      less == [Cond(Free, "expr") EXCEPT !.op = "<", !.text = <<Text>>, !.sub = <<sel>>]
  IN  [table |-> Derived([sel EXCEPT !.wheres = <<less>> \o b.wheres]),
       on |-> <<Cond(Free, "using")>>]

selectSQL(b) ==
  IF b.columns = <<>> THEN Failed
  ELSE Cat(<<writeAll(b.columns), writeAll(b.from),
             writeJoins(b.joins \o IF b.random THEN <<randomJoin(b)>> ELSE <<>>),
             write(b.wheres, "w"), writeAll(b.groupBys), write(b.havings, "h"), writeAll(b.orderBys)>>)

insertSQL(b) ==
  LET columns == insertColumns(b)
  IN  CASE b.table = "" -> Failed
        [] b.select # <<>> -> Cat(<<nested(b.select), writeOnDuplicateKey(b.onDuplicateKeys)>>)
        [] OTHER -> Cat(<<Part(<<>>, columns), insertValues(b, columns),
                          writeOnDuplicateKey(b.onDuplicateKeys)>>)

updateSQL(b) ==
  IF b.table = "" \/ b.setClauses = <<>> THEN Failed
  ELSE Cat(<<writeSetClauses(b.setClauses), write(b.wheres, "w"), writeAll(b.orderBys)>>)

deleteSQL(b) ==
  IF b.table = "" \/ (b.multiTables # <<>> /\ b.returning # <<>>) THEN Failed
  ELSE Cat(<<writeAll(b.multiTables), writeJoins(b.joins), write(b.wheres, "w"), writeAll(b.orderBys),
             nested(b.returning)>>)

(* The names of a template are collected once, for all its copies.          *)
unionSQL(u) ==
  LET first == nested(<<u.selects[1]>>)
      copies == FlattenSeq([i \in 1..u.templateStmtCount |-> first.sql])
  IN  CASE Len(u.selects) > 1 -> Cat(<<nested(u.selects), writeAll(u.orderBys)>>)
        [] first.ok -> Part(copies \o writeAll(u.orderBys).sql, first.names)
        [] OTHER -> Failed

withSQL(b) ==
  IF b.topLevel = <<>> THEN Failed
  ELSE nested(b.subclauses \o b.topLevel)

toSQL(b) == CASE b.kind = "s" -> selectSQL(b)
              [] b.kind = "i" -> insertSQL(b)
              [] b.kind = "u" -> updateSQL(b)
              [] b.kind = "d" -> deleteSQL(b)
              [] b.kind = "n" -> unionSQL(b)
              [] b.kind = "w" -> withSQL(b)
=============================================================================
