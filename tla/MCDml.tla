------------------------------- MODULE MCDml -------------------------------
(* Statements and inputs for Artisan, in the forms that the examples and    *)
(* the tests of sql/dml use.                                                *)
EXTENDS Artisan, TLC

CONSTANTS p1, p2         \* the goroutines of Artisan

V(x) == <<"v", "arg", "", x>>
Add(x) == [op |-> "add", vals |-> <<V(x)>>]
Adds(x, y) == [op |-> "add", vals |-> <<V(x), V(y)>>]
Named(n) == <<[op |-> "Name", name |-> n], [op |-> "add", vals |-> <<<<"v", ":", n, 0>>>>]>>
Option(o) == <<[op |-> o]>>
Raw(xs) == <<[op |-> "Raw", vals |-> xs]>>
Entity(q, r) == <<[op |-> "Record", qualifier |-> q, rec |-> r, fields |-> {"a", "b"}, noop |-> {"x"},
                   all |-> <<"a", "b">>, size |-> 0]>>
Collection(q, r) == <<[Entity(q, r)[1] EXCEPT !.size = 2]>>

Ph(q, c) == Cond(<<q, c>>, "ph")
NamedPh(q, c, n) == [Cond(<<q, c>>, "named") EXCEPT !.name = n]
Lit(c, x) == [Cond(<<"", c>>, "arg") EXCEPT !.args = <<Arg(<<V(x)>>)>>]
Expr(ts) == [Cond(Free, "expr") EXCEPT !.text = ts]
Mark(n) == <<":", n, "", 0>>
Quoted == <<"s", "lit", "", 0>>

Select(wheres) ==
  [kind |-> "s", table |-> "t", from |-> <<Ident(<<>>)>>, columns |-> <<Ident(<<Text>>)>>, joins |-> <<>>,
   wheres |-> wheres, groupBys |-> <<>>, havings |-> <<>>, orderBys |-> <<>>, random |-> FALSE]
Insert(cols) ==
  [kind |-> "i", table |-> "t", columns |-> [i \in DOMAIN cols |-> <<"", cols[i]>>], pairs |-> <<>>,
   select |-> <<>>, isBuildValues |-> FALSE, rowCount |-> 0, recordPlaceHolderCount |-> 0, onDuplicateKeys |-> <<>>]
Update(sets, wheres) ==
  [kind |-> "u", table |-> "t", setClauses |-> sets, wheres |-> wheres, orderBys |-> <<>>]
Delete(wheres) ==
  [kind |-> "d", table |-> "t", multiTables |-> <<>>, joins |-> <<>>, wheres |-> wheres, orderBys |-> <<>>,
   returning |-> <<>>]
Union(sels, n) == [kind |-> "n", selects |-> sels, templateStmtCount |-> n, orderBys |-> <<>>]
With(subs, top) == [kind |-> "w", subclauses |-> subs, topLevel |-> top]

Case(stmt, supplies) == [stmt |-> stmt, plain |-> TRUE, supplies |-> supplies, exts |-> {<<>>},
                         max |-> p1 :> 3 @@ p2 :> 0]
Odd(stmt, supplies) == [Case(stmt, supplies) EXCEPT !.plain = FALSE]
Shared(c) == [c EXCEPT !.max = p1 :> 2 @@ p2 :> 1]

Both == Entity("", "r")
TwoCols == {Both, <<Add(1), Add(2)>>, Raw(<<V(1), V(2)>>)}

MCCases == <<
  \* WHERE a = ? AND b IN ?
  Case(Select(<<Ph("", "a"), [Ph("", "b") EXCEPT !.op = "in"]>>),
       TwoCols \cup {Both \o Option("Interpolate"), <<Add(1), Adds(2, 3)>> \o Option("ExpandPlaceHolders")}),
  \* JOIN u ON u.a = ? WHERE t.b = ? HAVING :n
  Case([Select(<<Ph("t", "b")>>) EXCEPT
          !.joins = <<[table |-> Ident(<<>>), on |-> <<Ph("u", "a")>>]>>, !.havings = <<NamedPh("", "a", "n")>>],
       {Entity("u", "s") \o Entity("t", "r") \o Named("n"), Entity("u", "s") \o Entity("", "r") \o Named("n")}),
  \* WHERE a = :n AND b = :m
  Case(Select(<<NamedPh("", "a", "n"), NamedPh("", "b", "m")>>),
       {Named("m") \o Named("n"), Named("n") \o Named("m") \o Option("Interpolate"), Both, <<Add(1), Add(2)>>}),
  \* WHERE (x > :m AND y < :n)
  Case(Select(<<Expr(<<Mark("m"), Text, Mark("n"), Text>>)>>), {Named("n") \o Named("m"), Both}),
  Case(Update(<<Ph("", "b"), Lit("x", 9)>>, <<Ph("", "a")>>), TwoCols),
  Shared(Case(Insert(<<"a", "b">>), {Both \o Entity("", "s"), Collection("", "c")})),
  Case([Insert(<<"a", "b">>) EXCEPT !.onDuplicateKeys = <<Lit("b", 7)>>], {Both, Both \o Option("Interpolate")}),
  Case([Insert(<<"a", "b">>) EXCEPT !.isBuildValues = TRUE], {Both}),
  Shared(Case([Insert(<<>>) EXCEPT !.pairs = <<Lit("a", 1), Lit("b", 2), Lit("a", 3), Lit("b", 4)>>], {})),
  Shared(Case([Insert(<<"a", "b">>) EXCEPT !.select = <<Select(<<Ph("", "a"), NamedPh("", "b", "n")>>)>>],
       {Entity("", "r") \o Named("n")})),
  Case(Union(<<Select(<<Ph("", "a")>>), Select(<<Ph("", "b")>>)>>, 0), {Both, <<Add(1), Add(2)>>}),
  Case(Union(<<Select(<<Ph("", "a"), Ph("", "b")>>)>>, 2), {Both, <<Add(1), Add(2)>>}),
  Odd(Select(<<Cond(<<"", "a">>, "ph"), [Cond(<<"", "b">>, "ph") EXCEPT !.op = "between"]>>),
       {<<Add(1), Add(2), Add(3)>>, Both}),
  Odd(Select(<<[Cond(<<"", "a">>, "phs") EXCEPT !.op = "in", !.count = 2], Ph("", "b")>>),
       {<<Add(1), Add(2), Add(3)>>, <<Adds(1, 2), Add(3)>>, Collection("", "c")}),
  Odd(Update(<<Ph("", "b"), [Cond(<<"", "x">>, "rexpr") EXCEPT !.text = <<Place(Free), Text>>]>>, <<Ph("", "a")>>),
       {<<Add(1), Add(2), Add(3)>>, Both, Both \o <<Add(1)>>}),
  Odd(Select(<<Expr(<<Mark("n"), Text>>), Ph("", "a")>>), {Both \o Named("n"), Both}),
  Odd(Select(<<Ph("", "a"), Expr(<<Mark("n"), Text>>)>>), {Both \o Named("n"), Both}),
  Odd(Select(<<Expr(<<Quoted, Text, Mark("n"), Text>>)>>), {Named("n")}),
  Case([Select(<<Ph("", "a")>>) EXCEPT !.random = TRUE], {Both, <<Add(1), Add(2), Add(3)>>}),
  Case(Insert(<<"a">>), {Both, Collection("", "c")}),
  Case([Insert(<<"a", "b">>) EXCEPT !.onDuplicateKeys = <<Ph("", "a")>>], {Both, Raw(<<V(1), V(2), V(3)>>)}),
  Odd([Insert(<<"a", "b">>) EXCEPT !.onDuplicateKeys = <<Ph("", "a"), NamedPh("", "b", "n")>>],
      {Both \o Named("n"), Raw(<<V(1), V(2), V(3), V(4)>>)}),
  Case([Insert(<<"a", "b">>) EXCEPT !.rowCount = 2], {Collection("", "c"), <<Add(1), Add(2), Add(3), Add(4)>>}),
  Odd([Insert(<<>>) EXCEPT !.recordPlaceHolderCount = 2], {Both, Collection("", "c")}),
  Odd([Insert(<<>>) EXCEPT !.pairs = <<Lit("a", 1), Lit("b", 2)>>, !.isBuildValues = TRUE], {<<>>}),
  Odd([Insert(<<"a">>) EXCEPT !.pairs = <<[Cond(<<"", "b">>, "rexpr") EXCEPT !.text = <<Text>>]>>, !.isBuildValues = TRUE], {<<Add(1)>>}),
  Case([Delete(<<Ph("", "b")>>) EXCEPT !.returning = <<Select(<<Ph("", "a")>>)>>,
        !.joins = <<[table |-> Derived(Select(<<Ph("", "a")>>)), on |-> <<Cond(Free, "using")>>]>>],
       {Both, <<Add(1), Add(2), Add(3)>>}),
  Case(Select(<<Ph("t", "a"), Ph("t", "b")>>), {Both, <<Add(1)>> \o Entity("u", "s") \o <<Add(2)>>, Both \o <<[op |-> "Aliases", names |-> <<<<"", "b">>, <<"", "a">>>>]>>}),
  \* the last length of insertTemplate, and the first beyond it
  Case(Insert([i \in 1..15 |-> ToString(i)]), {Raw([i \in 1..15 |-> V(i)]), Raw([i \in 1..30 |-> V(i)])}),
  Case(Insert([i \in 1..16 |-> ToString(i)]), {Raw([i \in 1..16 |-> V(i)]), Raw([i \in 1..32 |-> V(i)])}),
  \* (SELECT ... WHERE a = ?) AS t, x IN (1, 2), y = z, IFNULL(x, 1) > 2, IS NULL, a = (SELECT ... b = ?)
  Case([Select(<<[Cond(<<"", "x">>, "arg") EXCEPT !.args = <<Arg(<<V(1), V(2)>>)>>], Cond(<<"", "y">>, "col"),
                 [Expr(<<Text>>) EXCEPT !.op = "<", !.args = <<Arg(<<V(1)>>)>>], Cond(<<"", "x">>, "none"),
                 Cond(Free, "("), [Cond(<<"", "a">>, "sub") EXCEPT !.sub = <<Select(<<Ph("", "b")>>)>>], Cond(Free, ")"),
                 [Cond(<<"", "x">>, "arg") EXCEPT !.op = "between", !.args = <<Arg(<<V(3), V(4)>>)>>]>>)
          EXCEPT !.from = <<Derived(Select(<<Ph("", "a")>>))>>, !.groupBys = <<Ident(<<Text>>)>>,
                 !.orderBys = <<Ident(<<Text>>)>>], TwoCols),
  Case(Update(<<Ph("", "b"), [Cond(<<"", "x">>, "sub") EXCEPT !.sub = <<Select(<<Ph("", "a")>>)>>],
                [Cond(<<"", "x">>, "rexpr") EXCEPT !.text = <<Text, Place(Free)>>, !.args = <<Arg(<<V(5)>>)>>]>>,
              <<[Expr(<<Place(Free), Text>>) EXCEPT !.args = <<Arg(<<V(1)>>), Arg(<<V(2)>>)>>]>>), TwoCols),
  Case([Delete(<<Ph("", "a")>>) EXCEPT !.multiTables = <<Ident(<<>>), Ident(<<>>)>>,
          !.joins = <<[table |-> Ident(<<>>), on |-> <<Ph("", "b"), Cond(Free, "using"), Ph("", "x")>>]>>], {Both}),
  Case([Insert(<<>>) EXCEPT !.pairs = <<Lit("a", 1), [Cond(<<"", "b">>, "sub") EXCEPT !.sub = <<Select(<<>>)>>]>>,
          !.onDuplicateKeys = <<[Cond(<<"", "a">>, "rexpr") EXCEPT !.text = <<Text>>], Cond(<<"", "b">>, "none")>>], {}),
  \* a Union template without StringReplace, a Select without columns, a With without a statement
  Case(Union(<<Select(<<Ph("", "a"), Ph("", "b")>>)>>, 0), {Both}),
  Case([Select(<<>>) EXCEPT !.columns = <<>>], {<<>>}),
  Case(With(<<Select(<<>>)>>, <<>>), {<<>>}),
  [Case(Select(<<Ph("", "a"), Ph("", "b")>>), {<<>>, Raw(<<V(1), V(2)>>) \o Option("Interpolate")}) EXCEPT !.exts = {<<V(1), V(2)>>}],
  Shared(Case(With(<<Select(<<Ph("", "a")>>)>>, <<Delete(<<Ph("", "b")>>)>>), TwoCols))
>>
=============================================================================
