------------------------------ MODULE StoreData ------------------------------
(***************************************************************************)
(* store: what the factory builds from the rows of the three tables, and   *)
(* what Website, Group, Store and their slices answer.  An object keeps    *)
(* the rows it was built from, so it stands for the versions of the three  *)
(* tables, t = [w, g, s]; version 0 has no rows.                           *)
(***************************************************************************)
EXTENDS Integers, Sequences

CONSTANT Rows    \* version -> [websites, groups, stores], sequences of rows
Table == Rows
AreRows(rows) == rows \in Seq({rows[i] : i \in DOMAIN rows}) /\ \A i \in DOMAIN rows : rows[i].id \in Nat
ASSUME RowsAssumption ==
  \A v \in DOMAIN Rows : /\ v \in Nat \ {0}
                         /\ AreRows(Rows[v].websites) /\ AreRows(Rows[v].groups) /\ AreRows(Rows[v].stores)

Nil == [w |-> 0, g |-> 0, s |-> 0]
Websites(t) == IF t.w = 0 THEN <<>> ELSE Table[t.w].websites
Groups(t) == IF t.g = 0 THEN <<>> ELSE Table[t.g].groups
Stores(t) == IF t.s = 0 THEN <<>> ELSE Table[t.s].stores
IDs(rows) == {rows[i].id : i \in DOMAIN rows}
FindByID(rows, id) ==
  LET found == {i \in DOMAIN rows : rows[i].id = id}
  IN  IF found = {} THEN <<>> ELSE <<rows[CHOOSE i \in found : \A j \in found : i <= j]>>

(* Results: an error, or numbers.                                           *)
Ok(ns) == [err |-> "none", val |-> ns]
Fail(e) == [err |-> e, val |-> <<>>]
NotFound == Fail("NotFound")

(* loadFromOptions: one default website, if there are websites; the         *)
(* factory: groups have a website, stores have both, and these agree.       *)
OneDefault(t) == Websites(t) = <<>> \/ Len(SelectSeq(Websites(t), LAMBDA w : w.default)) = 1
GroupsValid(t) == \A i \in DOMAIN Groups(t) : FindByID(Websites(t), Groups(t)[i].website) # <<>>
StoresValid(t) == \A i \in DOMAIN Stores(t) :
  LET s == Stores(t)[i] IN
  /\ FindByID(Websites(t), s.website) # <<>>
  /\ \E j \in DOMAIN Groups(t) : Groups(t)[j].id = s.group /\ Groups(t)[j].website = s.website

(* Each of these is a sequence: what is found, if anything.                 *)
DefaultWebsite(t) == SelectSeq(Websites(t), LAMBDA w : w.default)
DefaultGroup(t, w) == SelectSeq(Groups(t), LAMBDA g : g.website = w.id /\ g.id = w.dgroup)
DefaultStore(t, w) ==
  LET g == DefaultGroup(t, w)
  IN  IF g = <<>> THEN <<>> ELSE SelectSeq(Stores(t), LAMBDA s : s.website = w.id /\ s.id = g[1].dstore)

(* factory.DefaultStoreID does not look whether the store exists.           *)
FactoryDefaultStoreID(t) ==
  LET w == DefaultWebsite(t)
      g == IF w = <<>> THEN <<>> ELSE FindByID(Groups(t), w[1].dgroup)
  IN  IF g = <<>> THEN NotFound ELSE Ok(<<g[1].dstore>>)

(* The active stores of a run mode.  tw has the default website and its     *)
(* default group, ts the stores: the Service reads them one by one.         *)
ModeGroup(tw, mode) == IF mode.type # "default" \/ DefaultWebsite(tw) = <<>> THEN <<>>
                       ELSE DefaultGroup(tw, DefaultWebsite(tw)[1])
ModeFails(tw, mode) == mode.type = "default" /\ ModeGroup(tw, mode) = <<>>
Matches(mode, s) == CASE mode.type = "store" -> TRUE
                      [] mode.type = "group" -> s.group = mode.id
                      [] OTHER -> s.website = mode.id
Matching(tw, ts, mode) ==
  IF mode.type # "default" THEN SelectSeq(Stores(ts), LAMBDA s : s.active /\ Matches(mode, s))
  ELSE LET w == DefaultWebsite(tw)
           g == ModeGroup(tw, mode)
       IN  SelectSeq(Stores(ts), LAMBDA s : s.active /\ s.website = w[1].id /\ s.group = g[1].id)

ActiveStore(found) == CASE found = <<>> -> NotFound
                        [] found # <<>> /\ ~found[1].active -> Fail("NotValid")
                        [] OTHER -> Ok(<<found[1].id, found[1].website>>)
DefaultOf(t, found) == IF found = <<>> THEN NotFound ELSE ActiveStore(DefaultStore(t, found[1]))
ByCode(tw, ts, mode, code) ==
  LET found == SelectSeq(Matching(tw, ts, mode), LAMBDA s : s.code = code)
  IN  IF ModeFails(tw, mode) \/ found = <<>> THEN NotFound ELSE Ok(<<found[1].id, found[1].website>>)
IsAllowed(tw, ts, mode, id) ==
  LET found == FindByID(Matching(tw, ts, mode), id)
  IN  IF ModeFails(tw, mode) THEN NotFound ELSE Ok(IF found = <<>> THEN <<0>> ELSE <<1, found[1].code>>)
Allowed(tw, ts, mode) ==
  LET found == Matching(tw, ts, mode)
  IN  IF ModeFails(tw, mode) THEN NotFound ELSE Ok([i \in DOMAIN found |-> found[i].id])

(* What a call answers if nothing else happens, on the tables t.  enabled   *)
(* is SingleStoreModeEnabled, flag the configured value, or "fails".        *)
Single(t, enabled) == enabled /\ Len(Stores(t)) < 3
Answer(t, enabled, flag, op) ==
  LET store(id) == FindByID(Stores(t), id)
      default(mode) ==
        CASE mode.type = "store" -> ActiveStore(store(mode.id))
          [] mode.type = "group" -> LET g == FindByID(Groups(t), mode.id)
                                    IN  IF g = <<>> THEN NotFound ELSE ActiveStore(store(g[1].dstore))
          [] mode.type = "website" -> DefaultOf(t, FindByID(Websites(t), mode.id))
          [] OTHER -> DefaultOf(t, DefaultWebsite(t))
      found(rows) == IF rows = <<>> THEN NotFound ELSE Ok(<<rows[1].id>>)
  IN  CASE op.op = "website" -> found(FindByID(Websites(t), op.arg))
        [] op.op = "group" -> found(FindByID(Groups(t), op.arg))
        [] op.op = "store" -> found(store(op.arg))
        [] op.op = "default" -> default(op.mode)
        [] op.op = "code" -> IF op.arg = 0 THEN default([type |-> "default", id |-> 0])
                             ELSE ByCode(t, t, op.mode, op.arg)
        [] op.op = "isAllowed" -> IsAllowed(t, t, op.mode, op.arg)
        [] op.op = "allowed" -> Allowed(t, t, op.mode)
        [] op.op = "view" -> LET id == FactoryDefaultStoreID(t)
                             IN  IF id = NotFound THEN NotFound ELSE found(store(id.val[1]))
        [] op.op = "has" -> Ok(IF Single(t, enabled) THEN <<1>> ELSE <<0>>)
        [] op.op = "single" /\ flag = "fails" -> Fail("Config")
        [] OTHER -> Ok(IF Single(t, enabled) /\ flag = "on" THEN <<1>> ELSE <<0>>)
=============================================================================
