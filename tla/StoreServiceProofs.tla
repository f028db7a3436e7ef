------------------------- MODULE StoreServiceProofs -------------------------
(***************************************************************************)
(* Proofs about store.Service: the invariant that relates its caches, its  *)
(* locks and its goroutines, and why every step of a reload and of a call  *)
(* that looks something up keeps it; a step that ends a call that met no   *)
(* reload gives the answer that is due.  StoreModeProofs has the calls     *)
(* about the single store mode, the run mode and the theorems.             *)
(*                                                                         *)
(* The argument is about who can have run beside whom.  A call or a reload *)
(* that has met no (other) reload knows that no other one is under way, so *)
(* that nobody but itself touches what a reload writes; and what is        *)
(* written while a reload is under way is marked as shaky.                 *)
(***************************************************************************)
EXTENDS StoreService, WellFoundedInduction, TLAPS

(* Zenon first: most leaves are first-order and fast; SMT has the rest.     *)
USE ZenonT(20), SMTT(60), ZenonT(60)

Loading == {"toRead", "toLoad", "loadW", "loadG", "loadS"}
ReloadPcs == {"idle", "toSelect", "select", "toClear", "clear"} \cup Loading
CallPcs == {"idle", "lookup", "website", "group", "store", "websites", "stores", "byCode", "view", "viewCache", "backend",
            "single", "has", "toHas", "setHas", "toSingle", "setSingle"}
Writing == {"clear", "loadW", "loadG", "loadS", "setHas", "setSingle"}
Versions == DOMAIN Rows \cup {0}
Contents == [w : Versions, g : Versions, s : Versions]

(* What the three maps are after a load of t.                               *)
MapW(t) == Cache(IDs(Websites(t)), t, Nothing)
MapG(t) == Cache(IDs(Groups(t)), t, Nothing)
MapS(t) == Cache(IDs(Stores(t)), t, Nothing)

IsOp(op) == op.op \in OpNames /\ op.mode.type \in ModeTypes /\ op.key \in Keys
IsLoc(x) ==
  /\ x = [op |-> x.op, f |-> x.f, todo |-> x.todo, bad |-> x.bad, t |-> x.t, id |-> x.id]
  /\ x.op = NoOp \/ IsOp(x.op)
  /\ x.t \in Contents /\ x.bad \in BOOLEAN /\ x.todo \subseteq {"w", "g", "s"}

(* Types, as far as they matter, and what each goroutine is about.          *)
TypeInv ==
  /\ scen \in Scenarios /\ db \in DOMAIN Rows
  /\ heap \in Seq(Contents) /\ cur \in DOMAIN heap
  /\ pc \in [Procs -> ReloadPcs \cup CallPcs]
  /\ \A p \in Reloaders : pc[p] \in ReloadPcs
  /\ \A p \in Callers : pc[p] \in CallPcs
  /\ loc = [p \in Procs |-> loc[p]]
  /\ \A p \in Procs : IsLoc(loc[p]) /\ loc[p].f \in DOMAIN heap
  /\ ans = [p \in Procs |-> ans[p]]
  /\ met \in [Procs -> BOOLEAN]
  /\ single \in [Keys -> {"none", "yes", "no"}]
  /\ caches = [w |-> caches.w, g |-> caches.g, s |-> caches.s]
  /\ slices \in [w : Contents, g : Contents, s : Contents]
  /\ installed \in [ok : BOOLEAN, t : Contents]

(* The mutexes are held by those who are inside.                            *)
LockInv ==
  /\ \A p \in Procs : pc[p] \in Writing => wlock = p
  /\ wlock \in Procs \cup {0} /\ (wlock # 0 => pc[wlock] \in Writing)
  /\ \A f \in fmu : \E r \in Reloaders : pc[r] = "select" /\ loc[r].f = f

(* Who has met no reload is alone.                                          *)
AloneInv == \A p \in Procs : pc[p] # "idle" /\ ~met[p] => \A r \in Reloaders \ {p} : pc[r] = "idle"

(* While a reload that is alone loads, the caches hold what it has loaded,  *)
(* and flags that were set meanwhile are shaky.                             *)
LoadInv ==
  \A p \in Reloaders : pc[p] \in Loading /\ ~met[p] =>
    /\ pc[p] \in {"toRead", "toLoad", "loadW"} => caches = [w |-> Nothing, g |-> Nothing, s |-> Nothing]
    /\ pc[p] = "loadG" => caches = [w |-> MapW(loc[p].t), g |-> Nothing, s |-> Nothing] /\ slices.w = loc[p].t
    /\ pc[p] = "loadS" => /\ caches = [w |-> MapW(loc[p].t), g |-> MapG(loc[p].t), s |-> Nothing]
                          /\ slices.w = loc[p].t /\ slices.g = loc[p].t
    /\ \A k \in Keys : k \notin shaky => single[k] = "none"
    /\ "view" \notin shaky => defID = -1

(* After a load that went well, until the next one clears the caches.       *)
OkInv ==
  installed.ok =>
    /\ \A p \in Reloaders : pc[p] \notin Loading
    /\ caches = [w |-> MapW(installed.t), g |-> MapG(installed.t), s |-> MapS(installed.t)]
    /\ slices = [w |-> installed.t, g |-> installed.t, s |-> installed.t]
    /\ \A k \in Keys : k \notin shaky => single[k] \in {"none"} \cup Flags(installed.t, k)
    /\ "view" \notin shaky => defID = -1 \/ Ok(<<defID>>) = FactoryDefaultStoreID(installed.t)

(* Where a call is for what: the flags of a scope that cannot be read are   *)
(* never cached.                                                            *)
LocalFlag(p) ==
  /\ pc[p] \in {"has", "toHas", "setHas", "toSingle", "setSingle"} =>
       loc[p].op.op = "has" \/ (loc[p].op.op = "single" /\ scen.flag[loc[p].op.key] # "fails")
  /\ pc[p] \in {"single", "toSingle", "setSingle"} => loc[p].op.op = "single"
FlagInv ==
  /\ single["scope"] # "none" => scen.flag["scope"] # "fails"
  /\ \A p \in Callers : LocalFlag(p)

(* What a call that has met no reload carries from step to step.            *)
Carries(p, t) ==
  LET op == loc[p].op IN
  /\ pc[p] \in {"toSingle", "setSingle"} => YesNo(loc[p].bad) \in Flags(t, op.key)
  /\ pc[p] = "lookup" => op.op \in {"website", "group", "store"}
  /\ pc[p] \in {"website", "group"} => op.op = "default" /\ op.mode.type = pc[p] /\ loc[p].id = op.mode.id
  /\ pc[p] = "byCode" => op.op = "code" /\ op.arg # 0
  /\ pc[p] = "websites" => \/ op.op \in {"default", "isAllowed", "allowed"} /\ op.mode.type = "default"
                           \/ op.op = "code" /\ op.arg = 0
  /\ pc[p] = "stores" => op.op \in {"isAllowed", "allowed"} /\ (op.mode.type = "default" => loc[p].t = t /\ ~ModeFails(t, op.mode))
  /\ pc[p] \in {"view", "viewCache", "backend"} => op.op = "view"
  /\ pc[p] = "store" => \/ op.op = "default" /\ ActiveStore(FindByID(Stores(t), loc[p].id)) = Due(op)
                        \/ op.op = "view" /\ (heap[cur] = t => FactoryDefaultStoreID(t) = Ok(<<loc[p].id>>))
CarryInv == installed.ok => \A p \in Callers : pc[p] # "idle" /\ ~met[p] => Carries(p, installed.t)

IInv == TypeInv /\ LockInv /\ AloneInv /\ LoadInv /\ OkInv /\ FlagInv /\ CarryInv
-----------------------------------------------------------------------------
(* The tables and their look-ups.                                           *)
LEMMA LeastNumber ==
  ASSUME NEW S \in SUBSET Nat, S # {}
  PROVE  \E n \in S : \A m \in S : n <= m
<1>1. PICK n \in S : \A y \in S : ~(<<y, n>> \in OpToRel(<, Nat))
  BY NatLessThanWellFounded, WFMin
<1>2. \A y \in S : ~(y < n)
  BY <1>1 DEF OpToRel
<1> QED BY SMTT(60), Z3T(60), <1>2

(* FindByID finds a row if there is one, and a row with that id.            *)
LEMMA FindFacts ==
  ASSUME NEW rows, AreRows(rows), NEW id
  PROVE  /\ FindByID(rows, id) = <<>> <=> id \notin IDs(rows)
         /\ id \in IDs(rows) => FindByID(rows, id)[1].id = id
<1> DEFINE found == {i \in DOMAIN rows : rows[i].id = id}
           pick == CHOOSE i \in found : \A j \in found : i <= j
<1>1. found = {} <=> id \notin IDs(rows)
  BY DEF IDs
<1>2. found # {} => pick \in found
  <2>1. DOMAIN rows \subseteq Nat
    BY DEF AreRows
  <2>2. found # {} => \E i \in found : \A j \in found : i <= j
    BY <2>1, LeastNumber
  <2> QED BY <2>2
<1>3. found # {} => FindByID(rows, id) = <<rows[pick]>>
  BY DEF FindByID
<1>4. found = {} => FindByID(rows, id) = <<>>
  BY DEF FindByID
<1>5. found # {} => rows[pick].id = id
  BY <1>2
<1> HIDE DEF found, pick
<1> QED BY <1>1, <1>3, <1>4, <1>5

LEMMA NoRows ==
  AreRows(<<>>) /\ IDs(<<>>) = {}
BY DEF AreRows, IDs

LEMMA TableFacts ==
  ASSUME NEW t \in Contents
  PROVE  /\ AreRows(Websites(t)) /\ AreRows(Groups(t)) /\ AreRows(Stores(t))
         /\ IDs(Websites(t)) \subseteq AllIDs /\ IDs(Groups(t)) \subseteq AllIDs /\ IDs(Stores(t)) \subseteq AllIDs
         /\ t = Nil => IDs(Websites(t)) = {} /\ IDs(Groups(t)) = {} /\ IDs(Stores(t)) = {}
<1>1. t.w \in Versions /\ t.g \in Versions /\ t.s \in Versions
  BY DEF Contents
<1>2. AreRows(Websites(t)) /\ AreRows(Groups(t)) /\ AreRows(Stores(t))
  BY <1>1, NoRows, RowsAssumption DEF Websites, Groups, Stores, Versions, Table
<1>3. \A v \in DOMAIN Rows : IDs(Rows[v].websites) \subseteq AllIDs /\ IDs(Rows[v].groups) \subseteq AllIDs
                             /\ IDs(Rows[v].stores) \subseteq AllIDs
  BY SMTT(60), Z3T(60) DEF AllIDs, Table
<1>4. /\ IDs(Websites(t)) \subseteq AllIDs
      /\ IDs(Groups(t)) \subseteq AllIDs
      /\ IDs(Stores(t)) \subseteq AllIDs
  BY <1>1, <1>3, NoRows DEF Websites, Groups, Stores, Versions, Table
<1>5. t = Nil => IDs(Websites(t)) = {} /\ IDs(Groups(t)) = {} /\ IDs(Stores(t)) = {}
  BY NoRows DEF Websites, Groups, Stores, Nil
<1> QED BY <1>2, <1>4, <1>5

LEMMA IDsAreNatural ==
  AllIDs \subseteq Nat
<1>1. ASSUME NEW rows, AreRows(rows) PROVE IDs(rows) \subseteq Nat
  BY <1>1 DEF AreRows, IDs
<1>2. \A v \in DOMAIN Rows : IDs(Rows[v].websites) \cup IDs(Rows[v].groups) \cup IDs(Rows[v].stores) \subseteq Nat
  BY <1>1, RowsAssumption
<1> QED BY <1>2 DEF AllIDs, Table

LEMMA NilFacts ==
  /\ Nil \in Contents
  /\ Websites(Nil) = <<>> /\ Groups(Nil) = <<>> /\ Stores(Nil) = <<>>
BY DEF Nil, Contents, Versions, Websites, Groups, Stores

(* A map of the Service answers as the tables that it was built from.       *)
LEMMA CacheFinds ==
  ASSUME NEW t \in Contents, NEW id
  PROVE  /\ Cached(MapW(t), id) = IF id \in IDs(Websites(t)) THEN t ELSE Nil
         /\ Cached(MapG(t), id) = IF id \in IDs(Groups(t)) THEN t ELSE Nil
         /\ Cached(MapS(t), id) = IF id \in IDs(Stores(t)) THEN t ELSE Nil
BY TableFacts DEF Cached, MapW, MapG, MapS, Cache, Nothing

LEMMA FoundIsDue ==
  ASSUME NEW t \in Contents, NEW id
  PROVE  /\ FindByID(Websites(Cached(MapW(t), id)), id) = FindByID(Websites(t), id)
         /\ FindByID(Groups(Cached(MapG(t), id)), id) = FindByID(Groups(t), id)
         /\ FindByID(Stores(Cached(MapS(t), id)), id) = FindByID(Stores(t), id)
         /\ Cached(MapW(t), id) = Nil <=> FindByID(Websites(t), id) = <<>>
         /\ Cached(MapG(t), id) = Nil <=> FindByID(Groups(t), id) = <<>>
         /\ Cached(MapS(t), id) = Nil <=> FindByID(Stores(t), id) = <<>>
<1>1. FindByID(<<>>, id) = <<>>
  BY NoRows, FindFacts
<1>2. /\ FindByID(Websites(t), id) = <<>> <=> id \notin IDs(Websites(t))
      /\ FindByID(Groups(t), id) = <<>> <=> id \notin IDs(Groups(t))
      /\ FindByID(Stores(t), id) = <<>> <=> id \notin IDs(Stores(t))
  BY TableFacts, FindFacts
<1>3. t = Nil => IDs(Websites(t)) = {} /\ IDs(Groups(t)) = {} /\ IDs(Stores(t)) = {}
  BY TableFacts
<1> QED BY <1>1, <1>2, <1>3, CacheFinds, NilFacts
-----------------------------------------------------------------------------
(* How a step that moves one goroutine keeps the invariant.                 *)
LocksMove(p, l) ==
  \/ l \in Writing /\ pc[p] \notin Writing /\ wlock = 0 /\ wlock' = p
  \/ l \in Writing /\ pc[p] \in Writing /\ wlock' = wlock
  \/ l \notin Writing /\ pc[p] \in Writing /\ wlock' = 0
  \/ l \notin Writing /\ pc[p] \notin Writing /\ wlock' = wlock
Moves(p, l, x) == Goto(p, l, x) /\ IsLoc(x) /\ LocksMove(p, l)

LEMMA MoveFacts ==
  ASSUME TypeInv, LockInv, NEW p \in Procs, NEW l, NEW x, Moves(p, l, x)
  PROVE  /\ pc'[p] = l /\ loc'[p] = x
         /\ \A q \in Procs \ {p} : pc'[q] = pc[q] /\ loc'[q] = loc[q]
         /\ loc' = [q \in Procs |-> loc'[q]]
         /\ \A q \in Procs : pc'[q] \in Writing => wlock' = q
         /\ wlock' \in Procs \cup {0} /\ (wlock' # 0 => pc'[wlock'] \in Writing)
<1>1. /\ pc'[p] = l /\ loc'[p] = x
      /\ \A q \in Procs \ {p} : pc'[q] = pc[q] /\ loc'[q] = loc[q]
      /\ loc' = [q \in Procs |-> loc'[q]]
  <2>1. loc = [q \in Procs |-> loc[q]] /\ DOMAIN pc = Procs
    BY DEF TypeInv
  <2>2. DOMAIN loc = Procs
    BY <2>1
  <2>3. pc' = [pc EXCEPT ![p] = l] /\ loc' = [loc EXCEPT ![p] = x]
    BY DEF Moves, Goto
  <2>4. loc' = [q \in Procs |-> IF q = p THEN x ELSE loc[q]]
    BY <2>1, <2>2, <2>3
  <2>5. loc' = [q \in Procs |-> loc'[q]]
    BY <2>4
  <2> QED BY <2>1, <2>2, <2>3, <2>5
<1>2. 0 \notin Procs
  BY StoreAssumption DEF Procs
<1>3. LocksMove(p, l)
  BY DEF Moves
<1>4. \A q \in Procs : pc'[q] \in Writing => wlock' = q
  BY SMTT(60), Z3T(60), <1>1, <1>2, <1>3 DEF LocksMove, LockInv
<1>5. wlock' \in Procs \cup {0} /\ (wlock' # 0 => pc'[wlock'] \in Writing)
  BY <1>1, <1>2, <1>3 DEF LocksMove, LockInv
<1> QED BY <1>1, <1>4, <1>5

(* What a call may write: its flags are shaky if it has met a reload.       *)
FlagsWritten(p) ==
  /\ single' \in [Keys -> {"none", "yes", "no"}]
  /\ single'["scope"] # "none" => scen.flag["scope"] # "fails"
  /\ \A k \in Keys : k \notin shaky' =>
       \/ single'[k] = single[k] /\ k \notin shaky
       \/ ~met[p] /\ (installed.ok => single'[k] \in {"none"} \cup Flags(installed.t, k))
  /\ "view" \notin shaky' =>
       \/ defID' = defID /\ "view" \notin shaky
       \/ ~met[p] /\ (installed.ok => Ok(<<defID'>>) = FactoryDefaultStoreID(installed.t))

LEMMA CallerMoves ==
  ASSUME IInv, NEW p \in Callers, NEW l \in CallPcs, NEW x, pc[p] # "idle",
         Moves(p, l, x), x.f \in DOMAIN heap,
         UNCHANGED <<scen, db, heap, cur, fmu, slices, caches, installed>>,
         ans' = [q \in Procs |-> ans'[q]],
         met' \in [Procs -> BOOLEAN], \A q \in Procs \ {p} : met'[q] = met[q], met[p] => met'[p],
         FlagsWritten(p), LocalFlag(p)',
         installed.ok /\ l # "idle" /\ ~met'[p] => Carries(p, installed.t)'
  PROVE  IInv'
<1> USE DEF IInv
<1>0. p \in Procs /\ p \notin Reloaders
  BY StoreAssumption DEF Procs
<1>1. /\ pc'[p] = l /\ loc'[p] = x
      /\ \A q \in Procs \ {p} : pc'[q] = pc[q] /\ loc'[q] = loc[q]
      /\ loc' = [q \in Procs |-> loc'[q]]
      /\ \A q \in Procs : pc'[q] \in Writing => wlock' = q
      /\ wlock' \in Procs \cup {0} /\ (wlock' # 0 => pc'[wlock'] \in Writing)
  BY <1>0, MoveFacts
<1>2. Reloaders \subseteq Procs \ {p} /\ Callers \subseteq Procs
  BY <1>0 DEF Procs
<1>3. TypeInv'
  <2>1. pc' \in [Procs -> ReloadPcs \cup CallPcs]
    BY <1>0 DEF TypeInv, Moves, Goto
  <2>2. \A q \in Procs : IsLoc(loc'[q]) /\ loc'[q].f \in DOMAIN heap
    BY <1>0, <1>1 DEF TypeInv, Moves
  <2>3. \A q \in Procs : IsLoc(loc[q])' /\ (loc[q].f \in DOMAIN heap)'
    BY <2>2 DEF IsLoc
  <2> QED BY <1>0, <1>1, <1>2, <2>1, <2>3 DEF TypeInv, FlagsWritten
<1>4. LockInv'
  BY SMTT(60), Z3T(60), <1>1, <1>2 DEF LockInv
<1>5. AloneInv'
  <2> SUFFICES ASSUME NEW q \in Procs, pc'[q] # "idle", ~met'[q], NEW r \in Reloaders \ {q}
               PROVE  pc'[r] = "idle"
    BY DEF AloneInv
  <2>1. pc[q] # "idle" /\ ~met[q]
    BY <1>1
  <2>2. pc[r] = "idle"
    BY <2>1 DEF AloneInv
  <2> QED BY <1>1, <1>2, <2>2
<1>6. ASSUME NEW r \in Reloaders, pc[r] # "idle" PROVE met[p]
  BY SMTT(60), Z3T(60), <1>0, <1>6 DEF AloneInv, TypeInv
<1>7. LoadInv'
  <2> SUFFICES ASSUME NEW r \in Reloaders, pc[r] \in Loading, ~met[r]
               PROVE  /\ \A k \in Keys : k \notin shaky' => single'[k] = "none"
                      /\ "view" \notin shaky' => defID' = -1
    BY SMTT(60), Z3T(60), <1>1, <1>2 DEF LoadInv
  <2>1. met[p]
    BY <1>6 DEF Loading
  <2> QED BY <2>1 DEF LoadInv, FlagsWritten
<1>8. OkInv'
  <2> SUFFICES ASSUME installed.ok PROVE OkInv'
    BY DEF OkInv
  <2>1. \A k \in Keys : k \notin shaky' => single'[k] \in {"none"} \cup Flags(installed.t, k)
    BY DEF OkInv, FlagsWritten
  <2>2. "view" \notin shaky' => defID' = -1 \/ Ok(<<defID'>>) = FactoryDefaultStoreID(installed.t)
    BY DEF OkInv, FlagsWritten
  <2>3. \A k \in Keys : Flags(installed.t, k)' = Flags(installed.t, k)
    BY DEF Flags, HasFlags
  <2> QED BY <1>1, <1>2, <2>1, <2>2, <2>3 DEF OkInv, Flags, HasFlags
<1>9. FlagInv'
  <2>1. \A q \in Callers \ {p} : LocalFlag(q)'
    BY SMTT(60), Z3T(60), <1>1, <1>2 DEF FlagInv, LocalFlag
  <2> QED BY <2>1 DEF FlagInv, FlagsWritten
<1>10. CarryInv'
  <2> SUFFICES ASSUME installed.ok, NEW q \in Callers \ {p}, pc[q] # "idle", ~met[q]
               PROVE  Carries(q, installed.t)'
    BY <1>0, <1>1, <1>2 DEF CarryInv
  <2>1. Carries(q, installed.t)
    BY DEF CarryInv
  <2>2. pc'[q] = pc[q] /\ loc'[q] = loc[q]
    BY <1>1, <1>2
  <2> QED BY <2>1, <2>2 DEF Carries, Due, Flags, HasFlags
<1> QED BY <1>3, <1>4, <1>5, <1>7, <1>8, <1>9, <1>10

FactoriesMove(p, l, x) ==
  \A f \in fmu' : (f \in fmu /\ (pc[p] = "select" => f # loc[p].f)) \/ (l = "select" /\ f = x.f)

(* A reload in progress: the calls beside it have met it.                   *)
LEMMA ReloaderMoves ==
  ASSUME IInv, NEW p \in Reloaders, NEW l \in ReloadPcs, NEW x, pc[p] # "idle",
         Moves(p, l, x), x.f \in DOMAIN heap', FactoriesMove(p, l, x),
         UNCHANGED <<scen, db, met>>,
         heap' \in Seq(Contents), cur' \in DOMAIN heap', DOMAIN heap \subseteq DOMAIN heap',
         ans' = [q \in Procs |-> ans'[q]],
         single' \in [Keys -> {"none", "yes", "no"}], single'["scope"] # "none" => single["scope"] # "none",
         caches' = [w |-> caches'.w, g |-> caches'.g, s |-> caches'.s],
         slices' \in [w : Contents, g : Contents, s : Contents],
         installed' \in [ok : BOOLEAN, t : Contents],
         LoadInv', OkInv'
  PROVE  IInv'
<1> USE DEF IInv
<1>0. p \in Procs /\ p \notin Callers
  BY StoreAssumption DEF Procs
<1>1. /\ pc'[p] = l /\ loc'[p] = x
      /\ \A q \in Procs \ {p} : pc'[q] = pc[q] /\ loc'[q] = loc[q]
      /\ loc' = [q \in Procs |-> loc'[q]]
      /\ \A q \in Procs : pc'[q] \in Writing => wlock' = q
      /\ wlock' \in Procs \cup {0} /\ (wlock' # 0 => pc'[wlock'] \in Writing)
  BY <1>0, MoveFacts
<1>2. Callers \subseteq Procs \ {p} /\ Reloaders \subseteq Procs
  BY <1>0 DEF Procs
<1>3. TypeInv'
  <2>1. pc' \in [Procs -> ReloadPcs \cup CallPcs]
    BY <1>0 DEF TypeInv, Moves, Goto
  <2>2. \A q \in Procs : IsLoc(loc'[q]) /\ loc'[q].f \in DOMAIN heap'
    BY <1>0, <1>1 DEF TypeInv, Moves
  <2>3. \A q \in Procs : IsLoc(loc[q])' /\ (loc[q].f \in DOMAIN heap)'
    BY <2>2 DEF IsLoc
  <2> QED BY <1>0, <1>1, <1>2, <2>1, <2>3 DEF TypeInv
<1>4. LockInv'
  <2>1. ASSUME NEW f \in fmu' PROVE \E r \in Reloaders : pc'[r] = "select" /\ loc'[r].f = f
    <3>1. CASE l = "select" /\ f = x.f
      BY <1>1, <3>1
    <3>2. CASE f \in fmu /\ (pc[p] = "select" => f # loc[p].f)
      <4>1. PICK r \in Reloaders : pc[r] = "select" /\ loc[r].f = f
        BY <3>2 DEF LockInv
      <4> QED BY <1>1, <1>2, <3>2, <4>1
    <3> QED BY <3>1, <3>2 DEF FactoriesMove
  <2> QED BY <1>1, <2>1 DEF LockInv
<1>5. AloneInv'
  <2> SUFFICES ASSUME NEW q \in Procs, pc'[q] # "idle", ~met'[q], NEW r \in Reloaders \ {q}
               PROVE  pc'[r] = "idle"
    BY DEF AloneInv
  <2>1. pc[q] # "idle" /\ ~met[q]
    BY <1>1
  <2>2. pc[r] = "idle"
    BY <2>1 DEF AloneInv
  <2> QED BY <1>1, <1>2, <2>2
<1>6. ASSUME NEW q \in Callers, pc[q] # "idle" PROVE met[q]
  BY <1>0, <1>2, <1>6 DEF AloneInv, TypeInv
<1>7. FlagInv'
  <2>1. \A q \in Callers : LocalFlag(q)'
    BY SMTT(60), Z3T(60), <1>1, <1>2 DEF FlagInv, LocalFlag
  <2> QED BY <2>1 DEF FlagInv
<1>8. CarryInv'
  BY <1>1, <1>2, <1>6 DEF CarryInv
<1> QED BY <1>3, <1>4, <1>5, <1>7, <1>8

(* A reload before it clears the caches, or at its end, leaves them.        *)
LEMMA ReloaderWaits ==
  ASSUME IInv, NEW p \in Reloaders, NEW l \in ReloadPcs \ Loading, NEW x, Moves(p, l, x), pc[p] \notin Loading,
         UNCHANGED <<scen, met, caches, slices, single, defID, installed, shaky>>
  PROVE  LoadInv' /\ OkInv'
<1> USE DEF IInv
<1>0. p \in Procs /\ Reloaders \subseteq Procs
  BY DEF Procs
<1>1. pc'[p] = l /\ \A q \in Procs \ {p} : pc'[q] = pc[q] /\ loc'[q] = loc[q]
  BY <1>0, MoveFacts
<1>2. LoadInv'
  BY SMTT(60), Z3T(60), <1>0, <1>1 DEF LoadInv
<1>3. OkInv'
  BY <1>0, <1>1 DEF OkInv, Flags, HasFlags
<1> QED BY <1>2, <1>3

LEMMA IdleFacts ==
  ASSUME TypeInv
  PROVE  IsLoc(Idle) /\ Idle.f \in DOMAIN heap
BY SMTT(60), Z3T(60), NilFacts DEF Idle, IsLoc, TypeInv
-----------------------------------------------------------------------------
(* The steps of a reload.                                                   *)
LEMMA WhoIs ==
  ASSUME TypeInv, NEW p \in Procs
  PROVE  /\ pc[p] \in ReloadPcs \ {"idle"} => p \in Reloaders
         /\ pc[p] \in CallPcs \ {"idle"} => p \in Callers
BY DEF TypeInv, Procs, ReloadPcs, CallPcs, Loading

LEMMA DataTypes ==
  ASSUME TypeInv
  PROVE  /\ heap \in Seq(Contents) /\ cur \in DOMAIN heap
         /\ slices \in [w : Contents, g : Contents, s : Contents]
         /\ \A p \in Procs : loc[p].t \in Contents
BY DEF TypeInv, IsLoc

LEMMA ReloaderFacts ==
  ASSUME IInv, NEW p \in Reloaders, pc[p] # "idle"
  PROVE  /\ p \in Procs /\ Reloaders \subseteq Procs /\ IsLoc(loc[p]) /\ loc[p].f \in DOMAIN heap
         /\ \A r \in Reloaders \ {p} : pc[r] # "idle" => met[r]
         /\ pc[p] \in Loading => ~installed.ok
<1> USE DEF IInv
<1>1. p \in Procs /\ Reloaders \subseteq Procs
  BY DEF Procs
<1>2. IsLoc(loc[p]) /\ loc[p].f \in DOMAIN heap
  BY <1>1 DEF TypeInv
<1>3. \A r \in Reloaders \ {p} : pc[r] # "idle" => met[r]
  BY <1>1 DEF AloneInv, TypeInv
<1>4. pc[p] \in Loading => ~installed.ok
  BY DEF OkInv
<1> QED BY <1>1, <1>2, <1>3, <1>4

LEMMA AnsFacts ==
  ASSUME TypeInv, NEW p \in Procs, NEW a
  PROVE  /\ ans' = ans => ans' = [q \in Procs |-> ans'[q]]
         /\ ans' = [ans EXCEPT ![p] = a] => ans' = [q \in Procs |-> ans'[q]]
<1>1. ans = [q \in Procs |-> ans[q]]
  BY DEF TypeInv
<1>2. DOMAIN ans = Procs
  BY <1>1
<1>3. ASSUME ans' = [ans EXCEPT ![p] = a] PROVE ans' = [q \in Procs |-> ans'[q]]
  <2>1. ans' = [q \in Procs |-> IF q = p THEN a ELSE ans[q]]
    BY <1>1, <1>2, <1>3
  <2> QED BY <2>1
<1> QED BY <1>1, <1>3

(* What a goroutine has at hand, with some of it replaced.                  *)
LEMMA LocTables ==
  ASSUME NEW x, IsLoc(x), NEW t \in Contents, NEW y, y = [x EXCEPT !.t = t]
  PROVE  IsLoc(y) /\ y.f = x.f /\ y.t = t /\ y.op = x.op /\ y.id = x.id
<1>1. x = [op |-> x.op, f |-> x.f, todo |-> x.todo, bad |-> x.bad, t |-> x.t, id |-> x.id]
  BY DEF IsLoc
<1>2. y = [op |-> x.op, f |-> x.f, todo |-> x.todo, bad |-> x.bad, t |-> t, id |-> x.id]
  BY <1>1
<1>3. IsLoc(y)
  BY <1>2 DEF IsLoc
<1> QED BY <1>2, <1>3

LEMMA LocID ==
  ASSUME NEW x, IsLoc(x), NEW id, NEW y, y = [x EXCEPT !.id = id]
  PROVE  IsLoc(y) /\ y.f = x.f /\ y.id = id /\ y.op = x.op
<1>1. x = [op |-> x.op, f |-> x.f, todo |-> x.todo, bad |-> x.bad, t |-> x.t, id |-> x.id]
  BY DEF IsLoc
<1>2. y = [op |-> x.op, f |-> x.f, todo |-> x.todo, bad |-> x.bad, t |-> x.t, id |-> id]
  BY <1>1
<1>3. IsLoc(y)
  BY <1>2 DEF IsLoc
<1> QED BY <1>2, <1>3

LEMMA LocBad ==
  ASSUME NEW x, IsLoc(x), NEW b \in BOOLEAN, NEW y, y = [x EXCEPT !.bad = b]
  PROVE  IsLoc(y) /\ y.f = x.f /\ y.bad = b /\ y.op = x.op
<1>1. x = [op |-> x.op, f |-> x.f, todo |-> x.todo, bad |-> x.bad, t |-> x.t, id |-> x.id]
  BY DEF IsLoc
<1>2. y = [op |-> x.op, f |-> x.f, todo |-> x.todo, bad |-> b, t |-> x.t, id |-> x.id]
  BY <1>1
<1>3. IsLoc(y)
  BY <1>2 DEF IsLoc
<1> QED BY <1>2, <1>3

LEMMA LockFactoryInv ==
  ASSUME IInv, NEW p \in Procs, LockFactory(p) PROVE IInv'
<1> USE DEF IInv
<1>1. p \in Reloaders /\ pc[p] = "toSelect"
  BY WhoIs DEF LockFactory, ReloadPcs
<1>2. IsLoc(loc[p]) /\ loc[p].f \in DOMAIN heap
  BY <1>1, ReloaderFacts
<1>3. Moves(p, "select", loc[p]) /\ "select" \in ReloadPcs \ Loading
  BY <1>1, <1>2 DEF LockFactory, Moves, LocksMove, Writing, ReloadPcs, Loading
<1>4. FactoriesMove(p, "select", loc[p])
  BY <1>1 DEF LockFactory, FactoriesMove
<1>5. LoadInv' /\ OkInv'
  <2>1. pc[p] \notin Loading
    BY <1>1 DEF Loading
  <2> QED BY <1>1, <1>3, <2>1, ReloaderWaits DEF LockFactory, histVars
<1>6. ans' = [q \in Procs |-> ans'[q]]
  BY AnsFacts DEF LockFactory
<1>7. /\ UNCHANGED <<scen, db, met, heap, cur, single, caches, slices, installed>>
      /\ heap \in Seq(Contents) /\ cur \in DOMAIN heap /\ single \in [Keys -> {"none", "yes", "no"}]
      /\ caches = [w |-> caches.w, g |-> caches.g, s |-> caches.s]
      /\ slices \in [w : Contents, g : Contents, s : Contents] /\ installed \in [ok : BOOLEAN, t : Contents]
  BY DEF LockFactory, TypeInv, histVars
<1> QED BY <1>1, <1>2, <1>3, <1>4, <1>5, <1>6, <1>7, ReloaderMoves

LEMMA SelectInv ==
  ASSUME IInv, NEW p \in Procs, Select(p) PROVE IInv'
<1> USE DEF IInv
<1>1. p \in Reloaders /\ pc[p] = "select"
  BY WhoIs DEF Select, ReloadPcs
<1>2. IsLoc(loc[p]) /\ loc[p].f \in DOMAIN heap
  BY <1>1, ReloaderFacts
<1>3. PICK x \in loc[p].todo, v \in {db} \cup (IF scen.fails THEN {0} ELSE {}) :
        /\ heap' = [heap EXCEPT ![loc[p].f][x] = v]
        /\ loc' = [loc EXCEPT ![p].todo = @ \ {x}, ![p].bad = @ \/ v = 0]
  BY DEF Select
<1> DEFINE y == [loc[p] EXCEPT !.todo = @ \ {x}, !.bad = @ \/ v = 0]
<1>4. IsLoc(y) /\ y.f = loc[p].f
  <2>1. (loc[p].bad \/ v = 0) \in BOOLEAN
    OBVIOUS
  <2>2. PICK td \in SUBSET {"w", "g", "s"} : td = loc[p].todo \ {x}
    BY <1>2 DEF IsLoc
  <2>3. PICK b \in BOOLEAN : b = (loc[p].bad \/ v = 0)
    BY <2>1
  <2>4. y = [loc[p] EXCEPT !.todo = td, !.bad = b]
    BY <2>2, <2>3
  <2> HIDE DEF y
  <2>5. loc[p] = [op |-> loc[p].op, f |-> loc[p].f, todo |-> loc[p].todo, bad |-> loc[p].bad, t |-> loc[p].t, id |-> loc[p].id]
    BY <1>2 DEF IsLoc
  <2>6. y = [op |-> loc[p].op, f |-> loc[p].f, todo |-> td, bad |-> b, t |-> loc[p].t, id |-> loc[p].id]
    BY <2>4, <2>5
  <2>7. IsLoc(y)
    BY <1>2, <2>6 DEF IsLoc
  <2> QED BY <2>6, <2>7
<1>5. DOMAIN loc = Procs /\ DOMAIN pc = Procs
  <2>1. loc = [q \in Procs |-> loc[q]] /\ DOMAIN pc = Procs
    BY DEF TypeInv
  <2> QED BY <2>1
<1>6. loc' = [loc EXCEPT ![p] = y]
  BY <1>3, <1>5
<1> HIDE DEF y
<1>7. pc' = [pc EXCEPT ![p] = "select"]
  BY <1>1, <1>5 DEF Select, TypeInv
<1>8. Moves(p, "select", y) /\ "select" \in ReloadPcs \ Loading
  BY <1>1, <1>4, <1>6, <1>7 DEF Select, Moves, Goto, LocksMove, Writing, ReloadPcs, Loading
<1>9. FactoriesMove(p, "select", y)
  BY <1>1, <1>4 DEF Select, FactoriesMove
<1>10. LoadInv' /\ OkInv'
  <2>1. pc[p] \notin Loading
    BY <1>1 DEF Loading
  <2> QED BY <1>1, <1>8, <2>1, ReloaderWaits DEF Select, histVars
<1>11. ans' = [q \in Procs |-> ans'[q]]
  BY AnsFacts DEF Select
<1>12. heap' \in Seq(Contents) /\ DOMAIN heap' = DOMAIN heap
  <2>1. heap[loc[p].f] \in Contents /\ heap \in Seq(Contents)
    BY SMTT(60), Z3T(60), <1>2 DEF TypeInv
  <2>2. x \in {"w", "g", "s"} /\ v \in Versions
    BY <1>2 DEF IsLoc, TypeInv, Versions
  <2>3. [heap[loc[p].f] EXCEPT ![x] = v] \in Contents
    BY <2>1, <2>2 DEF Contents
  <2>4. heap' = [heap EXCEPT ![loc[p].f] = [heap[loc[p].f] EXCEPT ![x] = v]]
    BY <1>3
  <2> QED BY SMTT(60), Z3T(60), <1>2, <2>1, <2>3, <2>4
<1>13. /\ UNCHANGED <<scen, db, met, cur, single, caches, slices, installed>>
       /\ cur \in DOMAIN heap /\ single \in [Keys -> {"none", "yes", "no"}]
       /\ caches = [w |-> caches.w, g |-> caches.g, s |-> caches.s]
       /\ slices \in [w : Contents, g : Contents, s : Contents] /\ installed \in [ok : BOOLEAN, t : Contents]
  BY DEF Select, TypeInv, histVars
<1> QED BY <1>1, <1>2, <1>4, <1>8, <1>9, <1>10, <1>11, <1>12, <1>13, ReloaderMoves

LEMMA SelectedInv ==
  ASSUME IInv, NEW p \in Procs, Selected(p) PROVE IInv'
<1> USE DEF IInv
<1>1. p \in Reloaders /\ pc[p] = "select"
  BY WhoIs DEF Selected, ReloadPcs
<1>2. IsLoc(loc[p]) /\ loc[p].f \in DOMAIN heap
  BY <1>1, ReloaderFacts
<1>3. PICK l \in {"idle", "toClear"}, x \in {Idle, loc[p]} : Goto(p, l, x)
  BY DEF Selected, Finish
<1>4. IsLoc(x) /\ x.f \in DOMAIN heap
  BY <1>2, IdleFacts
<1>5. Moves(p, l, x) /\ l \in ReloadPcs \ Loading
  BY <1>1, <1>3, <1>4 DEF Selected, Moves, LocksMove, Writing, ReloadPcs, Loading
<1>6. FactoriesMove(p, l, x)
  BY <1>1 DEF Selected, FactoriesMove
<1>7. /\ UNCHANGED <<scen, db, met, heap, cur, single, defID, caches, slices, installed, shaky>>
      /\ heap \in Seq(Contents) /\ cur \in DOMAIN heap /\ single \in [Keys -> {"none", "yes", "no"}]
      /\ caches = [w |-> caches.w, g |-> caches.g, s |-> caches.s]
      /\ slices \in [w : Contents, g : Contents, s : Contents] /\ installed \in [ok : BOOLEAN, t : Contents]
  BY DEF Selected, TypeInv, histVars
<1>8. LoadInv' /\ OkInv'
  <2>1. pc[p] \notin Loading
    BY <1>1 DEF Loading
  <2> QED BY <1>1, <1>5, <1>7, <2>1, ReloaderWaits
<1>9. ans' = [q \in Procs |-> ans'[q]]
  BY AnsFacts DEF Selected, Finish
<1> QED BY <1>1, <1>4, <1>5, <1>6, <1>7, <1>8, <1>9, ReloaderMoves

LEMMA ClearCacheInv ==
  ASSUME IInv, NEW p \in Procs, ClearCache(p) PROVE IInv'
<1> USE DEF IInv
<1>1. p \in Reloaders /\ pc[p] = "clear"
  BY WhoIs DEF ClearCache, ReloadPcs
<1>2. /\ IsLoc(loc[p]) /\ loc[p].f \in DOMAIN heap /\ Reloaders \subseteq Procs
      /\ \A r \in Reloaders \ {p} : pc[r] # "idle" => met[r]
  BY <1>1, ReloaderFacts
<1>3. Moves(p, "toRead", loc[p]) /\ "toRead" \in ReloadPcs
  BY <1>1, <1>2 DEF ClearCache, Moves, LocksMove, Writing, ReloadPcs, Loading
<1>4. FactoriesMove(p, "toRead", loc[p])
  BY <1>1 DEF ClearCache, FactoriesMove
<1>5. /\ UNCHANGED <<scen, db, met, heap, cur>>
      /\ heap \in Seq(Contents) /\ cur \in DOMAIN heap
      /\ single' = [k \in Keys |-> "none"] /\ defID' = -1
      /\ caches' = [w |-> Nothing, g |-> Nothing, s |-> Nothing]
  BY DEF ClearCache, TypeInv
<1>6. slices' \in [w : Contents, g : Contents, s : Contents] /\ installed' \in [ok : BOOLEAN, t : Contents] /\ ~installed'.ok
  BY NilFacts DEF ClearCache, TypeInv
<1>7. pc'[p] = "toRead" /\ \A q \in Procs \ {p} : pc'[q] = pc[q]
  BY <1>3, MoveFacts
<1>8. LoadInv'
  <2>1. \A r \in Reloaders \ {p} : pc'[r] \in Loading => met'[r]
    BY <1>2, <1>5, <1>7 DEF Loading
  <2>2. \A k \in Keys : single'[k] = "none"
    BY <1>5
  <2> QED BY <1>5, <1>7, <2>1, <2>2 DEF LoadInv
<1>9. OkInv'
  BY <1>6 DEF OkInv
<1>10. ans' = [q \in Procs |-> ans'[q]]
  BY AnsFacts DEF ClearCache
<1>11. /\ single' \in [Keys -> {"none", "yes", "no"}] /\ (single'["scope"] # "none" => single["scope"] # "none")
       /\ caches' = [w |-> caches'.w, g |-> caches'.g, s |-> caches'.s]
  BY <1>5 DEF Keys
<1> QED BY <1>1, <1>2, <1>3, <1>4, <1>5, <1>6, <1>8, <1>9, <1>10, <1>11, ReloaderMoves

LEMMA ReadBackendInv ==
  ASSUME IInv, NEW p \in Procs, ReadBackend(p) PROVE IInv'
<1> USE DEF IInv
<1>1. p \in Reloaders /\ pc[p] = "toRead"
  BY WhoIs DEF ReadBackend, ReloadPcs, Loading
<1>2. /\ IsLoc(loc[p]) /\ loc[p].f \in DOMAIN heap /\ Reloaders \subseteq Procs
      /\ \A r \in Reloaders \ {p} : pc[r] # "idle" => met[r]
      /\ ~installed.ok
  BY <1>1, ReloaderFacts DEF Loading
<1>3. heap[cur] \in Contents
  BY SMTT(60), Z3T(60) DEF TypeInv
<1> DEFINE x == [loc[p] EXCEPT !.t = heap[cur]]
<1>4. IsLoc(x) /\ x.f = loc[p].f
  BY SMTT(60), Z3T(60), <1>2, <1>3, LocTables
<1>5. Goto(p, "toLoad", x)
  BY DEF ReadBackend
<1> HIDE DEF x
<1>6. Moves(p, "toLoad", x) /\ "toLoad" \in ReloadPcs
  BY <1>1, <1>4, <1>5 DEF ReadBackend, Moves, LocksMove, Writing, ReloadPcs, Loading
<1>7. FactoriesMove(p, "toLoad", x)
  BY <1>1 DEF ReadBackend, FactoriesMove, dataVars
<1>8. /\ UNCHANGED <<scen, db, met, heap, cur, single, defID, caches, slices, installed, shaky>>
      /\ heap \in Seq(Contents) /\ cur \in DOMAIN heap /\ single \in [Keys -> {"none", "yes", "no"}]
      /\ caches = [w |-> caches.w, g |-> caches.g, s |-> caches.s]
      /\ slices \in [w : Contents, g : Contents, s : Contents] /\ installed \in [ok : BOOLEAN, t : Contents]
  BY DEF ReadBackend, TypeInv, histVars, dataVars
<1>9. pc'[p] = "toLoad" /\ \A q \in Procs \ {p} : pc'[q] = pc[q]
  BY <1>6, MoveFacts
<1>10. LoadInv'
  <2>1. \A r \in Reloaders \ {p} : pc'[r] \in Loading => met'[r]
    BY <1>2, <1>8, <1>9 DEF Loading
  <2> QED BY <1>1, <1>8, <1>9, <2>1 DEF LoadInv, Loading
<1>11. OkInv'
  BY <1>2, <1>8 DEF OkInv
<1>12. ans' = [q \in Procs |-> ans'[q]]
  BY AnsFacts DEF ReadBackend
<1> QED BY <1>1, <1>2, <1>4, <1>6, <1>7, <1>8, <1>10, <1>11, <1>12, ReloaderMoves

(* A load that fails, or that ends beside another reload, promises nothing. *)
LEMMA LoadEnds ==
  ASSUME IInv, NEW p \in Reloaders, pc[p] # "idle", NEW x, Moves(p, "idle", x),
         UNCHANGED met, ~installed'.ok
  PROVE  LoadInv' /\ OkInv'
<1> USE DEF IInv
<1>1. p \in Procs /\ Reloaders \subseteq Procs /\ \A r \in Reloaders \ {p} : pc[r] # "idle" => met[r]
  BY ReloaderFacts
<1>2. pc'[p] = "idle" /\ \A q \in Procs \ {p} : pc'[q] = pc[q]
  BY <1>1, MoveFacts
<1>3. \A r \in Reloaders : pc'[r] \in Loading => met'[r]
  BY <1>1, <1>2 DEF Loading
<1> QED BY <1>3 DEF LoadInv, OkInv

LEMMA LoadWebsitesInv ==
  ASSUME IInv, NEW p \in Procs, LoadWebsites(p) PROVE IInv'
<1> USE DEF IInv
<1>1. p \in Reloaders /\ pc[p] = "loadW"
  BY WhoIs DEF LoadWebsites, ReloadPcs, Loading
<1>2. /\ IsLoc(loc[p]) /\ loc[p].f \in DOMAIN heap /\ Reloaders \subseteq Procs /\ ~installed.ok
      /\ \A r \in Reloaders \ {p} : pc[r] # "idle" => met[r]
  BY <1>1, ReloaderFacts DEF Loading
<1>3. /\ UNCHANGED <<scen, db, met, fmu, single, defID, shaky, installed>>
      /\ heap' = Append(heap, loc[p].t) /\ cur' = Len(heap) + 1
      /\ slices' = [slices EXCEPT !.w = loc[p].t]
      /\ caches' = [caches EXCEPT !.w = Cache(IDs(Websites(loc[p].t)), loc[p].t, caches.w)]
      /\ single \in [Keys -> {"none", "yes", "no"}] /\ installed \in [ok : BOOLEAN, t : Contents]
  BY DEF LoadWebsites, LoadFails, TypeInv
<1>4. /\ heap' \in Seq(Contents) /\ cur' \in DOMAIN heap' /\ DOMAIN heap \subseteq DOMAIN heap'
      /\ slices' \in [w : Contents, g : Contents, s : Contents]
  BY SMTT(60), Z3T(60), <1>3, DataTypes
<1>5. caches' = [w |-> Cache(IDs(Websites(loc[p].t)), loc[p].t, caches.w), g |-> caches.g, s |-> caches.s]
  <2>1. caches = [w |-> caches.w, g |-> caches.g, s |-> caches.s]
    BY DEF TypeInv
  <2> QED BY <1>3, <2>1
<1>6. caches' = [w |-> caches'.w, g |-> caches'.g, s |-> caches'.s]
  BY <1>5
<1>7. \A l, x : fmu' = fmu /\ pc[p] = "loadW" => FactoriesMove(p, l, x)
  BY DEF FactoriesMove
<1>8. CASE OneDefault(loc[p].t)
  <2>1. Moves(p, "loadG", loc[p]) /\ "loadG" \in ReloadPcs
    BY <1>1, <1>2, <1>8 DEF LoadWebsites, Moves, LocksMove, Writing, ReloadPcs, Loading
  <2>2. pc'[p] = "loadG" /\ loc'[p] = loc[p] /\ \A q \in Procs \ {p} : pc'[q] = pc[q]
    BY <2>1, MoveFacts
  <2>3. LoadInv'
    <3>1. \A r \in Reloaders \ {p} : pc'[r] \in Loading => met'[r]
      BY <1>2, <1>3, <2>2 DEF Loading
    <3>2. ASSUME ~met[p] PROVE /\ caches = [w |-> Nothing, g |-> Nothing, s |-> Nothing]
                               /\ \A k \in Keys : k \notin shaky => single[k] = "none"
                               /\ "view" \notin shaky => defID = -1
      BY <1>1, <3>2 DEF LoadInv, Loading
    <3>3. ASSUME ~met[p] PROVE caches' = [w |-> MapW(loc[p].t), g |-> Nothing, s |-> Nothing]
      <4>1. caches = [w |-> Nothing, g |-> Nothing, s |-> Nothing]
        BY <3>2, <3>3
      <4>2. caches.w = Nothing /\ caches.g = Nothing /\ caches.s = Nothing
        BY <4>1
      <4> QED BY <1>5, <4>2 DEF MapW
    <3>4. slices'.w = loc[p].t
      BY <1>3 DEF TypeInv
    <3> QED BY <1>3, <2>2, <3>1, <3>2, <3>3, <3>4 DEF LoadInv
  <2>4. OkInv'
    BY <1>2, <1>3 DEF OkInv
  <2>5. ans' = [q \in Procs |-> ans'[q]]
    BY <1>8, AnsFacts DEF LoadWebsites
  <2> QED BY <1>1, <1>2, <1>3, <1>4, <1>6, <1>7, <2>1, <2>3, <2>4, <2>5, ReloaderMoves
<1>9. CASE ~OneDefault(loc[p].t)
  <2>1. Moves(p, "idle", Idle) /\ "idle" \in ReloadPcs
    BY <1>1, <1>9, IdleFacts DEF LoadWebsites, LoadFails, Finish, Moves, LocksMove, Writing, ReloadPcs
  <2>2. LoadInv' /\ OkInv'
    BY <1>1, <1>2, <1>3, <2>1, LoadEnds
  <2>3. ans' = [q \in Procs |-> ans'[q]]
    BY <1>9, AnsFacts DEF LoadWebsites, LoadFails, Finish
  <2>4. Idle.f \in DOMAIN heap'
    BY <1>4, IdleFacts
  <2> QED BY <1>1, <1>3, <1>4, <1>6, <1>7, <2>1, <2>2, <2>3, <2>4, ReloaderMoves
<1> QED BY <1>8, <1>9

LEMMA LoadGroupsInv ==
  ASSUME IInv, NEW p \in Procs, LoadGroups(p) PROVE IInv'
<1> USE DEF IInv
<1>1. p \in Reloaders /\ pc[p] = "loadG"
  BY WhoIs DEF LoadGroups, ReloadPcs, Loading
<1>2. /\ IsLoc(loc[p]) /\ loc[p].f \in DOMAIN heap /\ Reloaders \subseteq Procs /\ ~installed.ok
      /\ \A r \in Reloaders \ {p} : pc[r] # "idle" => met[r]
  BY <1>1, ReloaderFacts DEF Loading
<1>3. /\ UNCHANGED <<scen, db, met, heap, cur, fmu, single, defID, shaky, installed>>
      /\ heap \in Seq(Contents) /\ cur \in DOMAIN heap
      /\ single \in [Keys -> {"none", "yes", "no"}] /\ installed \in [ok : BOOLEAN, t : Contents]
  BY DEF LoadGroups, LoadFails, TypeInv
<1>4. caches = [w |-> caches.w, g |-> caches.g, s |-> caches.s]
  BY DEF TypeInv
<1>5. \A l, x : fmu' = fmu /\ pc[p] = "loadG" => FactoriesMove(p, l, x)
  BY DEF FactoriesMove
<1>6. CASE GroupsValid(loc[p].t)
  <2>1. Moves(p, "loadS", loc[p]) /\ "loadS" \in ReloadPcs
    BY <1>1, <1>2, <1>6 DEF LoadGroups, Moves, LocksMove, Writing, ReloadPcs, Loading
  <2>2. pc'[p] = "loadS" /\ loc'[p] = loc[p] /\ \A q \in Procs \ {p} : pc'[q] = pc[q]
    BY <2>1, MoveFacts
  <2>3. /\ slices' = [slices EXCEPT !.g = loc[p].t] /\ slices' \in [w : Contents, g : Contents, s : Contents]
        /\ slices'.w = slices.w /\ slices'.g = loc[p].t
    BY <1>6, DataTypes DEF LoadGroups
  <2>4. caches' = [w |-> caches.w, g |-> Cache(IDs(Groups(loc[p].t)), loc[p].t, caches.g), s |-> caches.s]
    BY <1>4, <1>6 DEF LoadGroups
  <2>5. caches' = [w |-> caches'.w, g |-> caches'.g, s |-> caches'.s]
    BY <2>4
  <2>6. LoadInv'
    <3>1. \A r \in Reloaders \ {p} : pc'[r] \in Loading => met'[r]
      BY <1>2, <1>3, <2>2 DEF Loading
    <3>2. ASSUME ~met[p] PROVE /\ caches = [w |-> MapW(loc[p].t), g |-> Nothing, s |-> Nothing] /\ slices.w = loc[p].t
                               /\ \A k \in Keys : k \notin shaky => single[k] = "none"
                               /\ "view" \notin shaky => defID = -1
      BY <1>1, <3>2 DEF LoadInv, Loading
    <3>3. ASSUME ~met[p] PROVE caches' = [w |-> MapW(loc[p].t), g |-> MapG(loc[p].t), s |-> Nothing]
      <4>1. caches = [w |-> MapW(loc[p].t), g |-> Nothing, s |-> Nothing]
        BY <3>2, <3>3
      <4>2. caches.w = MapW(loc[p].t) /\ caches.g = Nothing /\ caches.s = Nothing
        BY <4>1
      <4> QED BY <2>4, <4>2 DEF MapG
    <3> QED BY <1>3, <2>2, <2>3, <3>1, <3>2, <3>3 DEF LoadInv
  <2>7. OkInv'
    BY <1>2, <1>3 DEF OkInv
  <2>8. ans' = [q \in Procs |-> ans'[q]]
    BY <1>6, AnsFacts DEF LoadGroups
  <2> QED BY <1>1, <1>2, <1>3, <1>5, <2>1, <2>3, <2>5, <2>6, <2>7, <2>8, ReloaderMoves
<1>7. CASE ~GroupsValid(loc[p].t)
  <2>1. Moves(p, "idle", Idle) /\ "idle" \in ReloadPcs
    BY <1>1, <1>7, IdleFacts DEF LoadGroups, LoadFails, Finish, Moves, LocksMove, Writing, ReloadPcs
  <2>2. LoadInv' /\ OkInv'
    BY <1>1, <1>2, <1>3, <2>1, LoadEnds
  <2>3. ans' = [q \in Procs |-> ans'[q]]
    BY <1>7, AnsFacts DEF LoadGroups, LoadFails, Finish
  <2>4. Idle.f \in DOMAIN heap
    BY IdleFacts
  <2>5. caches' = caches /\ slices' = slices /\ slices \in [w : Contents, g : Contents, s : Contents]
    BY <1>7 DEF LoadGroups, TypeInv
  <2> QED BY <1>1, <1>3, <1>4, <1>5, <2>1, <2>2, <2>3, <2>4, <2>5, ReloaderMoves
<1> QED BY <1>6, <1>7

LEMMA LoadStoresInv ==
  ASSUME IInv, NEW p \in Procs, LoadStores(p) PROVE IInv'
<1> USE DEF IInv
<1>1. p \in Reloaders /\ pc[p] = "loadS"
  BY WhoIs DEF LoadStores, ReloadPcs, Loading
<1>2. /\ Reloaders \subseteq Procs /\ ~installed.ok
      /\ \A r \in Reloaders \ {p} : pc[r] # "idle" => met[r]
  BY <1>1, ReloaderFacts DEF Loading
<1>3. /\ UNCHANGED <<scen, db, met, heap, cur, fmu, single, defID, shaky>>
      /\ heap \in Seq(Contents) /\ cur \in DOMAIN heap
      /\ single \in [Keys -> {"none", "yes", "no"}] /\ installed \in [ok : BOOLEAN, t : Contents]
      /\ met[p] \in BOOLEAN
  BY DEF LoadStores, TypeInv
<1>4. caches = [w |-> caches.w, g |-> caches.g, s |-> caches.s]
  BY DEF TypeInv
<1>5. \A l, x : fmu' = fmu /\ pc[p] = "loadS" => FactoriesMove(p, l, x)
  BY DEF FactoriesMove
<1>6. Moves(p, "idle", Idle) /\ "idle" \in ReloadPcs
  BY <1>1, IdleFacts DEF LoadStores, LoadFails, Finish, Moves, LocksMove, Writing, ReloadPcs
<1>7. ans' = [q \in Procs |-> ans'[q]]
  BY AnsFacts DEF LoadStores, LoadFails, Finish
<1>8. Idle.f \in DOMAIN heap
  BY IdleFacts
<1>9. CASE StoresValid(loc[p].t)
  <2>1. pc'[p] = "idle" /\ \A q \in Procs \ {p} : pc'[q] = pc[q]
    BY <1>6, MoveFacts
  <2>2. /\ slices' = [slices EXCEPT !.s = loc[p].t] /\ slices' \in [w : Contents, g : Contents, s : Contents]
        /\ slices' = [w |-> slices.w, g |-> slices.g, s |-> loc[p].t]
    BY <1>9, DataTypes DEF LoadStores
  <2>3. caches' = [w |-> caches.w, g |-> caches.g, s |-> Cache(IDs(Stores(loc[p].t)), loc[p].t, caches.s)]
    BY <1>4, <1>9 DEF LoadStores
  <2>4. caches' = [w |-> caches'.w, g |-> caches'.g, s |-> caches'.s]
    BY <2>3
  <2>5. installed' = [ok |-> ~met[p], t |-> loc[p].t]
    BY <1>9 DEF LoadStores
  <2>6. installed' \in [ok : BOOLEAN, t : Contents] /\ (installed'.ok <=> ~met[p]) /\ installed'.t = loc[p].t
    BY <2>5, DataTypes
  <2>7. LoadInv'
    BY <1>2, <1>3, <2>1 DEF LoadInv, Loading
  <2>8. OkInv'
    <3> SUFFICES ASSUME ~met[p] PROVE OkInv'
      BY <2>6 DEF OkInv
    <3>1. /\ caches = [w |-> MapW(loc[p].t), g |-> MapG(loc[p].t), s |-> Nothing]
          /\ slices.w = loc[p].t /\ slices.g = loc[p].t
          /\ \A k \in Keys : k \notin shaky => single[k] = "none"
          /\ "view" \notin shaky => defID = -1
      BY <1>1 DEF LoadInv, Loading
    <3>2. caches.w = MapW(loc[p].t) /\ caches.g = MapG(loc[p].t) /\ caches.s = Nothing
      BY <3>1
    <3>3. caches' = [w |-> MapW(loc[p].t), g |-> MapG(loc[p].t), s |-> MapS(loc[p].t)]
      BY <2>3, <3>2 DEF MapS
    <3>4. \A r \in Reloaders \ {p} : pc[r] = "idle"
      BY <1>1 DEF AloneInv
    <3>5. \A r \in Reloaders : pc'[r] \notin Loading
      BY <1>2, <2>1, <3>4 DEF Loading
    <3> QED BY <1>3, <2>2, <2>6, <3>1, <3>3, <3>5 DEF OkInv
  <2> QED BY <1>1, <1>3, <1>5, <1>6, <1>7, <1>8, <2>2, <2>4, <2>6, <2>7, <2>8, ReloaderMoves
<1>10. CASE ~StoresValid(loc[p].t)
  <2>1. caches' = caches /\ slices' = slices /\ installed' = installed
    BY <1>10 DEF LoadStores, LoadFails
  <2>2. LoadInv' /\ OkInv'
    BY <1>1, <1>2, <1>3, <1>6, <2>1, LoadEnds
  <2>3. slices \in [w : Contents, g : Contents, s : Contents]
    BY DataTypes
  <2> QED BY <1>1, <1>3, <1>4, <1>5, <1>6, <1>7, <1>8, <2>1, <2>2, <2>3, ReloaderMoves
<1> QED BY <1>9, <1>10

(* LoadFromResource begins: everybody under way has met it.                 *)
LEMMA ReloadInv ==
  ASSUME IInv, NEW p \in Reloaders, Reload(p) PROVE IInv'
<1> USE DEF IInv
<1>1. p \in Procs /\ p \notin Callers /\ pc[p] = "idle" /\ Callers \subseteq Procs /\ Reloaders \subseteq Procs
  BY StoreAssumption DEF Procs, Reload
<1> DEFINE x == [Idle EXCEPT !.f = cur, !.todo = {"w", "g", "s"}]
<1>2. IsLoc(x) /\ x.f \in DOMAIN heap
  <2>1. PICK b \in BOOLEAN : b = FALSE
    OBVIOUS
  <2>2. Idle = [op |-> NoOp, f |-> 1, todo |-> {}, bad |-> b, t |-> Nil, id |-> 0]
    BY <2>1 DEF Idle
  <2>3. PICK td : td = {"w", "g", "s"}
    OBVIOUS
  <2>4. x = [Idle EXCEPT !.f = cur, !.todo = td]
    BY <2>3
  <2> HIDE DEF x
  <2>5. x = [op |-> NoOp, f |-> cur, todo |-> td, bad |-> b, t |-> Nil, id |-> 0]
    BY <2>2, <2>4
  <2> QED BY <2>3, <2>5, NilFacts, DataTypes DEF IsLoc
<1>3. Goto(p, "toSelect", x)
  BY DEF Reload
<1> HIDE DEF x
<1>4. Moves(p, "toSelect", x)
  BY <1>1, <1>2, <1>3 DEF Reload, Moves, LocksMove, Writing
<1>5. /\ pc'[p] = "toSelect" /\ loc'[p] = x
      /\ \A q \in Procs \ {p} : pc'[q] = pc[q] /\ loc'[q] = loc[q]
      /\ loc' = [q \in Procs |-> loc'[q]]
      /\ \A q \in Procs : pc'[q] \in Writing => wlock' = q
      /\ wlock' \in Procs \cup {0} /\ (wlock' # 0 => pc'[wlock'] \in Writing)
  BY <1>1, <1>4, MoveFacts
<1>6. met' = [q \in Procs |-> IF q = p THEN Reloading # {} ELSE met[q] \/ pc[q] # "idle"]
  BY DEF Reload
<1>7. met' \in [Procs -> BOOLEAN]
  BY <1>6 DEF TypeInv
<1>8. \A q \in Procs \ {p} : pc[q] # "idle" => met'[q]
  BY <1>6
<1>9. ~met'[p] => \A r \in Reloaders : pc[r] = "idle"
  BY <1>1, <1>6 DEF Reloading
<1>10. UNCHANGED <<scen, db, heap, cur, fmu, slices, caches, single, defID, installed, shaky, ans>>
  BY DEF Reload, dataVars
<1>11. TypeInv'
  <2>1. pc' \in [Procs -> ReloadPcs \cup CallPcs] /\ "toSelect" \in ReloadPcs
    BY <1>1, <1>3 DEF TypeInv, Goto, ReloadPcs
  <2>2. \A q \in Procs : IsLoc(loc'[q]) /\ loc'[q].f \in DOMAIN heap
    BY <1>1, <1>2, <1>5 DEF TypeInv
  <2>3. \A q \in Procs : IsLoc(loc[q])' /\ (loc[q].f \in DOMAIN heap)'
    BY <1>10, <2>2 DEF IsLoc
  <2> QED BY <1>1, <1>5, <1>7, <1>10, <2>1, <2>3 DEF TypeInv
<1>12. LockInv'
  <2>1. ASSUME NEW f \in fmu' PROVE \E r \in Reloaders : pc'[r] = "select" /\ loc'[r].f = f
    <3>1. PICK r \in Reloaders : pc[r] = "select" /\ loc[r].f = f
      BY <1>10 DEF LockInv
    <3> QED BY <1>1, <1>5, <3>1
  <2> QED BY <1>5, <2>1 DEF LockInv
<1>13. AloneInv'
  BY <1>1, <1>5, <1>8, <1>9 DEF AloneInv
<1>14. LoadInv'
  BY <1>1, <1>5, <1>8 DEF LoadInv, Loading
<1>15. OkInv'
  <2>1. \A r \in Reloaders : pc'[r] \in Loading => pc[r] \in Loading
    BY <1>1, <1>5 DEF Loading
  <2> QED BY <1>10, <2>1 DEF OkInv, Flags, HasFlags
<1>16. FlagInv'
  <2>1. \A q \in Callers : LocalFlag(q)'
    BY <1>1, <1>5, <1>10 DEF FlagInv, LocalFlag
  <2> QED BY <1>10, <2>1 DEF FlagInv
<1>17. CarryInv'
  BY <1>1, <1>5, <1>8 DEF CarryInv
<1> QED BY <1>11, <1>12, <1>13, <1>14, <1>15, <1>16, <1>17
-----------------------------------------------------------------------------
(* What is due, operation by operation.                                     *)
FoundRow(rows) == IF rows = <<>> THEN NotFound ELSE Ok(<<rows[1].id>>)
FlagOf(b) == Ok(IF b THEN <<1>> ELSE <<0>>)

LEMMA DueFacts ==
  ASSUME NEW op, IsOp(op), NEW t, t = installed.t
  PROVE  /\ op.op = "website" => Due(op) = FoundRow(FindByID(Websites(t), op.arg))
         /\ op.op = "group" => Due(op) = FoundRow(FindByID(Groups(t), op.arg))
         /\ op.op = "store" => Due(op) = FoundRow(FindByID(Stores(t), op.arg))
         /\ op.op = "default" =>
              /\ op.mode.type = "store" => Due(op) = ActiveStore(FindByID(Stores(t), op.mode.id))
              /\ op.mode.type = "group" =>
                   Due(op) = LET g == FindByID(Groups(t), op.mode.id)
                             IN  IF g = <<>> THEN NotFound ELSE ActiveStore(FindByID(Stores(t), g[1].dstore))
              /\ op.mode.type = "website" => Due(op) = DefaultOf(t, FindByID(Websites(t), op.mode.id))
              /\ op.mode.type = "default" => Due(op) = DefaultOf(t, DefaultWebsite(t))
         /\ op.op = "code" => Due(op) = IF op.arg = 0 THEN DefaultOf(t, DefaultWebsite(t)) ELSE ByCode(t, t, op.mode, op.arg)
         /\ op.op = "isAllowed" => Due(op) = IsAllowed(t, t, op.mode, op.arg)
         /\ op.op = "allowed" => Due(op) = Allowed(t, t, op.mode)
         /\ op.op = "view" => Due(op) = IF FactoryDefaultStoreID(t) = NotFound THEN NotFound
                                        ELSE FoundRow(FindByID(Stores(t), FactoryDefaultStoreID(t).val[1]))
         /\ op.op = "has" => Due(op) = FlagOf(Single(t, scen.enabled))
         /\ op.op = "single" /\ scen.flag[op.key] = "fails" => Due(op) = Fail("Config")
         /\ op.op = "single" /\ scen.flag[op.key] # "fails" => Due(op) = FlagOf(Single(t, scen.enabled) /\ scen.flag[op.key] = "on")
<1> USE DEF Due, Answer, FoundRow, FlagOf, IsOp
<1>1. op.op = "website" => Due(op) = FoundRow(FindByID(Websites(t), op.arg))
  OBVIOUS
<1>2. op.op = "group" => Due(op) = FoundRow(FindByID(Groups(t), op.arg))
  OBVIOUS
<1>3. op.op = "store" => Due(op) = FoundRow(FindByID(Stores(t), op.arg))
  OBVIOUS
<1>4. op.op = "default" /\ op.mode.type = "store" => Due(op) = ActiveStore(FindByID(Stores(t), op.mode.id))
  OBVIOUS
<1>5. op.op = "default" /\ op.mode.type = "group" =>
        Due(op) = LET g == FindByID(Groups(t), op.mode.id)
                  IN  IF g = <<>> THEN NotFound ELSE ActiveStore(FindByID(Stores(t), g[1].dstore))
  OBVIOUS
<1>6. op.op = "default" /\ op.mode.type = "website" => Due(op) = DefaultOf(t, FindByID(Websites(t), op.mode.id))
  OBVIOUS
<1>7. op.op = "default" /\ op.mode.type = "default" => Due(op) = DefaultOf(t, DefaultWebsite(t))
  OBVIOUS
<1>8. op.op = "code" => Due(op) = IF op.arg = 0 THEN DefaultOf(t, DefaultWebsite(t)) ELSE ByCode(t, t, op.mode, op.arg)
  OBVIOUS
<1>9. op.op = "isAllowed" => Due(op) = IsAllowed(t, t, op.mode, op.arg)
  OBVIOUS
<1>10. op.op = "allowed" => Due(op) = Allowed(t, t, op.mode)
  OBVIOUS
<1>11. op.op = "view" => Due(op) = IF FactoryDefaultStoreID(t) = NotFound THEN NotFound
                                   ELSE FoundRow(FindByID(Stores(t), FactoryDefaultStoreID(t).val[1]))
  OBVIOUS
<1>12. op.op = "has" => Due(op) = FlagOf(Single(t, scen.enabled))
  OBVIOUS
<1>13. op.op = "single" /\ scen.flag[op.key] = "fails" => Due(op) = Fail("Config")
  OBVIOUS
<1>14. op.op = "single" /\ scen.flag[op.key] # "fails" => Due(op) = FlagOf(Single(t, scen.enabled) /\ scen.flag[op.key] = "on")
  OBVIOUS
<1> HIDE DEF Due, Answer, FoundRow, FlagOf, IsOp
<1> QED BY <1>1, <1>2, <1>3, <1>4, <1>5, <1>6, <1>7, <1>8, <1>9, <1>10, <1>11, <1>12, <1>13, <1>14
-----------------------------------------------------------------------------
(* Steps that concern neither a call nor a reload: somebody changes the     *)
(* tables, or the middleware answers a request.                             *)
LEMMA AsideInv ==
  ASSUME IInv, UNCHANGED <<scen, heap, cur, fmu, slices, caches, single, defID, wlock, pc, loc, installed, met, shaky>>,
         db' \in DOMAIN Rows, ans' = [q \in Procs |-> ans'[q]]
  PROVE  IInv'
<1> USE DEF IInv
<1>1. TypeInv'
  BY DEF TypeInv, IsLoc
<1>2. LockInv' /\ AloneInv'
  BY DEF LockInv, AloneInv
<1>3. LoadInv'
  BY DEF LoadInv
<1>4. OkInv'
  BY DEF OkInv, Flags, HasFlags
<1>5. FlagInv'
  BY DEF FlagInv, LocalFlag
<1>6. CarryInv'
  BY SMTT(60), Z3T(60) DEF CarryInv, Carries, Due, Flags, HasFlags
<1> QED BY <1>1, <1>2, <1>3, <1>4, <1>5, <1>6

LEMMA CommitInv ==
  ASSUME IInv, Commit PROVE IInv'
<1> USE DEF IInv
<1>1. db' \in DOMAIN Rows
  <2>1. PICK i \in DOMAIN scen.versions : i < Len(scen.versions) /\ db' = scen.versions[i + 1]
    BY DEF Commit
  <2>2. scen.versions \in Seq(DOMAIN Rows)
    BY StoreAssumption DEF TypeInv
  <2> QED BY <2>1, <2>2
<1>2. ans' = [q \in Procs |-> ans'[q]]
  BY DEF Commit, TypeInv
<1>3. UNCHANGED <<scen, heap, cur, fmu, slices, caches, single, defID, wlock, pc, loc, installed, met, shaky>>
  BY DEF Commit, dataVars, histVars
<1> QED BY <1>1, <1>2, <1>3, AsideInv

(* A call begins, from a client of the Service or from the middleware.      *)
LEMMA EntryFacts ==
  ASSUME NEW op, IsOp(op)
  PROVE  Entry(op) \in CallPcs \ (Writing \cup {"idle", "toHas", "toSingle", "viewCache", "backend"})
BY DEF IsOp, OpNames, ModeTypes, Entry, CallPcs, Writing

Fresh(op) == [Idle EXCEPT !.op = op, !.id = op.mode.id]

LEMMA FreshLoc ==
  ASSUME NEW op, IsOp(op), TypeInv
  PROVE  IsLoc(Fresh(op)) /\ Fresh(op).f \in DOMAIN heap /\ Fresh(op).op = op /\ Fresh(op).id = op.mode.id
<1>1. PICK b \in BOOLEAN : b = FALSE
  OBVIOUS
<1>2. Idle = [op |-> NoOp, f |-> 1, todo |-> {}, bad |-> b, t |-> Nil, id |-> 0]
  BY <1>1 DEF Idle
<1>3. Fresh(op) = [op |-> op, f |-> 1, todo |-> {}, bad |-> b, t |-> Nil, id |-> op.mode.id]
  <2>1. Fresh(op) = [Idle EXCEPT !.op = op, !.id = op.mode.id]
    BY DEF Fresh
  <2> QED BY <1>2, <2>1
<1>4. 1 \in DOMAIN heap
  BY SMTT(60), Z3T(60), DataTypes
<1> QED BY <1>3, <1>4, NilFacts DEF IsLoc

LEMMA CallInv ==
  ASSUME IInv, NEW p \in Callers, NEW op, IsOp(op), pc[p] = "idle", Call(p, op)
  PROVE  IInv'
<1> USE DEF IInv
<1>1. p \in Procs /\ p \notin Reloaders /\ Callers \subseteq Procs /\ Reloaders \subseteq Procs \ {p}
  BY StoreAssumption DEF Procs
<1> DEFINE x == Fresh(op)
           l == Entry(op)
<1>2. IsLoc(x) /\ x.f \in DOMAIN heap /\ x.op = op /\ x.id = op.mode.id
  BY FreshLoc
<1>3. Goto(p, l, x)
  BY DEF Call, Fresh
<1>4. l \in CallPcs \ (Writing \cup {"idle", "toHas", "toSingle", "viewCache", "backend"})
  BY EntryFacts
<1>5. /\ UNCHANGED <<scen, db, heap, cur, fmu, slices, caches, single, defID, wlock, installed, shaky, ans>>
      /\ met' = [met EXCEPT ![p] = Reloading # {}]
  BY DEF Call, dataVars
<1> HIDE DEF x
<1>6. Moves(p, l, x)
  BY <1>1, <1>2, <1>3, <1>4, <1>5 DEF Moves, LocksMove, Writing
<1>7. /\ pc'[p] = l /\ loc'[p] = x
      /\ \A q \in Procs \ {p} : pc'[q] = pc[q] /\ loc'[q] = loc[q]
      /\ loc' = [q \in Procs |-> loc'[q]]
      /\ \A q \in Procs : pc'[q] \in Writing => wlock' = q
      /\ wlock' \in Procs \cup {0} /\ (wlock' # 0 => pc'[wlock'] \in Writing)
  BY <1>1, <1>6, MoveFacts
<1>8. met' \in [Procs -> BOOLEAN] /\ (~met'[p] => Reloading = {}) /\ \A q \in Procs \ {p} : met'[q] = met[q]
  BY <1>1, <1>5 DEF TypeInv
<1>9. TypeInv'
  <2>1. pc' \in [Procs -> ReloadPcs \cup CallPcs]
    BY <1>1, <1>3, <1>4 DEF TypeInv, Goto
  <2>2. \A q \in Procs : IsLoc(loc'[q]) /\ loc'[q].f \in DOMAIN heap
    BY <1>1, <1>2, <1>7 DEF TypeInv
  <2>3. \A q \in Procs : IsLoc(loc[q])' /\ (loc[q].f \in DOMAIN heap)'
    BY <1>5, <2>2 DEF IsLoc
  <2> HIDE DEF l
  <2> QED BY <1>1, <1>4, <1>5, <1>7, <1>8, <2>1, <2>3 DEF TypeInv
<1>10. LockInv'
  BY SMTT(60), Z3T(60), <1>1, <1>5, <1>7 DEF LockInv
<1>11. AloneInv'
  BY <1>1, <1>7, <1>8 DEF AloneInv, Reloading
<1>12. LoadInv'
  BY SMTT(60), Z3T(60), <1>1, <1>5, <1>7, <1>8 DEF LoadInv
<1>13. OkInv'
  BY <1>1, <1>5, <1>7 DEF OkInv, Flags, HasFlags
<1>14. FlagInv'
  <2>1. \A q \in Callers \ {p} : LocalFlag(q)'
    BY SMTT(60), Z3T(60), <1>1, <1>5, <1>7 DEF FlagInv, LocalFlag
  <2>2. l \in {"has", "single"} => op.op = l
    BY DEF IsOp, OpNames, ModeTypes, Entry
  <2>3. LocalFlag(p)'
    <3> HIDE DEF l
    <3> QED BY <1>2, <1>4, <1>7, <2>2 DEF LocalFlag, Writing
  <2> QED BY <1>5, <2>1, <2>3 DEF FlagInv
<1>15. ASSUME installed.ok PROVE Carries(p, installed.t)'
  <2>1. /\ l = "lookup" => op.op \in {"website", "group", "store"}
        /\ l \in {"website", "group"} => op.op = "default" /\ op.mode.type = l
        /\ l = "byCode" => op.op = "code" /\ op.arg # 0
        /\ l = "websites" => \/ op.op \in {"default", "isAllowed", "allowed"} /\ op.mode.type = "default"
                             \/ op.op = "code" /\ op.arg = 0
        /\ l = "stores" => op.op \in {"isAllowed", "allowed"} /\ op.mode.type # "default"
        /\ l = "view" => op.op = "view"
        /\ l = "store" => op.op = "default" /\ op.mode.type = "store"
    BY DEF IsOp, OpNames, ModeTypes, Entry
  <2>2. Due(op)' = Due(op)
    BY <1>5 DEF Due
  <2>3. l = "store" => ActiveStore(FindByID(Stores(installed.t), op.mode.id)) = Due(op)
    BY <2>1, DueFacts
  <2> HIDE DEF l
  <2> QED BY <1>2, <1>4, <1>5, <1>7, <2>1, <2>2, <2>3 DEF Carries, Writing
<1>16. CarryInv'
  <2> SUFFICES ASSUME installed.ok, NEW q \in Callers \ {p}, pc[q] # "idle", ~met[q]
               PROVE  Carries(q, installed.t)'
    BY <1>1, <1>5, <1>7, <1>8, <1>15 DEF CarryInv
  <2>1. Carries(q, installed.t)
    BY DEF CarryInv
  <2>2. pc'[q] = pc[q] /\ loc'[q] = loc[q]
    BY <1>1, <1>7
  <2> QED BY <1>5, <2>1, <2>2 DEF Carries, Due, Flags, HasFlags
<1> QED BY <1>9, <1>10, <1>11, <1>12, <1>13, <1>14, <1>16
-----------------------------------------------------------------------------
(* The steps of a call.                                                     *)
AnsweredTruly(p) ==
  pc[p] # "idle" /\ pc'[p] = "idle" /\ ~met[p] /\ installed.ok => Excused(loc[p].op) \/ ans'[p] \in DueAnswers(loc[p].op)

LEMMA DueIsAnAnswer ==
  \A op : Due(op) \in DueAnswers(op)
BY DEF DueAnswers

Quiet == UNCHANGED <<scen, db, heap, cur, fmu, slices, caches, single, defID, installed, met, shaky>>

LEMMA FlagsKept ==
  ASSUME IInv, Quiet, NEW p
  PROVE  FlagsWritten(p)
BY DEF IInv, TypeInv, FlagInv, FlagsWritten, Quiet

LEMMA CallerGoes ==
  ASSUME IInv, NEW p \in Callers, NEW l \in CallPcs, NEW x, pc[p] # "idle", Moves(p, l, x), x.f \in DOMAIN heap, Quiet,
         ans' = [q \in Procs |-> ans'[q]], LocalFlag(p)',
         installed.ok /\ l # "idle" /\ ~met[p] => Carries(p, installed.t)'
  PROVE  IInv' /\ pc'[p] = l
<1>1. FlagsWritten(p)
  BY FlagsKept
<1>2. met' \in [Procs -> BOOLEAN] /\ met' = met
  BY DEF IInv, TypeInv, Quiet
<1>3. UNCHANGED <<scen, db, heap, cur, fmu, slices, caches, installed>>
  BY DEF Quiet
<1>4. pc'[p] = l
  BY MoveFacts DEF IInv, Procs
<1>5. IInv'
  BY <1>1, <1>2, <1>3, CallerMoves
<1> QED BY <1>4, <1>5

(* A call returns.                                                          *)
LEMMA CallerFinishes ==
  ASSUME IInv, NEW p \in Callers, NEW a, pc[p] \notin Writing \cup {"idle"}, Finish(p, a), Quiet, wlock' = wlock
  PROVE  IInv' /\ ans'[p] = a
<1>1. p \in Procs
  BY DEF Procs
<1>2. IsLoc(Idle) /\ Idle.f \in DOMAIN heap
  BY IdleFacts DEF IInv
<1>3. Moves(p, "idle", Idle) /\ "idle" \in CallPcs
  BY <1>2 DEF Finish, Moves, LocksMove, Writing, CallPcs
<1>4. ans' = [q \in Procs |-> ans'[q]]
  BY <1>1, AnsFacts DEF Finish, IInv
<1>5. ans'[p] = a
  <2>1. ans = [q \in Procs |-> ans[q]]
    BY DEF IInv, TypeInv
  <2>2. DOMAIN ans = Procs
    BY <2>1
  <2> QED BY <1>1, <2>2 DEF Finish
<1>6. LocalFlag(p)'
  <2>1. pc'[p] = "idle"
    BY <1>1, <1>3, MoveFacts DEF IInv
  <2> QED BY <2>1 DEF LocalFlag
<1>7. IInv'
  BY <1>2, <1>3, <1>4, <1>6, CallerGoes
<1> QED BY <1>5, <1>7

(* What a call knows.                                                       *)
LEMMA CallerFacts ==
  ASSUME IInv, NEW p \in Callers, pc[p] # "idle"
  PROVE  /\ p \in Procs /\ IsLoc(loc[p]) /\ loc[p].f \in DOMAIN heap /\ LocalFlag(p)
         /\ ~met[p] /\ installed.ok =>
              /\ Carries(p, installed.t) /\ installed.t \in Contents
              /\ fmu = {} /\ wlock \notin Reloaders
              /\ caches.w = MapW(installed.t) /\ caches.g = MapG(installed.t) /\ caches.s = MapS(installed.t)
              /\ slices.w = installed.t /\ slices.g = installed.t /\ slices.s = installed.t
<1> USE DEF IInv
<1>1. p \in Procs /\ IsLoc(loc[p]) /\ loc[p].f \in DOMAIN heap
  BY DEF TypeInv, Procs
<1>2. LocalFlag(p)
  BY DEF FlagInv
<1>3. ASSUME ~met[p], installed.ok PROVE Carries(p, installed.t) /\ installed.t \in Contents
  BY <1>3 DEF CarryInv, TypeInv
<1>4. ASSUME ~met[p] PROVE fmu = {} /\ wlock \notin Reloaders
  <2>1. p \notin Reloaders /\ 0 \notin Reloaders
    BY StoreAssumption
  <2>2. \A r \in Reloaders : pc[r] = "idle"
    BY <1>1, <1>4, <2>1 DEF AloneInv
  <2> QED BY <2>1, <2>2 DEF LockInv, Writing
<1>5. ASSUME installed.ok
      PROVE  /\ caches.w = MapW(installed.t) /\ caches.g = MapG(installed.t) /\ caches.s = MapS(installed.t)
             /\ slices.w = installed.t /\ slices.g = installed.t /\ slices.s = installed.t
  BY <1>5 DEF OkInv
<1> QED BY <1>1, <1>2, <1>3, <1>4, <1>5

LEMMA IsOpFacts ==
  ASSUME NEW x, IsLoc(x), x.op.op \in OpNames
  PROVE  IsOp(x.op)
BY SMTT(60), Z3T(60) DEF IsLoc, NoOp, OpNames

(* mu.Lock, announced by a reload or by a call.                             *)
LEMMA AnnounceInv ==
  ASSUME IInv, NEW p \in Procs, Announce(p) PROVE IInv' /\ pc'[p] # "idle"
<1> USE DEF IInv
<1>1. /\ pc[p] \in {"toClear", "toLoad", "toHas", "toSingle"} /\ Goto(p, After(pc[p]), loc[p]) /\ wlock = 0 /\ wlock' = p
      /\ ans' = ans /\ Quiet
  BY DEF Announce, dataVars, histVars, Quiet
<1>2. IsLoc(loc[p]) /\ loc[p].f \in DOMAIN heap
  BY DEF TypeInv
<1>3. Moves(p, After(pc[p]), loc[p])
  BY <1>1, <1>2 DEF After, Moves, LocksMove, Writing
<1>4. pc'[p] = After(pc[p]) /\ loc'[p] = loc[p] /\ \A q \in Procs \ {p} : pc'[q] = pc[q]
  BY <1>3, MoveFacts
<1>5. ans' = [q \in Procs |-> ans'[q]]
  BY <1>1, AnsFacts
<1>6. ASSUME pc[p] \in {"toClear", "toLoad"} PROVE IInv'
  <2>1. p \in Reloaders
    BY <1>6, WhoIs DEF ReloadPcs, Loading
  <2>2. After(pc[p]) \in ReloadPcs
    BY <1>6 DEF After, ReloadPcs, Loading
  <2>3. LoadInv' /\ OkInv'
    <3>1. CASE pc[p] = "toClear"
      <4>1. After(pc[p]) \in ReloadPcs \ Loading /\ pc[p] \notin Loading
        BY <3>1 DEF After, ReloadPcs, Loading
      <4> QED BY <1>1, <1>3, <2>1, <4>1, ReloaderWaits DEF Quiet
    <3>2. CASE pc[p] = "toLoad"
      <4>1. /\ Reloaders \subseteq Procs /\ ~installed.ok
            /\ \A r \in Reloaders \ {p} : pc[r] # "idle" => met[r]
        BY <2>1, <3>2, ReloaderFacts DEF Loading
      <4>2. \A r \in Reloaders \ {p} : pc'[r] \in Loading => met'[r]
        BY <1>1, <1>4, <4>1 DEF Loading, Quiet
      <4>3. pc'[p] = "loadW"
        BY <1>4, <3>2 DEF After
      <4>4. LoadInv'
        BY <1>1, <2>1, <3>2, <4>2, <4>3 DEF LoadInv, Loading, Quiet
      <4>5. OkInv'
        BY <1>1, <4>1 DEF OkInv, Quiet
      <4> QED BY <4>4, <4>5
    <3> QED BY <1>6, <3>1, <3>2
  <2>4. FactoriesMove(p, After(pc[p]), loc[p])
    BY <1>1, <1>6 DEF FactoriesMove, Quiet
  <2>5. /\ UNCHANGED <<scen, db, met, heap, cur, single, caches, slices, installed>>
        /\ heap \in Seq(Contents) /\ cur \in DOMAIN heap /\ single \in [Keys -> {"none", "yes", "no"}]
        /\ caches = [w |-> caches.w, g |-> caches.g, s |-> caches.s]
        /\ slices \in [w : Contents, g : Contents, s : Contents] /\ installed \in [ok : BOOLEAN, t : Contents]
    BY <1>1 DEF TypeInv, Quiet
  <2> QED BY <1>2, <1>3, <1>5, <1>6, <2>1, <2>2, <2>3, <2>4, <2>5, ReloaderMoves
<1>7. ASSUME pc[p] \in {"toHas", "toSingle"} PROVE IInv'
  <2>1. p \in Callers
    BY <1>7, WhoIs DEF CallPcs
  <2>2. After(pc[p]) \in CallPcs
    BY <1>7 DEF After, CallPcs
  <2>3. LocalFlag(p)'
    BY <1>1, <1>4, <1>7, <2>1 DEF FlagInv, LocalFlag, After, Quiet
  <2>4. ASSUME installed.ok, ~met[p] PROVE Carries(p, installed.t)'
    <3>1. Carries(p, installed.t)
      BY <1>7, <2>1, <2>4 DEF CarryInv
    <3>2. pc'[p] \in {"setHas", "setSingle"} /\ (pc'[p] = "setSingle" => pc[p] = "toSingle")
      BY <1>4, <1>7 DEF After
    <3> QED BY <1>1, <1>4, <3>1, <3>2 DEF Carries, Quiet, Flags, HasFlags
  <2> QED BY <1>1, <1>2, <1>3, <1>5, <1>7, <2>1, <2>2, <2>3, <2>4, CallerGoes
<1>8. pc'[p] # "idle"
  BY <1>1, <1>4 DEF After
<1> QED BY <1>1, <1>6, <1>7, <1>8

(* Website, Group and Store find a row exactly if the tables have it.       *)
LEMMA LookupFinds ==
  ASSUME NEW t \in Contents, NEW id
  PROVE  /\ Found(Cached(MapW(t), id), id) = FoundRow(FindByID(Websites(t), id))
         /\ Found(Cached(MapG(t), id), id) = FoundRow(FindByID(Groups(t), id))
         /\ Found(Cached(MapS(t), id), id) = FoundRow(FindByID(Stores(t), id))
<1>1. ASSUME NEW rows, AreRows(rows), FindByID(rows, id) # <<>>
      PROVE  FoundRow(FindByID(rows, id)) = Ok(<<id>>)
  BY <1>1, FindFacts DEF FoundRow
<1>2. AreRows(Websites(t)) /\ AreRows(Groups(t)) /\ AreRows(Stores(t))
  BY TableFacts
<1> QED BY <1>1, <1>2, FoundIsDue DEF Found, FoundRow

-----------------------------------------------------------------------------
(* The steps of a call: each keeps the invariant, and one that ends a call  *)
(* that has met no reload gives the answer that is due.                     *)
LEMMA LookupInv ==
  ASSUME IInv, NEW p \in Procs, Lookup(p) PROVE IInv' /\ AnsweredTruly(p)
<1>1. pc[p] = "lookup" /\ p \in Callers
  BY WhoIs DEF Lookup, CallPcs, IInv
<1>2. Quiet /\ wlock' = wlock
  BY DEF Lookup, ReadsOnly, Quiet, dataVars, histVars
<1> DEFINE op == loc[p].op
           c == CASE op.op = "website" -> caches.w [] op.op = "group" -> caches.g [] OTHER -> caches.s
           a == Found(Cached(c, op.arg), op.arg)
<1>3. Finish(p, a)
  BY DEF Lookup
<1> HIDE DEF a
<1>4. IInv' /\ ans'[p] = a
  BY <1>1, <1>2, <1>3, CallerFinishes DEF Writing
<1>5. ASSUME ~met[p], installed.ok PROVE a = Due(op)
  <2> DEFINE t == installed.t
  <2>1. /\ IsLoc(loc[p]) /\ Carries(p, t) /\ t \in Contents
        /\ caches.w = MapW(t) /\ caches.g = MapG(t) /\ caches.s = MapS(t)
    BY <1>1, <1>5, CallerFacts
  <2>2. op.op \in {"website", "group", "store"}
    BY <1>1, <2>1 DEF Carries
  <2>3. IsOp(op)
    BY <2>1, <2>2, IsOpFacts DEF OpNames
  <2> HIDE DEF op, t
  <2>4. CASE op.op = "website"
    BY SMTT(60), Z3T(60), <2>1, <2>3, <2>4, LookupFinds, DueFacts DEF a, t
  <2>5. CASE op.op = "group"
    BY SMTT(60), Z3T(60), <2>1, <2>3, <2>5, LookupFinds, DueFacts DEF a, t
  <2>6. CASE op.op = "store"
    BY SMTT(60), Z3T(60), <2>1, <2>3, <2>6, LookupFinds, DueFacts DEF a, t
  <2> QED BY <2>2, <2>4, <2>5, <2>6
<1> QED BY <1>4, <1>5, DueIsAnAnswer DEF AnsweredTruly

LEMMA OfWebsiteInv ==
  ASSUME IInv, NEW p \in Procs, OfWebsite(p) PROVE IInv' /\ AnsweredTruly(p)
<1>1. pc[p] = "website" /\ p \in Callers
  BY WhoIs DEF OfWebsite, CallPcs, IInv
<1>2. Quiet /\ wlock' = wlock
  BY DEF OfWebsite, ReadsOnly, Quiet, dataVars, histVars
<1> DEFINE c == Cached(caches.w, loc[p].id)
           a == DefaultOf(c, FindByID(Websites(c), loc[p].id))
<1>3. Finish(p, a)
  BY DEF OfWebsite
<1> HIDE DEF a
<1>4. IInv' /\ ans'[p] = a
  BY <1>1, <1>2, <1>3, CallerFinishes DEF Writing
<1>5. ASSUME ~met[p], installed.ok PROVE a = Due(loc[p].op)
  <2> DEFINE t == installed.t
             id == loc[p].id
  <2>1. IsLoc(loc[p]) /\ Carries(p, t) /\ t \in Contents /\ caches.w = MapW(t)
    BY <1>1, <1>5, CallerFacts
  <2>2. loc[p].op.op = "default" /\ loc[p].op.mode.type = "website" /\ id = loc[p].op.mode.id
    BY <1>1, <2>1 DEF Carries
  <2>3. IsOp(loc[p].op)
    BY <2>1, <2>2, IsOpFacts DEF OpNames
  <2>4. Due(loc[p].op) = DefaultOf(t, FindByID(Websites(t), id))
    BY <2>2, <2>3, DueFacts
  <2>5. /\ FindByID(Websites(Cached(MapW(t), id)), id) = FindByID(Websites(t), id)
        /\ FindByID(Websites(t), id) # <<>> => Cached(MapW(t), id) = t
    <3>1. FindByID(Websites(t), id) = <<>> <=> id \notin IDs(Websites(t))
      BY <2>1, TableFacts, FindFacts
    <3> QED BY <2>1, <3>1, CacheFinds, FoundIsDue
  <2>6. a = DefaultOf(Cached(MapW(t), id), FindByID(Websites(t), id))
    BY <2>1, <2>5 DEF a
  <2>7. CASE FindByID(Websites(t), id) = <<>>
    BY <2>4, <2>6, <2>7 DEF DefaultOf
  <2>8. CASE FindByID(Websites(t), id) # <<>>
    BY <2>4, <2>5, <2>6, <2>8
  <2> QED BY <2>7, <2>8
<1> QED BY <1>4, <1>5, DueIsAnAnswer DEF AnsweredTruly

LEMMA OfGroupInv ==
  ASSUME IInv, NEW p \in Procs, OfGroup(p) PROVE IInv' /\ AnsweredTruly(p)
<1>1. pc[p] = "group" /\ p \in Callers
  BY WhoIs DEF OfGroup, CallPcs, IInv
<1>2. Quiet /\ wlock' = wlock
  BY DEF OfGroup, ReadsOnly, Quiet, dataVars, histVars
<1> DEFINE g == FindByID(Groups(Cached(caches.g, loc[p].id)), loc[p].id)
           t == installed.t
<1>3. IsLoc(loc[p]) /\ loc[p].f \in DOMAIN heap
  BY <1>1, CallerFacts
<1>4. ASSUME ~met[p], installed.ok
      PROVE  /\ t \in Contents /\ loc[p].op.op = "default" /\ IsOp(loc[p].op)
             /\ g = FindByID(Groups(t), loc[p].op.mode.id)
             /\ Due(loc[p].op) = IF g = <<>> THEN NotFound ELSE ActiveStore(FindByID(Stores(t), g[1].dstore))
  <2>1. IsLoc(loc[p]) /\ Carries(p, t) /\ t \in Contents /\ caches.g = MapG(t)
    BY <1>1, <1>4, CallerFacts
  <2>2. loc[p].op.op = "default" /\ loc[p].op.mode.type = "group" /\ loc[p].id = loc[p].op.mode.id
    BY <1>1, <2>1 DEF Carries
  <2>3. IsOp(loc[p].op)
    BY <2>1, <2>2, IsOpFacts DEF OpNames
  <2>4. g = FindByID(Groups(t), loc[p].op.mode.id)
    BY <2>1, <2>2, FoundIsDue
  <2>5. Due(loc[p].op) = IF g = <<>> THEN NotFound ELSE ActiveStore(FindByID(Stores(t), g[1].dstore))
    <3> HIDE DEF g, t
    <3> QED BY <2>2, <2>3, <2>4, DueFacts DEF t
  <2> QED BY <2>1, <2>2, <2>3, <2>4, <2>5
<1>5. CASE g = <<>>
  <2>1. Finish(p, NotFound)
    BY <1>5 DEF OfGroup
  <2>2. IInv' /\ ans'[p] = NotFound
    BY <1>1, <1>2, <2>1, CallerFinishes DEF Writing
  <2> QED BY <1>4, <1>5, <2>2, DueIsAnAnswer DEF AnsweredTruly
<1>6. CASE g # <<>>
  <2> DEFINE x == [loc[p] EXCEPT !.id = g[1].dstore]
  <2>1. IsLoc(x) /\ x.f = loc[p].f /\ x.id = g[1].dstore /\ x.op = loc[p].op
    <3> HIDE DEF g
    <3> QED BY SMTT(60), Z3T(60), <1>3, LocID
  <2>2. Goto(p, "store", x) /\ ans' = ans
    BY <1>6 DEF OfGroup
  <2> HIDE DEF x, g
  <2>3. Moves(p, "store", x) /\ "store" \in CallPcs \ Writing
    BY <1>1, <1>2, <2>1, <2>2 DEF Moves, LocksMove, Writing, CallPcs
  <2>4. pc'[p] = "store" /\ loc'[p] = x
    BY SMTT(60), Z3T(60), <2>3, MoveFacts DEF IInv
  <2>5. LocalFlag(p)'
    BY <2>4 DEF LocalFlag
  <2>6. ans' = [q \in Procs |-> ans'[q]]
    BY <2>2, AnsFacts DEF IInv
  <2>7. ASSUME ~met[p], installed.ok PROVE Carries(p, installed.t)'
    <3>1. Due(loc[p].op)' = Due(x.op)
      BY <1>2, <2>1, <2>4 DEF Due, Quiet
    <3>2. Due(x.op) = ActiveStore(FindByID(Stores(t), x.id))
      BY <1>4, <1>6, <2>1, <2>7
    <3>3. x.op.op = "default" /\ installed' = installed
      BY <1>2, <1>4, <2>1, <2>7 DEF Quiet
    <3> QED BY <2>4, <3>1, <3>2, <3>3 DEF Carries
  <2>8. IInv'
    BY <1>1, <1>2, <1>3, <2>1, <2>3, <2>5, <2>6, <2>7, CallerGoes
  <2> QED BY <2>4, <2>8 DEF AnsweredTruly
<1> QED BY <1>5, <1>6

LEMMA OfStoreInv ==
  ASSUME IInv, NEW p \in Procs, OfStore(p) PROVE IInv' /\ AnsweredTruly(p)
<1>1. pc[p] = "store" /\ p \in Callers
  BY WhoIs DEF OfStore, CallPcs, IInv
<1>2. Quiet /\ wlock' = wlock
  BY DEF OfStore, Quiet, dataVars, histVars
<1> DEFINE id == loc[p].id
           c == Cached(caches.s, id)
           a == IF loc[p].op.op = "view" THEN Found(c, id) ELSE ActiveStore(FindByID(Stores(c), id))
<1>3. Finish(p, a)
  BY DEF OfStore
<1> HIDE DEF a
<1>4. IInv' /\ ans'[p] = a
  BY <1>1, <1>2, <1>3, CallerFinishes DEF Writing
<1>5. ASSUME ~met[p], installed.ok PROVE Excused(loc[p].op) \/ a = Due(loc[p].op)
  <2> DEFINE t == installed.t
  <2>1. IsLoc(loc[p]) /\ Carries(p, t) /\ t \in Contents /\ caches.s = MapS(t)
    BY <1>1, <1>5, CallerFacts
  <2>2. \/ loc[p].op.op = "default" /\ ActiveStore(FindByID(Stores(t), id)) = Due(loc[p].op)
        \/ loc[p].op.op = "view" /\ (heap[cur] = t => FactoryDefaultStoreID(t) = Ok(<<id>>))
    BY <1>1, <2>1 DEF Carries
  <2>3. CASE loc[p].op.op = "default" /\ ActiveStore(FindByID(Stores(t), id)) = Due(loc[p].op)
    <3>1. FindByID(Stores(c), id) = FindByID(Stores(t), id)
      BY <2>1, FoundIsDue
    <3>2. a = ActiveStore(FindByID(Stores(c), id))
      BY <2>3 DEF a
    <3> HIDE DEF id, c, t
    <3> QED BY <2>3, <3>1, <3>2
  <2>4. CASE loc[p].op.op = "view" /\ heap[cur] # t
    BY <2>4 DEF Excused
  <2>5. CASE loc[p].op.op = "view" /\ FactoryDefaultStoreID(t) = Ok(<<id>>)
    <3>1. Found(c, id) = FoundRow(FindByID(Stores(t), id))
      BY <2>1, LookupFinds
    <3>2. IsOp(loc[p].op)
      BY <2>1, <2>5, IsOpFacts DEF OpNames
    <3>3. FactoryDefaultStoreID(t) # NotFound /\ FactoryDefaultStoreID(t).val[1] = id
      <4>1. Ok(<<id>>) # NotFound
        BY DEF Ok, NotFound, Fail
      <4>2. Ok(<<id>>).val[1] = id
        BY DEF Ok
      <4> QED BY <2>5, <4>1, <4>2
    <3>4. Due(loc[p].op) = FoundRow(FindByID(Stores(t), id))
      <4> HIDE DEF id, t
      <4> QED BY <2>5, <3>2, <3>3, DueFacts DEF t
    <3>5. a = Found(c, id)
      BY <2>5 DEF a
    <3> QED BY <3>1, <3>4, <3>5
  <2> QED BY <2>2, <2>3, <2>4, <2>5
<1> QED BY <1>4, <1>5, DueIsAnAnswer DEF AnsweredTruly

(* The slices are read without a lock, but a call that has met no reload    *)
(* has no writer beside it.                                                 *)
LEMMA TornInv ==
  ASSUME IInv, NEW p \in Procs, Torn(p) PROVE IInv' /\ AnsweredTruly(p)
<1>1. pc[p] \in {"websites", "stores"} /\ p \in Callers /\ wlock \in Reloaders
  BY WhoIs DEF Torn, CallPcs, IInv
<1>2. Quiet /\ wlock' = wlock /\ Finish(p, Fail("torn"))
  BY DEF Torn, ReadsOnly, Quiet, dataVars, histVars
<1>3. IInv'
  BY <1>1, <1>2, CallerFinishes DEF Writing
<1>4. ~(~met[p] /\ installed.ok)
  BY <1>1, CallerFacts
<1> QED BY <1>3, <1>4, DueIsAnAnswer DEF AnsweredTruly

LEMMA ReadWebsitesInv ==
  ASSUME IInv, NEW p \in Procs, ReadWebsites(p) PROVE IInv' /\ AnsweredTruly(p)
<1>1. pc[p] = "websites" /\ p \in Callers
  BY WhoIs DEF ReadWebsites, CallPcs, IInv
<1>2. Quiet /\ wlock' = wlock
  BY DEF ReadWebsites, ReadsOnly, Quiet, dataVars, histVars
<1> DEFINE op == loc[p].op
           t == installed.t
           w == slices.w
<1>3. IsLoc(loc[p]) /\ loc[p].f \in DOMAIN heap
  BY <1>1, CallerFacts
<1>4. ASSUME ~met[p], installed.ok
      PROVE  /\ IsOp(op) /\ w = t
             /\ \/ op.op \in {"default", "isAllowed", "allowed"} /\ op.mode.type = "default"
                \/ op.op = "code" /\ op.arg = 0
  <2>1. Carries(p, t) /\ w = t
    BY <1>1, <1>4, CallerFacts
  <2>2. \/ op.op \in {"default", "isAllowed", "allowed"} /\ op.mode.type = "default"
        \/ op.op = "code" /\ op.arg = 0
    BY <1>1, <2>1 DEF Carries
  <2> QED BY <1>3, <2>1, <2>2, IsOpFacts DEF OpNames
<1>5. CASE op.op \in {"default", "code"}
  <2>1. Finish(p, DefaultOf(w, DefaultWebsite(w)))
    BY <1>5 DEF ReadWebsites
  <2>2. IInv' /\ ans'[p] = DefaultOf(w, DefaultWebsite(w))
    BY <1>1, <1>2, <2>1, CallerFinishes DEF Writing
  <2>3. ASSUME ~met[p], installed.ok PROVE Due(op) = DefaultOf(w, DefaultWebsite(w))
    <3> HIDE DEF op, w, t
    <3>1. (op.op = "default" /\ op.mode.type = "default") \/ (op.op = "code" /\ op.arg = 0)
      BY <1>4, <1>5, <2>3
    <3> QED BY <1>4, <2>3, <3>1, DueFacts DEF t
  <2> QED BY <2>2, <2>3, DueIsAnAnswer DEF AnsweredTruly
<1>6. CASE op.op \notin {"default", "code"} /\ ModeFails(w, op.mode)
  <2>1. Finish(p, NotFound)
    BY <1>6 DEF ReadWebsites
  <2>2. IInv' /\ ans'[p] = NotFound
    BY <1>1, <1>2, <2>1, CallerFinishes DEF Writing
  <2>3. ASSUME ~met[p], installed.ok PROVE Due(op) = NotFound
    <3> HIDE DEF op, w, t
    <3>1. Due(op) = IsAllowed(t, t, op.mode, op.arg) \/ Due(op) = Allowed(t, t, op.mode)
      BY <1>4, <1>6, <2>3, DueFacts DEF t
    <3> QED BY <1>4, <1>6, <2>3, <3>1 DEF IsAllowed, Allowed
  <2> QED BY <2>2, <2>3, DueIsAnAnswer DEF AnsweredTruly
<1>7. CASE op.op \notin {"default", "code"} /\ ~ModeFails(w, op.mode)
  <2> DEFINE x == [loc[p] EXCEPT !.t = w]
  <2>1. IsLoc(x) /\ x.f = loc[p].f /\ x.t = w /\ x.op = op
    <3>1. w \in Contents
      BY DataTypes DEF IInv
    <3> QED BY SMTT(60), Z3T(60), <1>3, <3>1, LocTables
  <2>2. Goto(p, "stores", x) /\ ans' = ans
    BY <1>7 DEF ReadWebsites
  <2> HIDE DEF x
  <2>3. Moves(p, "stores", x) /\ "stores" \in CallPcs \ Writing
    BY <1>1, <1>2, <2>1, <2>2 DEF Moves, LocksMove, Writing, CallPcs
  <2>4. pc'[p] = "stores" /\ loc'[p] = x
    BY SMTT(60), Z3T(60), <2>3, MoveFacts DEF IInv
  <2>5. LocalFlag(p)'
    BY <2>4 DEF LocalFlag
  <2>6. ans' = [q \in Procs |-> ans'[q]]
    BY <2>2, AnsFacts DEF IInv
  <2>7. ASSUME ~met[p], installed.ok PROVE Carries(p, installed.t)'
    <3>1. x.op.op \in {"isAllowed", "allowed"} /\ x.t = t /\ ~ModeFails(t, x.op.mode) /\ installed' = installed
      BY <1>2, <1>4, <1>7, <2>1, <2>7 DEF Quiet
    <3> QED BY <2>4, <3>1 DEF Carries
  <2>8. IInv'
    BY <1>1, <1>2, <1>3, <2>1, <2>3, <2>5, <2>6, <2>7, CallerGoes
  <2> QED BY <2>4, <2>8 DEF AnsweredTruly
<1> QED BY <1>5, <1>6, <1>7

LEMMA ReadStoresInv ==
  ASSUME IInv, NEW p \in Procs, ReadStores(p) PROVE IInv' /\ AnsweredTruly(p)
<1>1. pc[p] = "stores" /\ p \in Callers
  BY WhoIs DEF ReadStores, CallPcs, IInv
<1>2. Quiet /\ wlock' = wlock
  BY DEF ReadStores, ReadsOnly, Quiet, dataVars, histVars
<1> DEFINE op == loc[p].op
           a == IF op.op = "allowed" THEN Allowed(loc[p].t, slices.s, op.mode)
                ELSE IsAllowed(loc[p].t, slices.s, op.mode, op.arg)
<1>3. Finish(p, a)
  BY DEF ReadStores
<1> HIDE DEF a
<1>4. IInv' /\ ans'[p] = a
  BY <1>1, <1>2, <1>3, CallerFinishes DEF Writing
<1>5. ASSUME ~met[p], installed.ok PROVE a = Due(op)
  <2> DEFINE t == installed.t
             u == loc[p].t
  <2>1. IsLoc(loc[p]) /\ Carries(p, t) /\ slices.s = t
    BY <1>1, <1>5, CallerFacts
  <2>2. op.op \in {"isAllowed", "allowed"} /\ (op.mode.type = "default" => u = t)
    BY <1>1, <2>1 DEF Carries
  <2>3. IsOp(op)
    BY <2>1, <2>2, IsOpFacts DEF OpNames
  <2> HIDE DEF op, t, u
  <2>4. Matching(u, t, op.mode) = Matching(t, t, op.mode) /\ (ModeFails(u, op.mode) <=> ModeFails(t, op.mode))
    <3>1. CASE op.mode.type = "default"
      BY <2>2, <3>1
    <3>2. CASE op.mode.type # "default"
      BY <3>2 DEF Matching, ModeFails
    <3> QED BY <3>1, <3>2
  <2>5. Allowed(u, t, op.mode) = Allowed(t, t, op.mode) /\ IsAllowed(u, t, op.mode, op.arg) = IsAllowed(t, t, op.mode, op.arg)
    BY <2>4 DEF Allowed, IsAllowed
  <2>6. a = IF op.op = "allowed" THEN Allowed(u, t, op.mode) ELSE IsAllowed(u, t, op.mode, op.arg)
    BY <2>1 DEF a, u
  <2>7. CASE op.op = "allowed"
    BY <2>3, <2>5, <2>6, <2>7, DueFacts DEF t
  <2>8. CASE op.op = "isAllowed"
    BY <2>3, <2>5, <2>6, <2>8, DueFacts DEF t
  <2> QED BY <2>2, <2>7, <2>8
<1> QED BY <1>4, <1>5, DueIsAnAnswer DEF AnsweredTruly

LEMMA StoreIDbyCodeInv ==
  ASSUME IInv, NEW p \in Procs, StoreIDbyCode(p) PROVE IInv' /\ AnsweredTruly(p)
<1>1. pc[p] = "byCode" /\ p \in Callers
  BY WhoIs DEF StoreIDbyCode, CallPcs, IInv
<1>2. Quiet /\ wlock' = wlock
  BY DEF StoreIDbyCode, ReadsOnly, Quiet, dataVars, histVars
<1> DEFINE op == loc[p].op
           a == ByCode(slices.w, slices.s, op.mode, op.arg)
<1>3. Finish(p, a)
  BY DEF StoreIDbyCode
<1> HIDE DEF a
<1>4. IInv' /\ ans'[p] = a
  BY <1>1, <1>2, <1>3, CallerFinishes DEF Writing
<1>5. ASSUME ~met[p], installed.ok PROVE a = Due(op)
  <2> DEFINE t == installed.t
  <2>1. IsLoc(loc[p]) /\ Carries(p, t) /\ slices.w = t /\ slices.s = t
    BY <1>1, <1>5, CallerFacts
  <2>2. op.op = "code" /\ op.arg # 0
    BY <1>1, <2>1 DEF Carries
  <2>3. IsOp(op)
    BY <2>1, <2>2, IsOpFacts DEF OpNames
  <2>4. a = ByCode(t, t, op.mode, op.arg)
    BY <2>1 DEF a
  <2> HIDE DEF op, t
  <2> QED BY <2>2, <2>3, <2>4, DueFacts DEF t
<1> QED BY <1>4, <1>5, DueIsAnAnswer DEF AnsweredTruly

(* DefaultStoreView.                                                        *)
LEMMA FactoryFacts ==
  ASSUME NEW t
  PROVE  /\ FactoryDefaultStoreID(t).err # "none" => FactoryDefaultStoreID(t) = NotFound
         /\ FactoryDefaultStoreID(t).err = "none" => FactoryDefaultStoreID(t) = Ok(<<FactoryDefaultStoreID(t).val[1]>>)
<1>1. PICK i : FactoryDefaultStoreID(t) \in {NotFound, Ok(<<i>>)}
  BY DEF FactoryDefaultStoreID
<1>2. NotFound.err # "none" /\ Ok(<<i>>).err = "none" /\ Ok(<<i>>).val[1] = i
  BY DEF NotFound, Fail, Ok
<1>3. CASE FactoryDefaultStoreID(t) = NotFound
  BY <1>2, <1>3
<1>4. CASE FactoryDefaultStoreID(t) = Ok(<<i>>)
  BY <1>2, <1>4
<1> QED BY <1>1, <1>3, <1>4

LEMMA ViewInv ==
  ASSUME IInv, NEW p \in Procs, View(p) PROVE IInv' /\ AnsweredTruly(p)
<1>1. pc[p] = "view" /\ p \in Callers
  BY WhoIs DEF View, CallPcs, IInv
<1>2. Quiet /\ wlock' = wlock /\ ans' = ans
  BY DEF View, ReadsOnly, Quiet, dataVars, histVars
<1>3. IsLoc(loc[p]) /\ loc[p].f \in DOMAIN heap
  BY <1>1, CallerFacts
<1>4. PICK l \in {"viewCache", "backend"} : Goto(p, l, loc[p])
  BY DEF View
<1>5. Moves(p, l, loc[p]) /\ l \in CallPcs \ Writing
  BY <1>1, <1>2, <1>3, <1>4 DEF Moves, LocksMove, Writing, CallPcs
<1>6. pc'[p] = l /\ loc'[p] = loc[p]
  BY <1>5, MoveFacts DEF IInv
<1>7. LocalFlag(p)'
  BY <1>6 DEF LocalFlag
<1>8. ans' = [q \in Procs |-> ans'[q]]
  BY <1>2, AnsFacts DEF IInv
<1>9. ASSUME ~met[p], installed.ok PROVE Carries(p, installed.t)'
  <2>1. Carries(p, installed.t)
    BY <1>1, <1>9, CallerFacts
  <2>2. loc[p].op.op = "view"
    BY <1>1, <2>1 DEF Carries
  <2> QED BY <1>6, <2>2 DEF Carries
<1>10. IInv'
  BY <1>1, <1>2, <1>3, <1>5, <1>7, <1>8, <1>9, CallerGoes
<1> QED BY <1>6, <1>10 DEF AnsweredTruly

LEMMA ViewCacheInv ==
  ASSUME IInv, NEW p \in Procs, ViewCache(p) PROVE IInv' /\ AnsweredTruly(p)
<1>1. pc[p] = "viewCache" /\ p \in Callers
  BY WhoIs DEF ViewCache, CallPcs, IInv
<1>2. Quiet /\ wlock' = wlock
  BY DEF ViewCache, Quiet, dataVars, histVars
<1>3. IsLoc(loc[p]) /\ loc[p].f \in DOMAIN heap
  BY <1>1, CallerFacts
<1>4. ASSUME ~met[p], installed.ok PROVE loc[p].op.op = "view"
  <2>1. Carries(p, installed.t)
    BY <1>1, <1>4, CallerFacts
  <2> QED BY <1>1, <2>1 DEF Carries
<1>5. CASE Cached(caches.s, defID) # Nil
  <2>1. Finish(p, Ok(<<defID>>))
    BY <1>5 DEF ViewCache
  <2>2. IInv' /\ ans'[p] = Ok(<<defID>>)
    BY <1>1, <1>2, <2>1, CallerFinishes DEF Writing
  <2>3. ASSUME ~met[p], installed.ok, "view" \notin shaky PROVE Due(loc[p].op) = Ok(<<defID>>)
    <3> DEFINE t == installed.t
    <3>1. t \in Contents /\ caches.s = MapS(t)
      BY <1>1, <2>3, CallerFacts
    <3>2. defID \in IDs(Stores(t))
      BY <1>5, <3>1, CacheFinds
    <3>3. defID # -1
      BY <3>1, <3>2, TableFacts, IDsAreNatural
    <3>4. FactoryDefaultStoreID(t) = Ok(<<defID>>)
      BY <2>3, <3>3 DEF IInv, OkInv
    <3>5. FactoryDefaultStoreID(t) # NotFound /\ FactoryDefaultStoreID(t).val[1] = defID
      <4>1. Ok(<<defID>>) # NotFound /\ Ok(<<defID>>).val[1] = defID
        BY DEF Ok, NotFound, Fail
      <4> QED BY <3>4, <4>1
    <3>6. FindByID(Stores(t), defID) # <<>> /\ FindByID(Stores(t), defID)[1].id = defID
      BY <3>1, <3>2, TableFacts, FindFacts
    <3>7. IsOp(loc[p].op)
      BY <1>3, <1>4, <2>3, IsOpFacts DEF OpNames
    <3>8. Due(loc[p].op) = FoundRow(FindByID(Stores(t), defID))
      <4> HIDE DEF t
      <4> QED BY <1>4, <2>3, <3>5, <3>7, DueFacts DEF t
    <3> QED BY <3>6, <3>8 DEF FoundRow
  <2>4. "view" \in shaky /\ loc[p].op.op = "view" => Excused(loc[p].op)
    BY <1>2 DEF Excused, Quiet
  <2> QED BY <1>4, <2>2, <2>3, <2>4, DueIsAnAnswer DEF AnsweredTruly
<1>6. CASE Cached(caches.s, defID) = Nil
  <2>1. Goto(p, "backend", loc[p]) /\ ans' = ans
    BY <1>6 DEF ViewCache
  <2>2. Moves(p, "backend", loc[p]) /\ "backend" \in CallPcs \ Writing
    BY <1>1, <1>2, <1>3, <2>1 DEF Moves, LocksMove, Writing, CallPcs
  <2>3. pc'[p] = "backend" /\ loc'[p] = loc[p]
    BY <2>2, MoveFacts DEF IInv
  <2>4. LocalFlag(p)'
    BY <2>3 DEF LocalFlag
  <2>5. ans' = [q \in Procs |-> ans'[q]]
    BY <2>1, AnsFacts DEF IInv
  <2>6. ASSUME ~met[p], installed.ok PROVE Carries(p, installed.t)'
    BY <1>4, <2>3, <2>6 DEF Carries
  <2>7. IInv'
    BY <1>1, <1>2, <1>3, <2>2, <2>4, <2>5, <2>6, CallerGoes
  <2> QED BY <2>3, <2>7 DEF AnsweredTruly
<1> QED BY <1>5, <1>6

LEMMA BackendInv ==
  ASSUME IInv, NEW p \in Procs, Backend(p) PROVE IInv' /\ AnsweredTruly(p)
<1>1. pc[p] = "backend" /\ p \in Callers
  BY WhoIs DEF Backend, CallPcs, IInv
<1>2. UNCHANGED <<scen, db, heap, cur, fmu, slices, caches, single, wlock, installed, met>>
  BY DEF Backend
<1>3. IsLoc(loc[p]) /\ loc[p].f \in DOMAIN heap
  BY <1>1, CallerFacts
<1>4. ASSUME ~met[p], installed.ok PROVE loc[p].op.op = "view" /\ IsOp(loc[p].op) /\ fmu = {}
  <2>1. Carries(p, installed.t) /\ fmu = {}
    BY <1>1, <1>4, CallerFacts
  <2>2. loc[p].op.op = "view"
    BY <1>1, <2>1 DEF Carries
  <2> QED BY <1>3, <2>1, <2>2, IsOpFacts DEF OpNames
<1> DEFINE d == FactoryDefaultStoreID(heap[cur])
<1>5. PICK a \in {d} \cup (IF cur \in fmu THEN {Fail("torn")} ELSE {}) :
        IF a.err # "none"
        THEN Finish(p, a) /\ held' = [held EXCEPT ![p] = 0] /\ UNCHANGED <<defID, shaky>>
        ELSE /\ defID' = a.val[1] /\ Goto(p, "store", [loc[p] EXCEPT !.id = a.val[1]])
             /\ shaky' = IF met[p] \/ heap[cur] # installed.t THEN shaky \cup {"view"} ELSE shaky \ {"view"}
             /\ UNCHANGED <<ans, held>>
  BY DEF Backend
<1>6. a = d \/ (cur \in fmu /\ a = Fail("torn"))
  BY <1>5
<1>7. CASE a.err # "none"
  <2>1. Finish(p, a) /\ Quiet /\ wlock' = wlock
    BY <1>2, <1>5, <1>7 DEF Quiet
  <2>2. IInv' /\ ans'[p] = a
    BY <1>1, <2>1, CallerFinishes DEF Writing
  <2>3. ASSUME ~met[p], installed.ok, heap[cur] = installed.t PROVE Due(loc[p].op) = a
    <3>1. a = NotFound /\ FactoryDefaultStoreID(installed.t) = NotFound
      BY <1>4, <1>6, <1>7, <2>3, FactoryFacts
    <3> QED BY <1>4, <2>3, <3>1, DueFacts
  <2>4. heap[cur] # installed.t /\ loc[p].op.op = "view" => Excused(loc[p].op)
    BY DEF Excused
  <2> QED BY <1>4, <2>2, <2>3, <2>4, DueIsAnAnswer DEF AnsweredTruly
<1>8. CASE a.err = "none"
  <2> DEFINE x == [loc[p] EXCEPT !.id = a.val[1]]
  <2>1. IsLoc(x) /\ x.f = loc[p].f /\ x.id = a.val[1] /\ x.op = loc[p].op
    BY SMTT(60), Z3T(60), <1>3, LocID
  <2>2. Goto(p, "store", x) /\ ans' = ans /\ defID' = a.val[1]
        /\ shaky' = IF met[p] \/ heap[cur] # installed.t THEN shaky \cup {"view"} ELSE shaky \ {"view"}
    BY <1>5, <1>8
  <2> HIDE DEF x
  <2>3. Moves(p, "store", x) /\ "store" \in CallPcs \ Writing
    BY <1>1, <1>2, <2>1, <2>2 DEF Moves, LocksMove, Writing, CallPcs
  <2>4. pc'[p] = "store" /\ loc'[p] = x
    BY SMTT(60), Z3T(60), <2>3, MoveFacts DEF IInv
  <2>5. a = FactoryDefaultStoreID(heap[cur]) /\ a = Ok(<<a.val[1]>>)
    <3>1. Fail("torn").err # "none"
      BY DEF Fail
    <3> QED BY <1>6, <1>8, <3>1, FactoryFacts
  <2>6. LocalFlag(p)'
    BY <2>4 DEF LocalFlag
  <2>7. ans' = [q \in Procs |-> ans'[q]]
    BY <2>2, AnsFacts DEF IInv
  <2>8. ASSUME ~met[p], installed.ok PROVE Carries(p, installed.t)'
    <3>1. heap[cur] = installed.t => FactoryDefaultStoreID(installed.t) = Ok(<<x.id>>)
      BY <2>1, <2>5
    <3>2. x.op.op = "view"
      BY <1>4, <2>1, <2>8
    <3> QED BY <1>2, <2>4, <3>1, <3>2 DEF Carries
  <2>9. FlagsWritten(p)
    <3>1. \A k \in Keys : k \in shaky' <=> k \in shaky
      BY <2>2 DEF Keys
    <3>2. "view" \notin shaky' => ~met[p] /\ heap[cur] = installed.t
      BY <2>2
    <3>3. "view" \notin shaky' => ~met[p] /\ Ok(<<defID'>>) = FactoryDefaultStoreID(installed.t)
      BY <2>2, <2>5, <3>2
    <3>4. single \in [Keys -> {"none", "yes", "no"}] /\ (single["scope"] # "none" => scen.flag["scope"] # "fails")
      BY DEF IInv, TypeInv, FlagInv
    <3> QED BY <1>2, <3>1, <3>3, <3>4 DEF FlagsWritten
  <2>10. met' \in [Procs -> BOOLEAN] /\ met' = met
    BY <1>2 DEF IInv, TypeInv
  <2>11. IInv'
    BY <1>1, <1>2, <1>3, <2>1, <2>3, <2>6, <2>7, <2>8, <2>9, <2>10, CallerMoves
  <2> QED BY <2>4, <2>11 DEF AnsweredTruly
<1> QED BY <1>7, <1>8
=============================================================================
