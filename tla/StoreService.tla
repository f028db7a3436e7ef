---------------------------- MODULE StoreService ----------------------------
(***************************************************************************)
(* store.Service: its caches, the calls that read them, and the reload     *)
(* from the resource of the tables, LoadFromResource, beside them.         *)
(*                                                                         *)
(* The mutex is an RWMutex: a writer that waits (wlock) keeps new readers  *)
(* out, and goes on once those inside have left (held).  A reader whose    *)
(* section is one step is not counted as inside.                           *)
(*                                                                         *)
(* installed, met and shaky are history: the tables of the last reload     *)
(* that went well and alone, the calls that have met a reload or read what *)
(* such a call has left behind, and the cached values that these have left *)
(* behind.                                                                 *)
(***************************************************************************)
EXTENDS StoreData, FiniteSets

CONSTANTS Reloaders, Callers,   \* goroutines, numbered from 1
          Scenarios             \* versions of the tables, reloads, atOnce, calls, ops, fails, enabled, flag

VARIABLES scen, db,             \* the version that the tables have now
          heap, cur, fmu,       \* factories, Service.backend, and their mutexes
          slices,               \* websites, groups and stores: what each was built from
          caches,               \* cacheWebsite, cacheGroup, cacheStore: id -> what it was built from
          single, defID,        \* cacheSingleStore, defaultStoreID
          wlock, held, pc, loc, ans, reloads, calls,
          installed, met, shaky

dataVars == <<heap, cur, fmu, slices, caches, single, defID>>
histVars == <<installed, met, shaky>>
vars == <<scen, db, dataVars, wlock, held, pc, loc, ans, reloads, calls, histVars>>

Procs == Reloaders \cup Callers
AllIDs == UNION {IDs(Table[v].websites) \cup IDs(Table[v].groups) \cup IDs(Table[v].stores) : v \in DOMAIN Table}
Keys == {"default", "scope"}
NoOp == [op |-> "none", arg |-> 0, mode |-> [type |-> "default", id |-> 0], key |-> "default"]
Idle == [op |-> NoOp, f |-> 1, todo |-> {}, bad |-> FALSE, t |-> Nil, id |-> 0]
Whole(v) == [w |-> v, g |-> v, s |-> v]
Cache(ids, t, old) == [i \in AllIDs |-> IF i \in ids THEN t ELSE old[i]]
Nothing == [i \in AllIDs |-> Nil]
Cached(c, i) == IF i \in AllIDs THEN c[i] ELSE Nil
Reloading == {r \in Reloaders : pc[r] # "idle"}

(* The operations of Finder, each with a run mode or a scope.               *)
OpNames == {"website", "group", "store", "default", "code", "isAllowed", "allowed", "view", "has", "single"}
ModeTypes == {"default", "store", "group", "website"}
ASSUME StoreAssumption ==
  /\ Reloaders \cap Callers = {} /\ 0 \notin Reloaders \cup Callers
  /\ \A s \in Scenarios :
       /\ s.versions \in Seq(DOMAIN Rows) /\ s.versions # <<>> /\ s.mode.type \in ModeTypes
       /\ \A op \in s.ops : op.op \in OpNames /\ op.mode.type \in ModeTypes /\ op.key \in Keys

(* NewService with the tables of the first version.                         *)
Init ==
  /\ scen \in Scenarios /\ db = scen.versions[1] /\ reloads = 0 /\ calls = 0
  /\ LET t == Whole(db) IN
     /\ heap = <<t>> /\ cur = 1 /\ fmu = {}
     /\ slices = [w |-> t, g |-> t, s |-> t] /\ installed = [ok |-> TRUE, t |-> t]
     /\ caches = [w |-> Cache(IDs(Websites(t)), t, Nothing), g |-> Cache(IDs(Groups(t)), t, Nothing),
                  s |-> Cache(IDs(Stores(t)), t, Nothing)]
  /\ single = [k \in Keys |-> "none"] /\ defID = -1
  /\ wlock = 0 /\ held = [p \in Procs |-> 0]
  /\ pc = [p \in Procs |-> "idle"] /\ loc = [p \in Procs |-> Idle] /\ ans = [p \in Procs |-> Ok(<<>>)]
  /\ met = [p \in Procs |-> FALSE] /\ shaky = {}

(* Somebody changes the tables.                                             *)
Commit ==
  /\ \E i \in DOMAIN scen.versions : db = scen.versions[i] /\ i < Len(scen.versions) /\ db' = scen.versions[i + 1]
  /\ UNCHANGED <<scen, dataVars, wlock, held, pc, loc, ans, reloads, calls, histVars>>

Goto(p, l, x) == pc' = [pc EXCEPT ![p] = l] /\ loc' = [loc EXCEPT ![p] = x]
Finish(p, a) == Goto(p, "idle", Idle) /\ ans' = [ans EXCEPT ![p] = a]
NoReaders == \A p \in Procs : held[p] = 0
CanRLock == wlock = 0
-----------------------------------------------------------------------------
(* LoadFromResource: the three tables are selected at the same time, into   *)
(* the factory that is the backend now, under its mutex.                    *)
Reload(p) ==
  /\ pc[p] = "idle" /\ (\A q \in Reloaders : q < p => pc[q] # "idle")
  /\ Cardinality(Reloading) < scen.atOnce /\ reloads < scen.reloads /\ reloads' = reloads + 1
  /\ Goto(p, "toSelect", [Idle EXCEPT !.f = cur, !.todo = {"w", "g", "s"}])
  /\ met' = [q \in Procs |-> IF q = p THEN Reloading # {} ELSE met[q] \/ pc[q] # "idle"]
  /\ UNCHANGED <<scen, db, dataVars, wlock, held, ans, calls, installed, shaky>>

LockFactory(p) ==
  /\ pc[p] = "toSelect" /\ loc[p].f \notin fmu /\ fmu' = fmu \cup {loc[p].f} /\ Goto(p, "select", loc[p])
  /\ UNCHANGED <<scen, db, heap, cur, slices, caches, single, defID, wlock, held, ans, reloads, calls, histVars>>

Select(p) ==
  /\ pc[p] = "select" /\ loc[p].todo # {}
  /\ \E x \in loc[p].todo, v \in {db} \cup (IF scen.fails THEN {0} ELSE {}) :
       /\ heap' = [heap EXCEPT ![loc[p].f][x] = v]
       /\ loc' = [loc EXCEPT ![p].todo = @ \ {x}, ![p].bad = @ \/ v = 0]
  /\ UNCHANGED <<scen, db, cur, fmu, slices, caches, single, defID, wlock, held, pc, ans, reloads, calls, histVars>>

Selected(p) ==
  /\ pc[p] = "select" /\ loc[p].todo = {}
  /\ fmu' = fmu \ {loc[p].f}
  /\ IF loc[p].bad THEN Finish(p, Fail("Resource")) ELSE Goto(p, "toClear", loc[p]) /\ UNCHANGED ans
  /\ UNCHANGED <<scen, db, heap, cur, slices, caches, single, defID, wlock, held, reloads, calls, histVars>>

(* mu.Lock, first half: the writer is announced.                            *)
After(l) == CASE l = "toClear" -> "clear" [] l = "toLoad" -> "loadW" [] l = "toHas" -> "setHas" [] OTHER -> "setSingle"
Announce(p) ==
  /\ pc[p] \in {"toClear", "toLoad", "toHas", "toSingle"} /\ wlock = 0 /\ wlock' = p
  /\ Goto(p, After(pc[p]), loc[p])
  /\ UNCHANGED <<scen, db, dataVars, held, ans, reloads, calls, histVars>>

\* as ClearCache, but the flags of the single store mode are kept
ClearCacheKeeps(p) ==
  /\ pc[p] = "clear" /\ NoReaders /\ wlock' = 0
  /\ slices' = [w |-> Nil, g |-> Nil, s |-> Nil] /\ caches' = [w |-> Nothing, g |-> Nothing, s |-> Nothing]
  /\ single' = single /\ defID' = -1
  /\ Goto(p, "toRead", loc[p])
  /\ installed' = [installed EXCEPT !.ok = FALSE] /\ shaky' = {}
  /\ UNCHANGED <<scen, db, heap, cur, fmu, held, ans, reloads, calls, met>>

(* ClearCache; then the rows of the backend are read, without a lock.       *)
ClearCache(p) ==
  /\ pc[p] = "clear" /\ NoReaders /\ wlock' = 0
  /\ slices' = [w |-> Nil, g |-> Nil, s |-> Nil] /\ caches' = [w |-> Nothing, g |-> Nothing, s |-> Nothing]
  /\ single' = [k \in Keys |-> "none"] /\ defID' = -1
  /\ Goto(p, "toRead", loc[p])
  /\ installed' = [installed EXCEPT !.ok = FALSE] /\ shaky' = {}
  /\ UNCHANGED <<scen, db, heap, cur, fmu, held, ans, reloads, calls, met>>

ReadBackend(p) ==
  /\ pc[p] = "toRead" /\ Goto(p, "toLoad", [loc[p] EXCEPT !.t = heap[cur]])
  /\ UNCHANGED <<scen, db, dataVars, wlock, held, ans, reloads, calls, histVars>>

(* loadFromOptions: a new factory, then websites, groups and stores; an     *)
(* error leaves what has been stored before it.                             *)
\* as LoadFails, but the mutex stays locked
LoadFailsLocked(p) == Finish(p, Fail("NotValid")) /\ UNCHANGED <<wlock, installed>>
LoadFails(p) == Finish(p, Fail("NotValid")) /\ wlock' = 0 /\ UNCHANGED installed
LoadWebsites(p) ==
  /\ pc[p] = "loadW" /\ NoReaders
  /\ heap' = Append(heap, loc[p].t) /\ cur' = Len(heap) + 1
  /\ slices' = [slices EXCEPT !.w = loc[p].t]
  /\ caches' = [caches EXCEPT !.w = Cache(IDs(Websites(loc[p].t)), loc[p].t, @)]
  /\ IF OneDefault(loc[p].t) THEN Goto(p, "loadG", loc[p]) /\ UNCHANGED <<wlock, ans, installed>> ELSE LoadFails(p)
  /\ UNCHANGED <<scen, db, fmu, single, defID, held, reloads, calls, met, shaky>>

LoadGroups(p) ==
  /\ pc[p] = "loadG"
  /\ IF GroupsValid(loc[p].t)
     THEN /\ slices' = [slices EXCEPT !.g = loc[p].t]
          /\ caches' = [caches EXCEPT !.g = Cache(IDs(Groups(loc[p].t)), loc[p].t, @)]
          /\ Goto(p, "loadS", loc[p]) /\ UNCHANGED <<wlock, ans, installed>>
     ELSE LoadFails(p) /\ UNCHANGED <<slices, caches>>
  /\ UNCHANGED <<scen, db, heap, cur, fmu, single, defID, held, reloads, calls, met, shaky>>

LoadStores(p) ==
  /\ pc[p] = "loadS"
  /\ IF StoresValid(loc[p].t)
     THEN /\ slices' = [slices EXCEPT !.s = loc[p].t]
          /\ caches' = [caches EXCEPT !.s = Cache(IDs(Stores(loc[p].t)), loc[p].t, @)]
          /\ Finish(p, Ok(<<>>)) /\ wlock' = 0 /\ installed' = [ok |-> ~met[p], t |-> loc[p].t]
     ELSE LoadFails(p) /\ UNCHANGED <<slices, caches>>
  /\ UNCHANGED <<scen, db, heap, cur, fmu, single, defID, held, reloads, calls, met, shaky>>
-----------------------------------------------------------------------------
(* A call begins.                                                           *)
Entry(op) == CASE op.op \in {"website", "group", "store"} -> "lookup"
               [] op.op = "default" -> IF op.mode.type = "default" THEN "websites" ELSE op.mode.type
               [] op.op = "code" -> IF op.arg = 0 THEN "websites" ELSE "byCode"
               [] op.op \in {"isAllowed", "allowed"} -> IF op.mode.type = "default" THEN "websites" ELSE "stores"
               [] OTHER -> op.op
Call(p, op) ==
  /\ Goto(p, Entry(op), [Idle EXCEPT !.op = op, !.id = op.mode.id])
  /\ met' = [met EXCEPT ![p] = Reloading # {}]
  /\ UNCHANGED <<scen, db, dataVars, wlock, held, ans, reloads, installed, shaky>>
Begin(p, op) ==
  /\ pc[p] = "idle" /\ (\A q \in Callers : q < p => pc[q] # "idle")
  /\ calls < scen.calls /\ calls' = calls + 1
  /\ Call(p, op)

Found(t, id) == IF t = Nil THEN NotFound ELSE Ok(<<id>>)
ReadsOnly == UNCHANGED <<scen, db, dataVars, wlock, held, reloads, calls, histVars>>

(* Website, Group, Store.                                                   *)
Lookup(p) ==
  /\ pc[p] = "lookup" /\ CanRLock /\ ReadsOnly
  /\ LET id == loc[p].op.arg
          c == CASE loc[p].op.op = "website" -> caches.w [] loc[p].op.op = "group" -> caches.g [] OTHER -> caches.s
     IN  Finish(p, Found(Cached(c, id), id))

(* DefaultStoreID, for a website, and for a group and then its store.       *)
OfWebsite(p) ==
  /\ pc[p] = "website" /\ CanRLock /\ ReadsOnly
  /\ LET t == Cached(caches.w, loc[p].id) IN Finish(p, DefaultOf(t, FindByID(Websites(t), loc[p].id)))

OfGroup(p) ==
  /\ pc[p] = "group" /\ CanRLock /\ ReadsOnly
  /\ LET g == FindByID(Groups(Cached(caches.g, loc[p].id)), loc[p].id)
     IN  IF g = <<>> THEN Finish(p, NotFound) ELSE Goto(p, "store", [loc[p] EXCEPT !.id = g[1].dstore]) /\ UNCHANGED ans

\* as OfStore, but DefaultStoreID does not ask whether the store is active
OfStoreAny(p) ==
  /\ pc[p] = "store" /\ CanRLock
  /\ LET id == loc[p].id
          t == Cached(caches.s, id)
     IN  Finish(p, IF loc[p].op.op = "view" \/ t = Nil THEN Found(t, id)
                   ELSE Ok(<<id, FindByID(Stores(t), id)[1].website>>))
  /\ held' = [held EXCEPT ![p] = 0]
  /\ UNCHANGED <<scen, db, dataVars, wlock, reloads, calls, histVars>>

(* Store: the last step of DefaultStoreID and of DefaultStoreView, which    *)
(* may hold the read lock already.                                          *)
OfStore(p) ==
  /\ pc[p] = "store" /\ CanRLock
  /\ LET id == loc[p].id
          t == Cached(caches.s, id)
     IN  Finish(p, IF loc[p].op.op = "view" THEN Found(t, id) ELSE ActiveStore(FindByID(Stores(t), id)))
  /\ held' = [held EXCEPT ![p] = 0]
  /\ UNCHANGED <<scen, db, dataVars, wlock, reloads, calls, histVars>>

(* Reads of the slices without a lock: beside a writer the slice may be     *)
(* torn, and the call panics.                                               *)
Torn(p) ==
  /\ pc[p] \in {"websites", "stores"} /\ wlock \in Reloaders /\ NoReaders
  /\ Finish(p, Fail("torn")) /\ ReadsOnly

ReadWebsites(p) ==
  /\ pc[p] = "websites" /\ ReadsOnly
  /\ LET t == slices.w IN
     IF loc[p].op.op \in {"default", "code"} THEN Finish(p, DefaultOf(t, DefaultWebsite(t)))
     ELSE IF ModeFails(t, loc[p].op.mode) THEN Finish(p, NotFound)
     ELSE Goto(p, "stores", [loc[p] EXCEPT !.t = t]) /\ UNCHANGED ans

ReadStores(p) ==
  /\ pc[p] = "stores" /\ ReadsOnly
  /\ LET op == loc[p].op
     IN  Finish(p, IF op.op = "allowed" THEN Allowed(loc[p].t, slices.s, op.mode)
                   ELSE IsAllowed(loc[p].t, slices.s, op.mode, op.arg))

StoreIDbyCode(p) ==
  /\ pc[p] = "byCode" /\ CanRLock /\ ReadsOnly
  /\ Finish(p, ByCode(slices.w, slices.s, loc[p].op.mode, loc[p].op.arg))
-----------------------------------------------------------------------------
(* DefaultStoreView.  When the cached id is not in the cache, the read lock *)
(* is kept until the function returns, and Store takes it a second time.    *)
View(p) ==
  /\ pc[p] = "view" /\ Goto(p, IF defID >= 0 THEN "viewCache" ELSE "backend", loc[p])
  /\ UNCHANGED ans /\ ReadsOnly

ViewCache(p) ==
  /\ pc[p] = "viewCache" /\ CanRLock
  /\ IF Cached(caches.s, defID) # Nil
     THEN Finish(p, Ok(<<defID>>)) /\ UNCHANGED held
     ELSE Goto(p, "backend", loc[p]) /\ held' = [held EXCEPT ![p] = 1] /\ UNCHANGED ans
  /\ UNCHANGED <<scen, db, dataVars, wlock, reloads, calls, histVars>>

Backend(p) ==
  /\ pc[p] = "backend"
  /\ \E a \in {FactoryDefaultStoreID(heap[cur])} \cup (IF cur \in fmu THEN {Fail("torn")} ELSE {}) :
       IF a.err # "none"
       THEN Finish(p, a) /\ held' = [held EXCEPT ![p] = 0] /\ UNCHANGED <<defID, shaky>>
       ELSE /\ defID' = a.val[1] /\ Goto(p, "store", [loc[p] EXCEPT !.id = a.val[1]])
            /\ shaky' = IF met[p] \/ heap[cur] # installed.t THEN shaky \cup {"view"} ELSE shaky \ {"view"}
            /\ UNCHANGED <<ans, held>>
  /\ UNCHANGED <<scen, db, heap, cur, fmu, slices, caches, single, wlock, reloads, calls, installed, met>>

(* HasSingleStore, and IsSingleStoreMode, which calls it.                   *)
YesNo(b) == IF b THEN "yes" ELSE "no"
Flag(x) == Ok(IF x = "yes" THEN <<1>> ELSE <<0>>)
SingleStoreMode(p) ==
  /\ pc[p] = "single" /\ CanRLock /\ ReadsOnly
  /\ LET k == loc[p].op.key IN
     IF single[k] # "none" THEN Finish(p, Flag(single[k]))
     ELSE IF scen.flag[k] = "fails" THEN Finish(p, Fail("Config"))
     ELSE Goto(p, "has", loc[p]) /\ UNCHANGED ans

HasIs(p, x) ==
  IF loc[p].op.op = "has" THEN Finish(p, Flag(x))
  ELSE Goto(p, "toSingle", [loc[p] EXCEPT !.bad = x = "yes" /\ scen.flag[loc[p].op.key] = "on"]) /\ UNCHANGED ans

HasSingleStore(p) ==
  /\ pc[p] = "has" /\ CanRLock
  /\ IF single["default"] = "none" THEN Goto(p, "toHas", loc[p]) /\ UNCHANGED <<ans, met>>
     ELSE HasIs(p, single["default"]) /\ met' = [met EXCEPT ![p] = @ \/ "default" \in shaky]
  /\ UNCHANGED <<scen, db, dataVars, wlock, held, reloads, calls, installed, shaky>>

SetHas(p) ==
  /\ pc[p] = "setHas" /\ NoReaders /\ wlock' = 0
  /\ \E x \in {YesNo(Single(slices.s, scen.enabled))} : single' = [single EXCEPT !["default"] = x] /\ HasIs(p, x)
  /\ shaky' = IF met[p] THEN shaky \cup {"default"} ELSE shaky \ {"default"}
  /\ UNCHANGED <<scen, db, heap, cur, fmu, slices, caches, defID, held, reloads, calls, installed, met>>

SetSingle(p) ==
  /\ pc[p] = "setSingle" /\ NoReaders /\ wlock' = 0
  /\ LET k == loc[p].op.key IN
     /\ single' = [single EXCEPT ![k] = YesNo(loc[p].bad)] /\ Finish(p, Flag(YesNo(loc[p].bad)))
     /\ shaky' = IF met[p] THEN shaky \cup {k} ELSE shaky \ {k}
  /\ UNCHANGED <<scen, db, heap, cur, fmu, slices, caches, defID, held, reloads, calls, installed, met>>
-----------------------------------------------------------------------------
ReloadStep(p) == \/ LockFactory(p) \/ Select(p) \/ Selected(p) \/ ClearCache(p) \/ ReadBackend(p)
                 \/ LoadWebsites(p) \/ LoadGroups(p) \/ LoadStores(p)
CallStep(p) == \/ Lookup(p) \/ OfWebsite(p) \/ OfGroup(p) \/ OfStore(p) \/ Torn(p) \/ ReadWebsites(p) \/ ReadStores(p)
               \/ StoreIDbyCode(p) \/ View(p) \/ ViewCache(p) \/ Backend(p)
               \/ SingleStoreMode(p) \/ HasSingleStore(p) \/ SetHas(p) \/ SetSingle(p)
Step(p) == ReloadStep(p) \/ CallStep(p) \/ Announce(p)
Next == \/ \E p \in Procs : Step(p)
        \/ \E p \in Reloaders : Reload(p)
        \/ \E p \in Callers : \E op \in scen.ops : Begin(p, op)
        \/ Commit

(* As long as a goroutine can run, one of them does.                        *)
Fairness == WF_vars(\E p \in Procs : Step(p))
Spec == Init /\ [][Next]_vars /\ Fairness
-----------------------------------------------------------------------------
(* The value that the call would return, in peace, after the last reload.   *)
Due(op) == Answer(installed.t, scen.enabled, scen.flag[op.key], op)

(* HasSingleStore, and IsSingleStoreMode of the default scope, cache their  *)
(* results under one key, and IsSingleStoreMode of another scope builds on  *)
(* it: a "no" of the configuration for the default scope may stand for the  *)
(* number of the stores, and the other way round.                           *)
HasFlags(t) == {YesNo(Single(t, scen.enabled))} \cup (IF scen.flag["default"] \notin {"on", "fails"} THEN {"no"} ELSE {})
Flags(t, k) == IF k = "default" \/ scen.flag[k] = "on" THEN HasFlags(t) ELSE {"no"}
DueAnswers(op) ==
  {Due(op)} \cup IF op.op = "has" \/ (op.op = "single" /\ (op.key = "default" \/ scen.flag[op.key] = "on"))
                 THEN {Flag(x) : x \in HasFlags(installed.t)} ELSE {}

(* The calls that read what a call beside a reload has cached, or, with     *)
(* DefaultStoreView, rows that a reload has left in the backend when one of *)
(* its selects failed.                                                      *)
Excused(op) == CASE op.op = "view" -> "view" \in shaky' \/ heap[cur] # installed.t
                 [] op.op = "has" -> "default" \in shaky'
                 [] op.op = "single" -> op.key \in shaky'
                 [] OTHER -> FALSE

(* A call that has met no reload answers from the tables of the last one,   *)
(* if that went well and alone: no older row, nothing half loaded.  Two     *)
(* things are left to the code here.  The tables are what the three selects *)
(* have returned, which may be of two versions, since they are not one      *)
(* transaction (factory.go:199) and loading refuses only rows that do not   *)
(* fit together.  Due is the answer of the code: StoreIDbyCode looks the    *)
(* code up in the default run mode too, where its comment promises the id 0 *)
(* and no error (service.go:273).                                           *)
AnswersAreTrue ==
  [][\A p \in Callers : pc[p] # "idle" /\ pc'[p] = "idle" /\ ~met[p] /\ installed.ok =>
       Excused(loc[p].op) \/ ans'[p] \in DueAnswers(loc[p].op)]_vars

(* Whenever no reload runs and the last one went well and alone, the three  *)
(* maps are those of its tables, a cached flag is one that HasSingleStore   *)
(* or IsSingleStoreMode finds in them (Flags), and the default id is that   *)
(* of the tables.  A flag or an id that differs was written by a call that  *)
(* a reload has overtaken or, the id, read after a select has failed.       *)
CachesAreTrue ==
  Reloading = {} /\ installed.ok =>
    LET t == installed.t IN
    /\ caches = [w |-> Cache(IDs(Websites(t)), t, Nothing), g |-> Cache(IDs(Groups(t)), t, Nothing),
                 s |-> Cache(IDs(Stores(t)), t, Nothing)]
    /\ \A k \in Keys : k \notin shaky => single[k] \in {"none"} \cup Flags(t, k)
    /\ "view" \notin shaky => defID = -1 \/ Ok(<<defID>>) = FactoryDefaultStoreID(t)

(* DefaultStoreView holds the read lock and asks for it again, and a writer *)
(* waits in between: the comment in the code calls it a bug.                *)
Cycle == wlock # 0 /\ \E p \in Callers : held[p] > 0 /\ pc[p] = "store"

(* All calls and all reloads return, unless they end in that cycle.         *)
Busy == \E p \in Procs : pc[p] # "idle"
EveryoneReturns == Busy ~> (~Busy \/ Cycle)
=============================================================================
