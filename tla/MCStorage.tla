----------------------------- MODULE MCStorage ------------------------------
(* Storages: StorageDB, ObjCache and StorageMulti.  part says which of the  *)
(* three a behaviour is about; the others keep their initial state.         *)
EXTENDS StorageDB, TLC

CONSTANTS
  p1, p2,  \* the callers of StorageDB
  Keys, ByteLen, Callers, Services,
  Backends, Faulty, Timeouts, MaxSets

VARIABLES
  part,
  srv, lru, items, now, alive, calls, cachePc, call, step, vals, since, uses, may, clean,
  stored, ctx, err, outer, inner, stop, res

C == INSTANCE ObjCache WITH pc <- cachePc
M == INSTANCE StorageMulti

CacheVars == <<srv, lru, items, now, alive, calls, cachePc, call, step, vals, since, uses, may, clean>>
MultiVars == <<stored, ctx, err, outer, inner, stop, res>>
MCVars == <<part, vars, CacheVars, MultiVars>>

TwoBackends == <<"b1", "b2">>

(* ObjCache: the combinations of storages, and calls that meet.             *)
MCByteLen == <<1, 2>>
SetOf(ks, vs, es) == [op |-> "set", keys |-> ks, vals |-> vs, exps |-> es]
Op(o, ks) == [op |-> o, keys |-> ks]
Service(l1, l2, ops, n) ==
  [level1 |-> l1, level2 |-> l2, bySize |-> FALSE, capacity |-> 1, owner |-> FALSE, ops |-> ops, calls |-> n, until |-> 0]

SetA == SetOf(<<"a">>, <<1>>, <<0>>)
SetAB == SetOf(<<"a", "b">>, <<2, 1>>, <<0, 2>>)
GetAB == Op("get", <<"a", "b">>)
Truncate == Op("truncate", <<>>)
MCServices == {
  [Service("lru", "map", {SetA, SetOf(<<"b">>, <<2>>, <<0>>), Op("get", <<"a">>), Op("delete", <<"a">>)}, 3)
     EXCEPT !.bySize = TRUE, !.capacity = 2, !.owner = TRUE],
  Service("lru", "redis", {SetA, SetAB, Op("delete", <<"a", "b">>), Truncate}, 2),
  Service("lru", "map", {SetA, SetAB, GetAB}, 3),
  [Service("map", "file", {SetAB, GetAB}, 2) EXCEPT !.until = 3],
  Service("map", "file", {SetAB, GetAB, Op("delete", <<"a", "b">>)}, 3),
  [Service("none", "map", {SetOf(<<"a">>, <<1>>, <<1>>), GetAB, Truncate}, 3) EXCEPT !.until = 2],
  [Service("none", "redis", {SetOf(<<"a", "b">>, <<2, 1>>, <<1, 2>>), GetAB, Op("close", <<>>)}, 2) EXCEPT !.until = 3],
  Service("hole", "file", {SetAB, GetAB, Truncate}, 2)}
-----------------------------------------------------------------------------
(* Two callers meet in the statement for reading; both statements have the  *)
(* same code, and mutexes and tickers of their own.                         *)
SecondReads == kind[p2] = "read"

MCInit ==
  /\ part \in {"cache", "db", "multi"}
  /\ Init /\ C!Init /\ M!Init
  /\ part # "cache" => srv = CHOOSE s \in Services : TRUE

MCNext ==
  \/ part = "cache" /\ C!Next /\ UNCHANGED <<part, vars, MultiVars>>
  \/ part = "db" /\ Next /\ SecondReads' /\ UNCHANGED <<part, CacheVars, MultiVars>>
  \/ part = "multi" /\ M!Next /\ UNCHANGED <<part, vars, CacheVars>>

(* The fairness of the modules, for the part that runs.                     *)
MCSpec ==
  /\ MCInit /\ [][MCNext]_MCVars
  /\ \A p \in Procs :
       /\ SF_vars(part = "db" /\ Acquire(p))
       /\ WF_vars(part = "db" /\ (Prepare(p) \/ PrepareFails(p)))
       /\ WF_vars(part = "db" /\ (ExecOK(p) \/ ExecFails(p)))
  /\ \A k \in Kinds : WF_vars(part = "db" /\ Tick(k)) /\ SF_vars(part = "db" /\ DaemonTick(k))
  /\ SF_vars(part = "db" /\ DaemonClose)
  /\ \A c \in Closers : SF_vars(part = "db" /\ CloseSend(c))
  /\ WF_MultiVars(part = "multi" /\ M!Run)
-----------------------------------------------------------------------------
(* StorageDB: an idle statement gets closed, as long as the daemon runs,    *)
(* and Close returns.                                                       *)
StatementsGetClosed == (part = "db" => IdleIsClosed) /\ CloseReturns

(* The LRU cache of ObjCache holds what was used last and fits, and its     *)
(* counted size never drifts (Set, Get, Delete, Clear, SetCapacity).        *)
LruIsTrue == C!LruIsTrue

(* ObjCache: once a write of a key has succeeded alone, both levels hold    *)
(* its value, up to what has expired or was evicted (Set, Delete,           *)
(* Truncate); but Redis keeps what it holds when the write is a Truncate,   *)
(* which does nothing there.                                                *)
LevelsAgree == C!LevelsAgree

(* ObjCache: what is read was set by the last Set of the key, or by one     *)
(* that overlaps or has failed since (Get, GetMulti).                       *)
ReadsWhatWasSet == C!ReadsWhatWasSet

(* StorageMulti: Set ends, and so do the goroutines it has started; nil     *)
(* means written everywhere, and Get then returns it.                       *)
WrittenEverywhere == [](M!TypeOK /\ M!ResultIsTrue /\ M!GetReturnsTheLast) /\ M!SetEnds

(* ObjCache, NewService: "level1 should be an LRU or another in-memory      *)
(* cache while level2 should be accessed via network".  A value that was    *)
(* set, and that level 2 holds, is found.                                   *)
StoredIsFound == C!StoredIsFound
=============================================================================
