------------------------------ MODULE ObjCache ------------------------------
(***************************************************************************)
(* storage/objcache: a cache service with two levels of storage, called    *)
(* by several goroutines.  The storages are the LRU cache, the map, the    *)
(* file system, Redis and the black hole of the package.                   *)
(*                                                                         *)
(* uses, may and clean are history: the promise of the LRU cache, what a   *)
(* key may be found to hold in each level by the calls so far, and whether *)
(* a call has met no other one that writes one of its keys.                           *)
(***************************************************************************)
EXTENDS Lru, FiniteSets

CONSTANTS Keys, ByteLen,  \* keys; value -> length of its encoding
          Callers,        \* goroutines, numbered; a call is made by the first that is idle
          Services        \* what NewService is called with, the calls that are made, and bounds on
                          \* their number and on the time, in half seconds

VARIABLES srv,            \* the Service: level1, level2, bySize, capacity, owner, ops, calls, until
          lru, items,     \* the LRU cache; the other storages: level -> key -> item
          now, alive, calls,
          pc, call, step, vals, since,
          uses, may, clean

callVars == <<pc, call, step, vals, since>>
histVars == <<uses, may, clean>>
vars == <<srv, lru, items, now, alive, calls, callVars, histVars>>

Missing == [val |-> 0, exp |-> 0]
Empty == [k \in Keys |-> Missing]
NoCall == [op |-> "none", keys |-> <<>>, at |-> 0]
KeysOf(op) == IF op.op \in {"truncate", "close"} THEN Keys ELSE ToSet(op.keys)
Writes(op) == op.op # "get"
Kind(c) == IF pc[c] = "level1" THEN srv.level1 ELSE srv.level2
Level(c) == IF pc[c] = "level1" THEN 1 ELSE 2
itemSize(v) == IF srv.bySize THEN ByteLen[v] ELSE 1

(* How a storage divides a call: one key after the other, or all at once;   *)
(* Redis sends a SETEX for each key that expires, and an MSET for the rest. *)
(* Truncate of the map deletes in a loop, and then replaces the map.        *)
Each(op) == [j \in DOMAIN op.keys |-> {j}]
Batches(kind, op) ==
  CASE op.op = "truncate" -> IF kind = "map" THEN <<{}, {}>> ELSE <<{}>>
    [] op.op = "close" \/ kind = "hole" -> <<{}>>
    [] op.op \in {"set", "get", "delete"} /\ kind \in {"lru", "map"} -> Each(op)
    [] op.op = "set" /\ kind = "redis" ->
         LET rest == {j \in DOMAIN op.keys : op.exps[j] < 2}
         IN  SelectSeq(Each(op), LAMBDA b : b \cap rest = {}) \o (IF rest = {} THEN <<>> ELSE <<rest>>)
    [] OTHER -> <<DOMAIN op.keys>>

(* When a value is dropped; Redis knows seconds only, LRU nothing.          *)
Deadline(kind, e) == IF e = 0 \/ (kind = "redis" /\ e < 2) THEN 0 ELSE now + e
\* as Live, but the map drops an item before its time and keeps it afterwards
LiveReversed(kind, item, t) == item.exp = 0 \/ (IF kind = "file" THEN item.exp >= t ELSE item.exp < t)
Live(kind, item, t) == item.exp = 0 \/ (IF kind = "file" THEN item.exp >= t ELSE item.exp > t)
-----------------------------------------------------------------------------
Init ==
  /\ srv \in Services
  /\ lru = NewLRUCache(srv.capacity) /\ items = <<Empty, Empty>>
  /\ now = 0 /\ alive = TRUE /\ calls = 0
  /\ pc = [c \in Callers |-> "idle"] /\ call = [c \in Callers |-> NoCall]
  /\ step = [c \in Callers |-> 1] /\ vals = [c \in Callers |-> <<>>] /\ since = [c \in Callers |-> 0]
  /\ uses = <<>> /\ may = [l \in 1..2 |-> [k \in Keys |-> {Missing}]] /\ clean = [c \in Callers |-> TRUE]

Expected(op, k) == IF op.op # "set" THEN Missing
                   ELSE LET j == CHOOSE i \in DOMAIN op.keys : op.keys[i] = k
                        IN  [val |-> op.vals[j], exp |-> IF op.exps[j] = 0 THEN 0 ELSE op.at + op.exps[j]]
(* Which storages a call changes: Truncate of Redis does nothing and        *)
(* returns nil, and only the LRU cache is emptied by Close.                 *)
Reaches(l, op) ==
  LET kind == IF l = 1 THEN srv.level1 ELSE srv.level2 IN
  CASE op.op = "close" -> kind = "lru"
    [] op.op = "truncate" -> kind \in {"lru", "map", "file"}
    [] OTHER -> kind \in {"lru", "map", "file", "redis"}
Rivals(c, op) == {d \in Callers \ {c} : pc[d] # "idle" /\ Writes(call[d]) /\ KeysOf(call[d]) \cap KeysOf(op) # {}}

(* Set, SetMulti, Get, GetMulti, Delete, Truncate and Close begin.  Slices  *)
(* of different lengths and a value that cannot be encoded are refused      *)
(* before anything is stored.                                               *)
Begin(c, op) ==
  /\ pc[c] = "idle" /\ (\A d \in Callers : d < c => pc[d] # "idle")
  /\ calls < srv.calls /\ calls' = calls + 1
  /\ pc' = [pc EXCEPT ![c] = IF srv.level1 = "none" THEN "level2" ELSE "level1"]
  /\ call' = [call EXCEPT ![c] = op] /\ step' = [step EXCEPT ![c] = 1]
  /\ vals' = [vals EXCEPT ![c] = <<>>] /\ since' = [since EXCEPT ![c] = now]
  /\ IF Writes(op)
     THEN /\ may' = [l \in 1..2 |-> [k \in Keys |->
                      may[l][k] \cup IF Reaches(l, op) /\ k \in KeysOf(op) THEN {Expected(op, k)} ELSE {}]]
          /\ clean' = [d \in Callers |-> IF d = c THEN Rivals(c, op) = {} ELSE clean[d] /\ d \notin Rivals(c, op)]
     ELSE UNCHANGED <<may, clean>>
  /\ UNCHANGED <<srv, lru, items, now, alive, uses>>

-----------------------------------------------------------------------------
Return(c) == /\ pc' = [pc EXCEPT ![c] = "idle"] /\ call' = [call EXCEPT ![c] = NoCall]
             /\ step' = [step EXCEPT ![c] = 1] /\ since' = [since EXCEPT ![c] = 0]
Settled(op) == [l \in 1..2 |-> [k \in Keys |->
                  IF Reaches(l, op) /\ k \in KeysOf(op) THEN {Expected(op, k)} ELSE may[l][k]]]
Settles(c) == Writes(call[c]) /\ clean[c]

(* The second level is written after the first, and read if the first has   *)
(* returned no values.                                                      *)
\* as Onward, but a Delete ends with the first level
OnwardOnce(c, values) ==
  IF step[c] < Len(Batches(Kind(c), call[c]))
  THEN step' = [step EXCEPT ![c] = @ + 1] /\ UNCHANGED <<pc, call, since, may>>
  ELSE IF pc[c] = "level1" /\ call[c].op # "delete" /\ (Writes(call[c]) \/ values = <<>>)
       THEN /\ pc' = [pc EXCEPT ![c] = "level2"] /\ step' = [step EXCEPT ![c] = 1]
            /\ since' = [since EXCEPT ![c] = now] /\ UNCHANGED <<call, may>>
       ELSE Return(c) /\ may' = IF Settles(c) THEN Settled(call[c]) ELSE may

Onward(c, values) ==
  IF step[c] < Len(Batches(Kind(c), call[c]))
  THEN step' = [step EXCEPT ![c] = @ + 1] /\ UNCHANGED <<pc, call, since, may>>
  ELSE IF pc[c] = "level1" /\ (Writes(call[c]) \/ values = <<>>)
       THEN /\ pc' = [pc EXCEPT ![c] = "level2"] /\ step' = [step EXCEPT ![c] = 1]
            /\ since' = [since EXCEPT ![c] = now] /\ UNCHANGED <<call, may>>
       ELSE Return(c) /\ may' = IF Settles(c) THEN Settled(call[c]) ELSE may

Now(c) == call[c].keys[CHOOSE j \in Batches(Kind(c), call[c])[step[c]] : TRUE]
Stored(c, js) == [k \in Keys |->
  IF \E j \in js : call[c].keys[j] = k
  THEN LET j == CHOOSE i \in js : call[c].keys[i] = k
       IN  [val |-> call[c].vals[j], exp |-> Deadline(Kind(c), call[c].exps[j])]
  ELSE items[Level(c)][k]]
Removed(c, ks) == [k \in Keys |-> IF k \in ks THEN Missing ELSE items[Level(c)][k]]

(* Storager.Set.                                                            *)
SetStep(c) ==
  /\ pc[c] # "idle" /\ call[c].op = "set"
  /\ IF Kind(c) = "lru"
     THEN LET v == call[c].vals[step[c]] IN
          /\ lru' = Set(lru, Now(c), v, itemSize(v)) /\ uses' = Placed(uses, Now(c), itemSize(v), lru.capacity)
          /\ UNCHANGED items
     ELSE /\ items' = IF Kind(c) = "hole" THEN items
                      ELSE [items EXCEPT ![Level(c)] = Stored(c, Batches(Kind(c), call[c])[step[c]])]
          /\ UNCHANGED <<lru, uses>>
  /\ Onward(c, vals[c])
  /\ UNCHANGED <<srv, now, alive, calls, vals, clean>>

(* Storager.Get: nil for a key that is not there.                           *)
Found(c, k) == CASE Kind(c) = "lru" -> Peek(lru, k)
                 [] Kind(c) = "map" -> IF Live("map", items[Level(c)][k], since[c]) THEN items[Level(c)][k].val ELSE 0
                 [] OTHER -> IF Live(Kind(c), items[Level(c)][k], now) THEN items[Level(c)][k].val ELSE 0
Read(c) == IF Kind(c) = "hole" THEN <<>>
           ELSE LET js == Batches(Kind(c), call[c])[step[c]]
                IN  [j \in 1..Len(vals[c]) + Cardinality(js) |->
                       IF j \in js THEN Found(c, call[c].keys[j]) ELSE vals[c][j]]
GetStep(c) ==
  /\ pc[c] # "idle" /\ call[c].op = "get"
  /\ vals' = [vals EXCEPT ![c] = Read(c)]
  /\ IF Kind(c) = "lru" THEN lru' = Get(lru, Now(c)) /\ uses' = Touched(uses, Now(c)) ELSE UNCHANGED <<lru, uses>>
  /\ items' = IF Kind(c) # "file" THEN items
              ELSE [items EXCEPT ![Level(c)] = Removed(c, {k \in KeysOf(call[c]) : ~Live("file", items[Level(c)][k], now)})]
  /\ Onward(c, Read(c))
  /\ UNCHANGED <<srv, now, alive, calls, clean>>

(* Storager.Delete; a file that is not there is an error.                   *)
DeleteStep(c) ==
  /\ pc[c] # "idle" /\ call[c].op = "delete"
  /\ Kind(c) = "file" => \A k \in KeysOf(call[c]) : items[Level(c)][k] # Missing
  /\ IF Kind(c) = "lru" THEN lru' = Delete(lru, Now(c)) /\ uses' = Unused(uses, Now(c)) /\ UNCHANGED items
     ELSE /\ items' = [items EXCEPT ![Level(c)] = Removed(c, {call[c].keys[j] : j \in Batches(Kind(c), call[c])[step[c]]})]
          /\ UNCHANGED <<lru, uses>>
  /\ Onward(c, vals[c])
  /\ UNCHANGED <<srv, now, alive, calls, vals, clean>>

(* Storager.Truncate, which Redis does not do, and Storager.Close.          *)
InMap(c) == \E d \in Callers \ {c} : pc[d] = pc[c] /\ Writes(call[d])
TruncateStep(c) ==
  /\ pc[c] # "idle" /\ call[c].op \in {"truncate", "close"}
  /\ IF Kind(c) = "lru" THEN lru' = Clear(lru) /\ uses' = <<>> /\ UNCHANGED items
     ELSE /\ \E ks \in SUBSET Keys :
               /\ (step[c] = 2 \/ Kind(c) # "map") => ks = Keys
               /\ items' = IF Kind(c) \in {"redis", "hole"} \/ call[c].op = "close" THEN items
                           ELSE [items EXCEPT ![Level(c)] = Removed(c, ks)]
          /\ UNCHANGED <<lru, uses>>
  /\ alive' \in {TRUE, ~(Kind(c) = "map" /\ step[c] = 2 /\ InMap(c))}
  /\ Onward(c, vals[c])
  /\ UNCHANGED <<srv, now, calls, vals, clean>>

(* A storage that fails: of a file storage the keys before have been done.  *)
StorageFails(c) ==
  /\ pc[c] # "idle" /\ Kind(c) \in {"file", "redis"}
  /\ \E n \in 0..Len(call[c].keys) :
       /\ n > 0 => Kind(c) = "file" /\ call[c].op \in {"set", "delete"} /\ n < Len(call[c].keys)
       /\ items' = [items EXCEPT ![Level(c)] = IF call[c].op = "set" THEN Stored(c, 1..n)
                                               ELSE Removed(c, {call[c].keys[j] : j \in 1..n})]
  /\ Return(c)
  /\ UNCHANGED <<srv, lru, now, alive, calls, vals, histVars>>

(* The owner of the LRU cache that was passed in uses it too.               *)
OwnerSetCapacity(n) ==
  /\ srv.owner /\ lru.capacity # n /\ calls < srv.calls /\ calls' = calls + 1
  /\ lru' = SetCapacity(lru, n) /\ uses' = Fitting(uses, n)
  /\ UNCHANGED <<srv, items, now, alive, callVars, may, clean>>

OwnerSetIfAbsent(k, v) ==
  /\ srv.owner /\ calls < srv.calls /\ calls' = calls + 1
  /\ lru' = SetIfAbsent(lru, k, v, itemSize(v))
  /\ uses' = IF Touched(uses, k) = Unused(uses, k) THEN Placed(uses, k, itemSize(v), lru.capacity) ELSE Touched(uses, k)
  /\ may' = [may EXCEPT ![1][k] = @ \cup {[val |-> v, exp |-> 0]}]
  /\ clean' = [c \in Callers |-> clean[c] /\ ~(Writes(call[c]) /\ k \in KeysOf(call[c]))]
  /\ UNCHANGED <<srv, items, now, alive, callVars>>

Tick == now < srv.until /\ now' = now + 1 /\ UNCHANGED <<srv, lru, items, alive, calls, callVars, histVars>>

Step(c) == SetStep(c) \/ GetStep(c) \/ DeleteStep(c) \/ TruncateStep(c) \/ StorageFails(c)
Next == /\ alive
        /\ \/ \E c \in Callers : Step(c) \/ \E op \in srv.ops : Begin(c, op @@ [at |-> now])
           \/ \E n \in 0..srv.capacity : OwnerSetCapacity(n)
           \/ \E k \in Keys, v \in DOMAIN ByteLen : OwnerSetIfAbsent(k, v)
           \/ Tick

Spec == Init /\ [][Next]_vars
-----------------------------------------------------------------------------
(* The LRU cache holds what was used last and fits, whatever is set,        *)
(* replaced by a larger or a smaller value, deleted or shrunk: the counted  *)
(* size never drifts, and nothing is evicted that would fit.                *)
LruIsTrue == Implements(lru, uses)

InLru(k) == \E i \in DOMAIN uses : uses[i].key = k
KindOf(l) == IF l = 1 THEN srv.level1 ELSE srv.level2
Allowed(l, k, v) == \/ \E m \in may[l][k] : v = m.val \/ (v = 0 /\ m.exp # 0 /\ m.exp <= now)
                    \/ v = 0 /\ KindOf(l) = "lru" /\ ~InLru(k)

(* Get and GetMulti: what is read was set by the last Set of the key, or by *)
(* one that overlaps or has failed since; nil means deleted, expired, never *)
(* set, or no longer in the LRU cache.                                      *)
ReadsWhatWasSet ==
  [][\A c \in Callers : \A j \in Len(vals[c]) + 1..Len(vals'[c]) :
       Allowed(Level(c), call[c].keys[j], vals'[c][j])]_vars

(* Set, Delete and Truncate go through both levels: once a write of a key   *)
(* has succeeded, without another one of the key beside it, each level      *)
(* holds its value, up to what has expired or was evicted.  Redis is the    *)
(* exception, and stays as it was, when the write is a Truncate, which does *)
(* nothing there and returns nil (redis.go:270-273), although Truncate      *)
(* "truncates all caches" (service.go:390).                                 *)
Writing(k) == \E c \in Callers : pc[c] # "idle" /\ Writes(call[c]) /\ k \in KeysOf(call[c])
Holds(l, k) == IF KindOf(l) = "lru" THEN Peek(lru, k) ELSE items[l][k].val
LevelsAgree ==
  \A l \in 1..2, k \in Keys : Cardinality(may[l][k]) = 1 /\ ~Writing(k) => Allowed(l, k, Holds(l, k))

(* NewService: "level1 should be an LRU or another in-memory cache while    *)
(* level2 should be accessed via network".  A value that was set, and that  *)
(* level 2 holds, is found.                                                 *)
StoredIsFound ==
  [][\A c \in Callers : \A j \in Len(vals[c]) + 1..Len(vals'[c]) : \A m \in may[2][call[c].keys[j]] :
       may[1][call[c].keys[j]] = {m} /\ may[2][call[c].keys[j]] = {m} /\ m.exp = 0 => vals'[c][j] = m.val]_vars
=============================================================================
