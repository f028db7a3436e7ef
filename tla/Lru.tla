--------------------------------- MODULE Lru ---------------------------------
(***************************************************************************)
(* storage/lru: a cache with a capacity.  Every method holds the mutex from *)
(* beginning to end, so each is one operator on the whole cache.           *)
(***************************************************************************)
EXTENDS Integers, Sequences, SequencesExt, Functions, TLC

(* The keys from the most to the least recently used, and their entries.    *)
NewLRUCache(capacity) == [list |-> <<>>, table |-> <<>>, size |-> 0, capacity |-> capacity, evictions |-> 0]

moveToFront(c, k) == [c EXCEPT !.list = <<k>> \o Remove(@, k)]
Without(c, k) == [c EXCEPT !.list = Remove(@, k), !.table = Restrict(@, DOMAIN @ \ {k}), !.size = @ - c.table[k].size]

(* The loop takes the last element as long as the size exceeds the capacity. *)
checkCapacity(c) ==
  FoldRight(LAMBDA k, d : IF d.size > d.capacity THEN [Without(d, k) EXCEPT !.evictions = @ + 1] ELSE d, c.list, c)

addNew(c, k, v, n) ==
  checkCapacity([c EXCEPT !.list = <<k>> \o @, !.table = (k :> [value |-> v, size |-> n]) @@ @, !.size = @ + n])

\* as updateInplace, but the size of the old value stays in the total
updateInplaceAdds(c, k, v, n) ==
  checkCapacity(moveToFront([c EXCEPT !.table[k] = [value |-> v, size |-> n], !.size = @ + n], k))

updateInplace(c, k, v, n) ==
  checkCapacity(moveToFront([c EXCEPT !.table[k] = [value |-> v, size |-> n], !.size = @ + (n - c.table[k].size)], k))

Cached(c, k) == k \in DOMAIN c.table
Peek(c, k) == IF Cached(c, k) THEN c.table[k].value ELSE 0
Get(c, k) == IF Cached(c, k) THEN moveToFront(c, k) ELSE c
Set(c, k, v, n) == IF Cached(c, k) THEN updateInplace(c, k, v, n) ELSE addNew(c, k, v, n)
SetIfAbsent(c, k, v, n) == IF Cached(c, k) THEN moveToFront(c, k) ELSE addNew(c, k, v, n)
Delete(c, k) == IF Cached(c, k) THEN Without(c, k) ELSE c
Clear(c) == [c EXCEPT !.list = <<>>, !.table = <<>>, !.size = 0]
SetCapacity(c, capacity) == checkCapacity([c EXCEPT !.capacity = capacity])
-----------------------------------------------------------------------------
(* What the cache promises, without a counter: a sequence of [key, size],   *)
(* the last used in front, and of it as much as fits.                       *)
Total(s) == FoldRight(LAMBDA e, n : e.size + n, s, 0)
Fitting(s, capacity) ==
  LET fits == {i \in 0..Len(s) : Total(SubSeq(s, 1, i)) <= capacity}
  IN  SubSeq(s, 1, CHOOSE i \in fits : \A j \in fits : j <= i)
Unused(s, k) == SelectSeq(s, LAMBDA e : e.key # k)
Touched(s, k) == SelectSeq(s, LAMBDA e : e.key = k) \o Unused(s, k)
Placed(s, k, n, capacity) == Fitting(<<[key |-> k, size |-> n]>> \o Unused(s, k), capacity)

Implements(c, s) ==
  /\ Len(c.list) = Len(s) /\ DOMAIN c.table = ToSet(c.list)
  /\ \A i \in DOMAIN s : c.list[i] = s[i].key /\ c.table[s[i].key].size = s[i].size
  /\ c.size = Total(s) /\ c.size <= c.capacity
=============================================================================
