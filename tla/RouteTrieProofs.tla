-------------------------- MODULE RouteTrieProofs ---------------------------
(***************************************************************************)
(* Theorems about the route trie: it is tidy after every operation, a walk *)
(* down to a route meets everything on its way, and the trie behaves like  *)
(* the map of RouteMap.                                                    *)
(*                                                                         *)
(* Delete is the operation that matters.  It is right because the nodes    *)
(* are closed under prefixes: then what hangs below a pruned node is       *)
(* pruned as well, and a node that stays keeps a child or is valid.        *)
(***************************************************************************)
EXTENDS RouteTrie, WellFoundedInduction, TLAPS

(* Zenon first: most leaves are first-order and fast; SMT has the rest.     *)
USE ZenonT(20), SMTT(60), Z3T(60)

Segments == UNION {{k[i] : i \in DOMAIN k} : k \in Keys}

-----------------------------------------------------------------------------
(* Numbers, and functions defined by recursion.                             *)

(* A set of natural numbers that is not empty has a smallest element.       *)
LEMMA LeastNumber == ASSUME NEW S \in SUBSET Nat, S # {}
                     PROVE  \E n \in S : \A m \in S : n <= m
  <1>1. PICK n \in S : \A y \in S : ~(<<y, n>> \in OpToRel(<, Nat))
    BY NatLessThanWellFounded, WFMin
  <1>2. \A y \in S : ~(y < n)
    BY <1>1 DEF OpToRel
  <1> QED
    BY SMTT(60), Z3T(60), <1>2

(* f starts with a and goes on with the steps of g.                         *)
Unfolds(f, a, g, N, V) == f \in [0..N -> V] /\ f[0] = a /\ \A n \in 1..N : f[n] = g[n][f[n - 1]]
AreSteps(g, N, V) == g \in [1..N -> [V -> V]]

(* There is such a function for every first value and all steps.            *)
LEMMA RecursionExists ==
  ASSUME NEW N \in Nat, NEW V, NEW a \in V, NEW g, AreSteps(g, N, V)
  PROVE  \E f : Unfolds(f, a, g, N, V)
  <1> DEFINE Good(f, M) == Unfolds(f, a, g, M, V)
             Bad == {M \in Nat : M <= N /\ ~\E f : Good(f, M)}
  <1>1. \E f : Good(f, 0)
    <2> DEFINE f == [n \in 0..0 |-> a]
    <2>1. Good(f, 0)
      BY DEF Unfolds
    <2> QED
      BY <2>1
  <1>2. ASSUME NEW M \in 1..N, NEW f, Good(f, M - 1)
        PROVE  \E h : Good(h, M)
    <2> DEFINE h == [n \in 0..M |-> IF n = M THEN g[M][f[M - 1]] ELSE f[n]]
    <2>1. M - 1 \in 0..(M - 1) /\ 0 \in 0..(M - 1)
      OBVIOUS
    <2>2. f[M - 1] \in V /\ g[M] \in [V -> V]
      BY <1>2, <2>1 DEF Unfolds, AreSteps
    <2>3. h \in [0..M -> V] /\ h[0] = a
      BY SMTT(60), Z3T(60), <1>2, <2>1, <2>2 DEF Unfolds
    <2>4. \A n \in 1..M : h[n] = g[n][h[n - 1]]
      BY SMTT(60), Z3T(60), <1>2, <2>1, <2>2 DEF Unfolds
    <2>5. Good(h, M)
      BY <2>3, <2>4 DEF Unfolds
    <2> QED
      BY <2>5
  <1>3. SUFFICES \E f : Good(f, N)
    OBVIOUS
  <1> HIDE DEF Good
  <1>4. SUFFICES ASSUME Bad # {} PROVE FALSE
    OBVIOUS
  <1> Bad \in SUBSET Nat
    OBVIOUS
  <1> HIDE DEF Bad
  <1>5. PICK M \in Bad : \A L \in Bad : M <= L
    BY <1>4, LeastNumber
  <1>6. M \in 1..N /\ \E f : Good(f, M - 1)
    BY <1>1, <1>5 DEF Bad
  <1> QED
    BY <1>2, <1>5, <1>6 DEF Bad

-----------------------------------------------------------------------------
(* Prefixes                                                                 *)

(* A key is a sequence of segments that is not empty.                       *)
LEMMA KeysAreSequences == \A k \in Keys : k \in Seq(Segments) /\ Len(k) \in Nat \ {0}
  <1> SUFFICES ASSUME NEW k \in Keys
               PROVE  k \in Seq(Segments) /\ Len(k) \in Nat \ {0}
    OBVIOUS
  <1>1. k \in Seq({k[i] : i \in DOMAIN k}) /\ k # <<>>
    BY TrieAssumption
  <1>2. \A i \in DOMAIN k : k[i] \in Segments
    BY SMTT(60), Z3T(60) DEF Segments
  <1> QED
    BY <1>1, <1>2

(* The prefixes of a sequence.                                              *)
LEMMA PrefixFacts ==
  ASSUME NEW S, NEW k \in Seq(S), NEW n \in 1..Len(k)
  PROVE  /\ Prefix(k, n) \in Seq(S) /\ Len(Prefix(k, n)) = n
         /\ \A i \in 1..n : Prefix(k, n)[i] = k[i]
         /\ \A j \in 1..n : Prefix(Prefix(k, n), j) = Prefix(k, j)
  BY DEF Prefix

(* A sequence is the longest of its prefixes.                               *)
LEMMA PrefixFull == ASSUME NEW S, NEW k \in Seq(S) PROVE Prefix(k, Len(k)) = k
  BY DEF Prefix

(* A node is a sequence of segments, and so is every node above it.         *)
LEMMA NodesAreSequences ==
  \A n \in Nodes : n \in Seq(Segments) /\ Len(n) \in Nat \ {0} /\ Prefixes(n) \subseteq Nodes
  <1> SUFFICES ASSUME NEW n \in Nodes
               PROVE  n \in Seq(Segments) /\ Len(n) \in Nat \ {0} /\ Prefixes(n) \subseteq Nodes
    OBVIOUS
  <1>1. PICK k \in Keys : \E l \in 1..Len(k) : n = Prefix(k, l)
    BY DEF Nodes, Prefixes
  <1>2. k \in Seq(Segments) /\ Len(k) \in Nat
    BY KeysAreSequences
  <1> PICK l \in 1..Len(k) : n = Prefix(k, l)
    BY <1>1
  <1>3. n \in Seq(Segments) /\ Len(n) = l /\ \A j \in 1..l : Prefix(n, j) = Prefix(k, j)
    BY <1>1, <1>2, PrefixFacts
  <1>4. \A j \in 1..l : Prefix(k, j) \in Nodes
    BY SMTT(60), Z3T(60), <1>2 DEF Nodes, Prefixes
  <1> QED
    BY SMTT(60), Z3T(60), <1>2, <1>3, <1>4 DEF Prefixes

(* Keys are nodes.                                                          *)
LEMMA KeysAreNodes == \A k \in Keys : k \in Nodes /\ k \in Prefixes(k)
  <1> SUFFICES ASSUME NEW k \in Keys PROVE k \in Nodes /\ k \in Prefixes(k)
    OBVIOUS
  <1>1. k \in Seq(Segments) /\ Len(k) \in 1..Len(k)
    BY KeysAreSequences
  <1>2. k \in Prefixes(k)
    BY <1>1, PrefixFull DEF Prefixes
  <1> QED
    BY <1>2 DEF Nodes

(* A section is a sequence of keys with their metas.                        *)
LEMMA SectionFacts ==
  ASSUME NEW secs \in Sections
  PROVE  /\ Len(secs) \in Nat /\ DOMAIN secs = 1..Len(secs)
         /\ \A i \in DOMAIN secs : secs[i][1] \in Keys /\ secs[i][2] \in Metas
  BY SMTT(60), Z3T(60), TrieAssumption

(* What the FieldMeta that WithApplySections shares has collected.          *)
LEMMA CollectedFacts ==
  ASSUME TypeOK, NEW secs \in Sections
  PROVE  /\ Collected(secs) \in [0..Len(secs) -> [Events -> Seq(Observers)]]
         /\ Collected(secs)[0] = NoEvents
         /\ \A n \in 1..Len(secs) :
              Collected(secs)[n] = [e \in Events |-> events[secs[n][1]][e] \o Collected(secs)[n - 1][e]]
  <1> DEFINE V == [Events -> Seq(Observers)]
             N == Len(secs)
             Put(n, v) == [e \in Events |-> events[secs[n][1]][e] \o v[e]]
             c == Collected(secs)
  <1>1. N \in Nat /\ NoEvents \in V
    BY SectionFacts DEF NoEvents
  <1>2. \A n \in 1..N : events[secs[n][1]] \in V
    BY SectionFacts, KeysAreNodes DEF TypeOK
  <1>3. \A n \in 1..N, v \in V : Put(n, v) \in V
    BY SMTT(60), Z3T(60), <1>2
  <1>4. ASSUME NEW f \in [0..N -> V], f[0] = NoEvents, \A n \in 1..N : f[n] = Put(n, f[n - 1])
        PROVE  c = [n \in 0..N |-> IF n = 0 THEN NoEvents ELSE Put(n, c[n - 1])]
    <2>1. f = [n \in 0..N |-> IF n = 0 THEN NoEvents ELSE Put(n, f[n - 1])]
      <3> HIDE DEF Put
      <3> QED
        BY <1>1, <1>4
    <2> QED
      BY <2>1 DEF Collected
  <1> HIDE DEF V, N, Put, c
  <1>5. PICK f \in [0..N -> V] : f[0] = NoEvents /\ \A n \in 1..N : f[n] = Put(n, f[n - 1])
    <2> DEFINE g == [n \in 1..N |-> [v \in V |-> Put(n, v)]]
    <2>1. AreSteps(g, N, V)
      BY <1>3 DEF AreSteps
    <2>2. \A n \in 1..N, v \in V : g[n][v] = Put(n, v)
      OBVIOUS
    <2> HIDE DEF g
    <2>3. PICK f : Unfolds(f, NoEvents, g, N, V)
      BY <1>1, <2>1, RecursionExists
    <2>4. \A n \in 1..N : f[n - 1] \in V
      BY SMTT(60), Z3T(60), <1>1, <2>3 DEF Unfolds
    <2>5. f \in [0..N -> V] /\ f[0] = NoEvents /\ \A n \in 1..N : f[n] = g[n][f[n - 1]]
      BY <2>3 DEF Unfolds
    <2>6. \A n \in 1..N : f[n] = Put(n, f[n - 1])
      BY <2>2, <2>4, <2>5
    <2> QED
      BY <2>5, <2>6
  <1>6. c = [n \in 0..N |-> IF n = 0 THEN NoEvents ELSE Put(n, c[n - 1])]
    BY <1>4, <1>5
  <1>7. c[0] = NoEvents /\ \A n \in 1..N : c[n] = Put(n, c[n - 1])
    BY <1>1, <1>6
  <1>8. \A n \in 0..N : c[n] = f[n]
    <2> DEFINE Bad == {n \in Nat : n <= N /\ c[n] # f[n]}
    <2>1. SUFFICES ASSUME Bad # {} PROVE FALSE
      BY SMTT(60), Z3T(60), <1>1
    <2>2. Bad \in SUBSET Nat
      OBVIOUS
    <2> HIDE DEF Bad
    <2>3. PICK n \in Bad : \A m \in Bad : n <= m
      BY <2>1, <2>2, LeastNumber
    <2>4. n \in 1..N /\ c[n - 1] = f[n - 1]
      BY SMTT(60), Z3T(60), <1>1, <1>5, <1>7, <2>3 DEF Bad
    <2> QED
      BY <1>5, <1>7, <2>3, <2>4 DEF Bad
  <1>9. c \in [0..N -> V]
    BY <1>1, <1>6, <1>8
  <1> QED
    BY <1>7, <1>9 DEF V, N, Put, c

-----------------------------------------------------------------------------
(* The inductive invariant                                                  *)

(* With a node its ancestors are there.                                     *)
Closed == \A n \in nodes : Prefixes(n) \subseteq nodes

Tidy == \A n \in nodes : IsLeaf(n) => n \in valid

Blank == \A n \in Nodes \ valid : meta[n] = NoMeta /\ events[n] = NoEvents

IInv == TypeOK /\ Closed /\ Tidy /\ Blank

(* The shape of the trie after keys were put into it.                       *)
LEMMA PutShape ==
  ASSUME IInv, NEW K \in SUBSET Keys,
         nodes' = nodes \cup UNION {Prefixes(k) : k \in K}, valid' = valid \cup K
  PROVE  nodes' \subseteq Nodes /\ valid' \subseteq nodes' /\ Closed' /\ Tidy'
  <1>1. nodes' \subseteq Nodes
    BY DEF IInv, TypeOK, Nodes
  <1>2. valid' \subseteq nodes'
    BY KeysAreNodes DEF IInv, TypeOK
  <1>3. Closed'
    <2> SUFFICES ASSUME NEW k \in K, NEW n \in Prefixes(k) PROVE Prefixes(n) \subseteq Prefixes(k)
      BY SMTT(60), Z3T(60) DEF IInv, Closed
    <2>1. k \in Seq(Segments) /\ Len(k) \in Nat
      BY KeysAreSequences
    <2>2. PICK l \in 1..Len(k) : n = Prefix(k, l)
      BY DEF Prefixes
    <2>3. Len(n) = l /\ \A j \in 1..l : Prefix(n, j) = Prefix(k, j)
      BY <2>1, <2>2, PrefixFacts
    <2> QED
      BY SMTT(60), Z3T(60), <2>1, <2>3 DEF Prefixes
  <1>4. Tidy'
    <2> SUFFICES ASSUME NEW n \in nodes', n \notin valid' PROVE \E c \in nodes' : Len(c) = Len(n) + 1 /\ Prefix(c, Len(n)) = n
      BY DEF Tidy, IsLeaf, Children
    <2>1. CASE n \in nodes
      BY <2>1 DEF IInv, Tidy, IsLeaf, Children
    <2>2. ASSUME NEW k \in K, n \in Prefixes(k)
          PROVE  \E c \in nodes' : Len(c) = Len(n) + 1 /\ Prefix(c, Len(n)) = n
      <3>1. k \in Seq(Segments) /\ Len(k) \in Nat
        BY KeysAreSequences
      <3>2. PICK l \in 1..Len(k) : n = Prefix(k, l)
        BY <2>2 DEF Prefixes
      <3>3. l # Len(k)
        BY SMTT(60), Z3T(60), <3>1, <3>2, PrefixFull
      <3>4. l + 1 \in 1..Len(k) /\ Prefix(k, l + 1) \in Prefixes(k)
        BY SMTT(60), Z3T(60), <3>1, <3>3 DEF Prefixes
      <3>5. Len(n) = l /\ Len(Prefix(k, l + 1)) = l + 1 /\ Prefix(Prefix(k, l + 1), l) = n
        BY SMTT(60), Z3T(60), <3>1, <3>2, <3>4, PrefixFacts
      <3> QED
        BY <3>4, <3>5
    <2> QED
      BY <2>1, <2>2
  <1> QED
    BY <1>1, <1>2, <1>3, <1>4

(* What Delete takes out.                                                   *)
LEMMA PrunedFacts ==
  ASSUME IInv, NEW k \in Keys, k \in nodes
  PROVE  /\ ~IsLeaf(k) => Pruned(k) = {}
         /\ IsLeaf(k) => k \in Pruned(k)
         /\ \A p \in Pruned(k) :
              /\ p \in Prefixes(k)
              /\ p # k => /\ p \notin valid /\ Children(p) = {Prefix(k, Len(p) + 1)}
                          /\ Prefix(k, Len(p) + 1) \in Pruned(k)
         /\ \A l \in 1..(Len(k) - 1) :
              Prefix(k, l + 1) \in Pruned(k) /\ Prefix(k, l) \notin valid
                /\ Children(Prefix(k, l)) = {Prefix(k, l + 1)} => Prefix(k, l) \in Pruned(k)
  <1> DEFINE N == Len(k)
             Lone(j) == Prefix(k, j) \notin valid /\ Children(Prefix(k, j)) = {Prefix(k, j + 1)}
             Levels == {l \in 1..N : \A j \in l..(N - 1) : Lone(j)}
  <1>1. k \in Seq(Segments) /\ N \in Nat \ {0} /\ Prefix(k, N) = k
    BY KeysAreSequences, PrefixFull
  <1>2. Pruned(k) = IF ~IsLeaf(k) THEN {} ELSE {Prefix(k, l) : l \in Levels}
    BY DEF Pruned
  <1>3. \A l \in 1..N : Len(Prefix(k, l)) = l
    BY <1>1, PrefixFacts
  <1> HIDE DEF N, Lone
  <1>4. N \in Levels
    BY SMTT(60), Z3T(60), <1>1
  <1>5. \A l \in Levels : l # N => Lone(l) /\ l + 1 \in Levels
    BY SMTT(60), Z3T(60), <1>1
  <1>6. \A l \in 1..(N - 1) : Lone(l) /\ l + 1 \in Levels => l \in Levels
    <2> SUFFICES ASSUME NEW l \in 1..(N - 1), Lone(l), l + 1 \in Levels, NEW j \in l..(N - 1) PROVE Lone(j)
      BY SMTT(60), Z3T(60), <1>1
    <2> QED
      BY SMTT(60), Z3T(60), <1>1
  <1>7. \A l \in 1..N : Prefix(k, l) \in {Prefix(k, m) : m \in Levels} => l \in Levels
    BY <1>3
  <1>8. Levels \subseteq 1..N
    OBVIOUS
  <1> HIDE DEF Levels
  <1>9. \A p \in Pruned(k) : /\ p \in Prefixes(k)
                             /\ p # k => /\ p \notin valid /\ Children(p) = {Prefix(k, Len(p) + 1)}
                                         /\ Prefix(k, Len(p) + 1) \in Pruned(k)
    <2> SUFFICES ASSUME NEW p \in Pruned(k)
                 PROVE  /\ p \in Prefixes(k)
                        /\ p # k => /\ p \notin valid /\ Children(p) = {Prefix(k, Len(p) + 1)}
                                    /\ Prefix(k, Len(p) + 1) \in Pruned(k)
      OBVIOUS
    <2>1. PICK l \in Levels : p = Prefix(k, l) /\ IsLeaf(k)
      BY <1>2
    <2>2. Len(p) = l /\ p \in Prefixes(k)
      BY <1>3, <1>8, <2>1 DEF Prefixes, N
    <2>3. ASSUME p # k PROVE Lone(l) /\ l + 1 \in Levels
      BY <1>1, <1>5, <2>1, <2>3
    <2> QED
      BY <1>2, <2>1, <2>2, <2>3 DEF Lone
  <1>10. \A l \in 1..(N - 1) : Prefix(k, l + 1) \in Pruned(k) /\ Lone(l) => Prefix(k, l) \in Pruned(k)
    <2> SUFFICES ASSUME NEW l \in 1..(N - 1), Prefix(k, l + 1) \in Pruned(k), Lone(l) PROVE Prefix(k, l) \in Pruned(k)
      OBVIOUS
    <2>1. IsLeaf(k) /\ l + 1 \in Levels
      BY SMTT(60), Z3T(60), <1>1, <1>2, <1>7
    <2> QED
      BY <1>2, <1>6, <2>1
  <1> QED
    BY <1>1, <1>2, <1>4, <1>9, <1>10 DEF Lone, N

(* The shape of the trie after Delete.                                      *)
LEMMA DeleteShape ==
  ASSUME IInv, NEW k \in Keys, k \in nodes,
         nodes' = nodes \ Pruned(k), valid' = valid \ {k}
  PROVE  valid' \subseteq nodes' /\ Closed' /\ Tidy'
  <1> USE DEF IInv
  <1>1. k \in Seq(Segments) /\ Len(k) \in Nat \ {0}
    BY KeysAreSequences
  <1>2. valid' \subseteq nodes'
    BY PrunedFacts DEF TypeOK
  <1>3. Closed'
    <2> SUFFICES ASSUME NEW n \in nodes, n \notin Pruned(k), NEW i \in 1..Len(n), Prefix(n, i) \in Pruned(k)
                 PROVE  FALSE
      BY DEF Closed, Prefixes
    <2>1. n \in Seq(Segments) /\ Len(n) \in Nat /\ Prefix(n, Len(n)) = n
      BY NodesAreSequences, PrefixFull DEF TypeOK
    <2> DEFINE Up == {l \in Nat : l < Len(n) /\ Prefix(n, Len(n) - l) \in Pruned(k)}
    <2>2. Up \in SUBSET Nat /\ Len(n) - i \in Up
      BY <2>1
    <2> HIDE DEF Up
    <2>3. PICK l \in Up : \A m \in Up : l <= m
      BY <2>2, LeastNumber
    <2> DEFINE j == Len(n) - l
    <2>4. l # 0 /\ j \in 1..(Len(n) - 1) /\ Prefix(n, j) \in Pruned(k)
      BY <2>1, <2>3 DEF Up
    <2>5. Prefix(n, j + 1) \notin Pruned(k)
      <3>1. l - 1 \in Nat /\ l - 1 < l
        BY <2>1, <2>2, <2>3, <2>4
      <3>2. l - 1 \notin Up /\ l - 1 < Len(n) /\ Len(n) - (l - 1) = j + 1
        BY <2>1, <2>2, <2>3, <2>4, <3>1
      <3> QED
        BY <3>1, <3>2 DEF Up
    <2> HIDE DEF j
    <2>6. Prefix(n, j + 1) \in nodes /\ Prefix(n, j) \in nodes
      BY SMTT(60), Z3T(60), <2>1, <2>4 DEF Closed, Prefixes
    <2>7. /\ Len(Prefix(n, j)) = j /\ Len(Prefix(n, j + 1)) = j + 1
          /\ Prefix(Prefix(n, j + 1), j) = Prefix(n, j)
      <3>1. j \in 1..Len(n) /\ j + 1 \in 1..Len(n) /\ j \in 1..(j + 1)
        BY <2>1, <2>4
      <3> QED
        BY SMTT(60), Z3T(60), <2>1, <3>1, PrefixFacts
    <2>8. Prefix(n, j + 1) \in Children(Prefix(n, j))
      BY <2>6, <2>7 DEF Children
    <2> QED
      BY SMTT(60), Z3T(60), <2>4, <2>5, <2>7, <2>8, PrunedFacts DEF IsLeaf
  <1>4. Tidy'
    <2> SUFFICES ASSUME NEW n \in nodes, n \notin Pruned(k), Children(n) \subseteq Pruned(k)
                 PROVE  n \in valid /\ n # k
      BY DEF Tidy, IsLeaf, Children
    <2>1. CASE Children(n) = {}
      BY <2>1, PrunedFacts DEF Tidy, IsLeaf
    <2>2. CASE Children(n) # {}
      <3>1. PICK c \in Children(n) : c \in Pruned(k)
        BY <2>2
      <3>2. Len(c) = Len(n) + 1 /\ Prefix(c, Len(n)) = n /\ Len(n) \in Nat \ {0}
        BY <3>1, NodesAreSequences DEF Children, TypeOK
      <3>3. PICK l \in 1..Len(k) : c = Prefix(k, l)
        BY <3>1, PrunedFacts DEF Prefixes
      <3>4. Len(c) = l /\ l - 1 \in 1..(Len(k) - 1) /\ Len(n) = l - 1 /\ n = Prefix(k, l - 1)
        <4>1. Len(c) = l /\ \A j \in 1..l : Prefix(c, j) = Prefix(k, j)
          BY <1>1, <3>3, PrefixFacts
        <4> QED
          BY <1>1, <3>2, <3>3, <4>1
      <3>5. \A d \in Children(n) : d = c
        <4> SUFFICES ASSUME NEW d \in Children(n) PROVE d = c
          OBVIOUS
        <4>1. Len(d) = l
          BY <3>2, <3>4 DEF Children
        <4>2. PICK m \in 1..Len(k) : d = Prefix(k, m)
          BY SMTT(60), Z3T(60), PrunedFacts DEF Prefixes
        <4>3. Len(d) = m
          BY <1>1, <4>2, PrefixFacts
        <4> QED
          BY <3>3, <4>1, <4>2, <4>3
      <3>6. Children(n) = {Prefix(k, (l - 1) + 1)}
        BY <3>1, <3>3, <3>4, <3>5
      <3>7. n \in valid
        BY <3>1, <3>3, <3>4, <3>6, PrunedFacts
      <3> QED
        BY <1>1, <3>4, <3>7
    <2> QED
      BY <2>1, <2>2
  <1> QED
    BY <1>2, <1>3, <1>4

-----------------------------------------------------------------------------
(* The operations                                                           *)

(* PutEvent, and with it RegisterObserver.                                  *)
LEMMA PutEventIInv ==
  ASSUME IInv, NEW k \in Keys, NEW e \in Events, NEW o \in Observers, PutEvent(e, k, o)
  PROVE  IInv'
  <1>1. k \in Nodes /\ nodes' = nodes \cup UNION {Prefixes(q) : q \in {k}} /\ valid' = valid \cup {k}
    BY KeysAreNodes DEF PutEvent
  <1>2. nodes' \subseteq Nodes /\ valid' \subseteq nodes' /\ Closed' /\ Tidy'
    BY <1>1, PutShape
  <1>3. events[k] \in [Events -> Seq(Observers)] /\ events[k][e] \in Seq(Observers)
    BY <1>1 DEF IInv, TypeOK
  <1>4. events' = [events EXCEPT ![k] = [events[k] EXCEPT ![e] = Append(events[k][e], o)]] /\ UNCHANGED <<meta, applied>>
    BY DEF PutEvent
  <1>5. events' \in [Nodes -> [Events -> Seq(Observers)]]
    BY SMTT(60), Z3T(60), <1>1, <1>3, <1>4 DEF IInv, TypeOK
  <1>6. Blank'
    BY <1>1, <1>4 DEF IInv, TypeOK, Blank
  <1> QED
    BY <1>2, <1>4, <1>5, <1>6 DEF IInv, TypeOK

(* PutMeta.                                                                 *)
LEMMA PutMetaIInv ==
  ASSUME IInv, NEW k \in Keys, NEW m \in Metas, NEW evs \in [Events -> Seq(Observers)], PutMeta(k, m, evs)
  PROVE  IInv'
  <1>1. k \in Nodes /\ nodes' = nodes \cup UNION {Prefixes(q) : q \in {k}} /\ valid' = valid \cup {k}
    BY KeysAreNodes DEF PutMeta
  <1>2. nodes' \subseteq Nodes /\ valid' \subseteq nodes' /\ Closed' /\ Tidy'
    BY <1>1, PutShape
  <1>3. [e \in Events |-> events[k][e] \o evs[e]] \in [Events -> Seq(Observers)]
    <2>1. events[k] \in [Events -> Seq(Observers)]
      BY <1>1 DEF IInv, TypeOK
    <2> QED
      BY SMTT(60), Z3T(60), <2>1
  <1>4. /\ events' = [events EXCEPT ![k] = [e \in Events |-> events[k][e] \o evs[e]]]
        /\ meta' = [meta EXCEPT ![k] = m] /\ UNCHANGED applied
    BY DEF PutMeta
  <1>5. events' \in [Nodes -> [Events -> Seq(Observers)]]
    BY <1>1, <1>3, <1>4 DEF IInv, TypeOK
  <1>6. meta' \in [Nodes -> Metas \cup {NoMeta}]
    BY <1>1, <1>4 DEF IInv, TypeOK
  <1>7. Blank'
    BY <1>1, <1>4 DEF IInv, TypeOK, Blank
  <1> QED
    BY <1>2, <1>4, <1>5, <1>6, <1>7 DEF IInv, TypeOK

(* WithApplySections.                                                       *)
LEMMA SectionsIInv ==
  ASSUME IInv, NEW secs \in Sections, WithApplySections(secs)
  PROVE  IInv'
  <1> DEFINE K == {secs[i][1] : i \in DOMAIN secs}
             At(n) == CHOOSE i \in DOMAIN secs : secs[i][1] = n
  <1>1. K \in SUBSET Keys /\ K \subseteq Nodes
    BY SectionFacts, KeysAreNodes
  <1>2. nodes' = nodes \cup UNION {Prefixes(q) : q \in K} /\ valid' = valid \cup K
    <2>1. UNION {Prefixes(secs[i][1]) : i \in DOMAIN secs} = UNION {Prefixes(q) : q \in K}
      OBVIOUS
    <2> QED
      BY <2>1 DEF WithApplySections
  <1>3. nodes' \subseteq Nodes /\ valid' \subseteq nodes' /\ Closed' /\ Tidy'
    BY <1>1, <1>2, PutShape
  <1>4. /\ meta' = [n \in Nodes |-> IF n \in K THEN secs[At(n)][2] ELSE meta[n]]
        /\ events' = [n \in Nodes |-> IF n \in K THEN Collected(secs)[At(n)] ELSE events[n]]
        /\ applied' = applied \cup {secs}
    BY DEF WithApplySections
  <1>5. \A n \in K : At(n) \in DOMAIN secs
    OBVIOUS
  <1> HIDE DEF At, K
  <1>6. \A n \in K : At(n) \in 0..Len(secs) /\ secs[At(n)][2] \in Metas
    BY <1>5, SectionFacts
  <1>7. meta' \in [Nodes -> Metas \cup {NoMeta}]
    BY <1>4, <1>6 DEF IInv, TypeOK
  <1>8. events' \in [Nodes -> [Events -> Seq(Observers)]]
    <2>1. \A n \in K : Collected(secs)[At(n)] \in [Events -> Seq(Observers)]
      BY <1>6, CollectedFacts DEF IInv
    <2> QED
      BY <1>4, <2>1 DEF IInv, TypeOK
  <1>9. Blank'
    BY <1>2, <1>4 DEF IInv, Blank
  <1> QED
    BY <1>3, <1>4, <1>7, <1>8, <1>9 DEF IInv, TypeOK

(* DeleteEvent.                                                             *)
LEMMA DeleteEventIInv ==
  ASSUME IInv, NEW k \in Keys, NEW e \in Events, DeleteEvent(e, k)
  PROVE  IInv'
  <1>1. k \in Nodes /\ events[k] \in [Events -> Seq(Observers)]
    BY KeysAreNodes DEF IInv, TypeOK
  <1>2. events' = [events EXCEPT ![k] = [events[k] EXCEPT ![e] = <<>>]] /\ UNCHANGED <<nodes, valid, meta, applied>>
    BY DEF DeleteEvent
  <1>3. events' \in [Nodes -> [Events -> Seq(Observers)]]
    BY SMTT(60), Z3T(60), <1>1, <1>2 DEF IInv, TypeOK
  <1>4. Blank'
    BY <1>1, <1>2 DEF IInv, TypeOK, Blank, NoEvents
  <1> QED
    BY <1>2, <1>3, <1>4 DEF IInv, TypeOK, Closed, Tidy, IsLeaf, Children

(* Delete.                                                                  *)
LEMMA DeleteIInv ==
  ASSUME IInv, NEW k \in Keys, Delete(k)
  PROVE  IInv'
  <1>1. k \in Nodes /\ NoEvents \in [Events -> Seq(Observers)]
    BY KeysAreNodes DEF NoEvents
  <1>2. /\ k \in nodes /\ nodes' = nodes \ Pruned(k) /\ valid' = valid \ {k} /\ UNCHANGED applied
        /\ meta' = [meta EXCEPT ![k] = NoMeta] /\ events' = [events EXCEPT ![k] = NoEvents]
    BY DEF Delete
  <1>3. valid' \subseteq nodes' /\ Closed' /\ Tidy'
    BY <1>2, DeleteShape
  <1>4. events' \in [Nodes -> [Events -> Seq(Observers)]] /\ meta' \in [Nodes -> Metas \cup {NoMeta}]
    BY <1>1, <1>2 DEF IInv, TypeOK
  <1>5. Blank'
    BY <1>1, <1>2 DEF IInv, TypeOK, Blank
  <1> QED
    BY <1>2, <1>3, <1>4, <1>5 DEF IInv, TypeOK

(* The observers that a meta brings along.                                  *)
LEMMA ObserversType ==
  NoEvents \in [Events -> Seq(Observers)]
    /\ \A e \in Events, o \in Observers : [NoEvents EXCEPT ![e] = <<o>>] \in [Events -> Seq(Observers)]
  <1>1. <<>> \in Seq(Observers) /\ \A o \in Observers : <<o>> \in Seq(Observers)
    OBVIOUS
  <1>2. NoEvents \in [Events -> Seq(Observers)]
    BY <1>1 DEF NoEvents
  <1> QED
    BY <1>1, <1>2

(* Every operation preserves the invariant.                                 *)
LEMMA NextIInv == IInv /\ [Next]_vars => IInv'
  <1> SUFFICES ASSUME IInv, [Next]_vars PROVE IInv'
    OBVIOUS
  <1>1. CASE UNCHANGED vars
    BY <1>1 DEF vars, IInv, TypeOK, Closed, Tidy, Blank, IsLeaf, Children
  <1> QED
    BY <1>1, PutEventIInv, PutMetaIInv, SectionsIInv, DeleteEventIInv, DeleteIInv, ObserversType DEF Next

(* The inductive invariant holds.                                           *)
THEOREM Invariance == Spec => []IInv
  <1>1. Init => IInv
    BY ObserversType DEF Init, IInv, TypeOK, Closed, Tidy, Blank
  <1> QED
    BY <1>1, NextIInv, PTL DEF Spec

(* The trie stays tidy: leaves are valid, what is not valid is blank.       *)
THEOREM TrieIsTidy == Spec => []Consistent
  <1>1. IInv => Consistent
    BY DEF IInv, Tidy, Blank, Consistent
  <1> QED
    BY <1>1, Invariance, PTL

(* No walk down to a route misses a meta or an observer.                    *)
THEOREM WalksMeetAll == Spec => []ProcessMeetsAll
  <1>1. IInv => ProcessMeetsAll
    <2> SUFFICES ASSUME IInv, NEW k \in Nodes, NEW n \in Prefixes(k), n \in valid
                 PROVE  n \in Visited(k)
      BY DEF ProcessMeetsAll
    <2>1. k \in Seq(Segments) /\ Len(k) \in Nat
      BY NodesAreSequences
    <2>2. PICK l \in 1..Len(k) : n = Prefix(k, l)
      BY DEF Prefixes
    <2>3. Len(n) = l /\ \A j \in 1..l : Prefix(n, j) = Prefix(k, j)
      BY <2>1, <2>2, PrefixFacts
    <2>4. \A j \in 1..l : Prefix(k, j) \in nodes
      BY <2>3 DEF IInv, TypeOK, Closed, Prefixes
    <2> QED
      BY <2>2, <2>4 DEF Visited
  <1> QED
    BY <1>1, Invariance, PTL

-----------------------------------------------------------------------------
(* The trie is a map                                                        *)

absMeta == [k \in Keys |-> meta[k]]
absEvents == [k \in Keys |-> events[k]]
absVars == <<valid, absMeta, absEvents>>

(* What the list of a WithApplySections does to one node.                   *)
LEMMA SectionsEffect ==
  ASSUME TypeOK, NEW secs \in Sections, WithApplySections(secs)
  PROVE  /\ valid' = valid \cup Map!Listed(secs)
         /\ \A n \in Nodes \ Map!Listed(secs) : meta'[n] = meta[n] /\ events'[n] = events[n]
         /\ \A i \in DOMAIN secs : meta'[secs[i][1]] = secs[i][2] /\ events'[secs[i][1]] = Collected(secs)[i]
  <1> DEFINE K == Map!Listed(secs)
             At(n) == CHOOSE i \in DOMAIN secs : secs[i][1] = n
  <1>1. /\ valid' = valid \cup K
        /\ meta' = [n \in Nodes |-> IF n \in K THEN secs[At(n)][2] ELSE meta[n]]
        /\ events' = [n \in Nodes |-> IF n \in K THEN Collected(secs)[At(n)] ELSE events[n]]
    BY DEF WithApplySections, Map!Listed
  <1>2. ASSUME NEW i \in DOMAIN secs PROVE secs[i][1] \in K /\ secs[i][1] \in Nodes /\ At(secs[i][1]) = i
    <2>1. \A j \in DOMAIN secs : secs[j][1] = secs[i][1] => j = i
      BY TrieAssumption
    <2> QED
      BY <2>1, SectionFacts, KeysAreNodes DEF Map!Listed
  <1> HIDE DEF K, At
  <1>3. ASSUME NEW i \in DOMAIN secs
        PROVE  meta'[secs[i][1]] = secs[i][2] /\ events'[secs[i][1]] = Collected(secs)[i]
    BY <1>1, <1>2
  <1> QED
    BY <1>1, <1>3 DEF K

(* Which is what the map does.                                              *)
LEMMA SectionsSimulation ==
  ASSUME IInv, IInv', NEW secs \in Sections, WithApplySections(secs)
  PROVE  Map!SetMetas(secs)
  <1>1. Keys \subseteq Nodes /\ Len(secs) \in Nat /\ DOMAIN secs = 1..Len(secs)
    BY KeysAreNodes, SectionFacts
  <1>2. /\ absMeta' \in [Keys -> Metas \cup {NoMeta}]
        /\ absEvents' \in [Keys -> [Events -> Seq(Observers)]]
    BY <1>1 DEF IInv, TypeOK, absMeta, absEvents
  <1>3. ASSUME NEW r \in Keys \ Map!Listed(secs) PROVE absMeta'[r] = absMeta[r] /\ absEvents'[r] = absEvents[r]
    BY <1>1, SectionsEffect DEF IInv, absMeta, absEvents
  <1>4. ASSUME NEW i \in DOMAIN secs, NEW r, r = secs[i][1]
        PROVE  /\ absMeta'[r] = secs[i][2]
               /\ i = 1 => absEvents'[r] = absEvents[r]
               /\ i > 1 => \A e \in Events : absEvents'[r][e] = absEvents[r][e] \o absEvents'[secs[i - 1][1]][e]
    <2> DEFINE c == Collected(secs)
               V == [Events -> Seq(Observers)]
    <2>a. c[0] = NoEvents /\ \A n \in 1..Len(secs) : c[n] = [e \in Events |-> events[secs[n][1]][e] \o c[n - 1][e]]
      BY CollectedFacts DEF IInv
    <2>b. \A n \in DOMAIN secs : meta'[secs[n][1]] = secs[n][2] /\ events'[secs[n][1]] = c[n]
      BY SectionsEffect DEF IInv
    <2> HIDE DEF c
    <2>1. r \in Keys /\ meta'[r] = secs[i][2] /\ events'[r] = c[i]
      BY <1>4, <2>b, SectionFacts
    <2>2. i \in Nat /\ events'[r] = [e \in Events |-> events[r][e] \o c[i - 1][e]]
      <3>1. i \in 1..Len(secs) /\ i \in Nat
        BY <1>1
      <3>2. c[i] = [e \in Events |-> events[secs[i][1]][e] \o c[i - 1][e]]
        BY ONLY ZenonT(20), <2>a, <3>1
      <3> QED
        BY ONLY ZenonT(20), SMTT(60), <1>4, <2>1, <3>1, <3>2
    <2>3. absMeta'[r] = secs[i][2] /\ absEvents'[r] = events'[r] /\ absEvents[r] = events[r]
      BY <2>1 DEF absMeta, absEvents
    <2>4. ASSUME i = 1 PROVE events'[r] = events[r]
      <3>1. events[r] \in V /\ c[i - 1] = NoEvents
        <4>1. i - 1 = 0
          BY <2>4
        <4> QED
          BY <1>1, <2>a, <2>1, <4>1 DEF IInv, TypeOK
      <3>2. ASSUME NEW e \in Events PROVE events[r][e] \o c[i - 1][e] = events[r][e]
        <4>1. events[r][e] \in Seq(Observers) /\ c[i - 1][e] = <<>>
          BY <3>1 DEF NoEvents
        <4> QED
          BY <4>1
      <3>3. events'[r] = [e \in Events |-> events[r][e]]
        BY <2>2, <3>2
      <3> QED
        BY <3>1, <3>3
    <2>5. ASSUME i > 1, NEW e \in Events PROVE events'[r][e] = events[r][e] \o absEvents'[secs[i - 1][1]][e]
      <3>1. i - 1 \in DOMAIN secs
        BY <1>1, <2>2, <2>5
      <3>2. secs[i - 1][1] \in Keys /\ events'[secs[i - 1][1]] = c[i - 1]
        BY <2>b, <3>1, SectionFacts
      <3>3. absEvents'[secs[i - 1][1]] = c[i - 1]
        BY <3>2 DEF absEvents
      <3> QED
        BY <2>2, <3>3
    <2> QED
      BY <2>3, <2>4, <2>5
  <1>5. valid' = valid \cup Map!Listed(secs)
    BY SectionsEffect DEF IInv
  <1> QED
    <2> HIDE DEF Map!Listed
    <2>1. /\ valid' = valid \cup Map!Listed(secs)
          /\ absMeta' \in [Keys -> Metas \cup {NoMeta}]
          /\ absEvents' \in [Keys -> [Events -> Seq(Observers)]]
          /\ \A r \in Keys \ Map!Listed(secs) : absMeta'[r] = absMeta[r] /\ absEvents'[r] = absEvents[r]
          /\ \A i \in DOMAIN secs :
               LET r == secs[i][1] IN
               /\ absMeta'[r] = secs[i][2]
               /\ i = 1 => absEvents'[r] = absEvents[r]
               /\ i > 1 => \A e \in Events : absEvents'[r][e] = absEvents[r][e] \o absEvents'[secs[i - 1][1]][e]
      BY <1>2, <1>3, <1>4, <1>5
    <2> QED
      BY <2>1 DEF Map!SetMetas, absMeta, absEvents

(* Every operation on the trie is one on the map, or leaves the map alone.  *)
LEMMA StepSimulation == IInv /\ [Next]_vars => [Map!MapNext]_(Map!mapVars)
  <1> SUFFICES ASSUME IInv, [Next]_vars PROVE Map!MapNext \/ UNCHANGED absVars
    BY DEF Map!mapVars, absVars, absMeta, absEvents
  <1> USE DEF absMeta, absEvents, absVars
  <1>1. /\ Keys \subseteq Nodes /\ NoEvents = Map!NoObservers
        /\ \A k \in Keys : events[k] \in [Events -> Seq(Observers)]
    BY KeysAreNodes DEF IInv, TypeOK, NoEvents, Map!NoObservers
  <1>2. ASSUME NEW k \in Keys, NEW e \in Events, NEW o \in Observers, PutEvent(e, k, o)
        PROVE  Map!MapNext
    <2>1. Map!AddObserver(e, k, o)
      BY <1>1, <1>2 DEF PutEvent, Map!AddObserver, IInv, TypeOK
    <2> QED
      BY <2>1 DEF Map!MapNext
  <1>3. ASSUME NEW k \in Keys, NEW m \in Metas, NEW evs, PutMeta(k, m, evs)
        PROVE  Map!SetMeta(k, m, evs)
    BY <1>1, <1>3 DEF PutMeta, Map!SetMeta, IInv, TypeOK
  <1>4. ASSUME NEW secs \in Sections, WithApplySections(secs)
        PROVE  Map!MapNext
    <2>1. Map!SetMetas(secs)
      BY <1>4, SectionsIInv, SectionsSimulation
    <2> QED
      BY <2>1 DEF Map!MapNext
  <1>5. ASSUME NEW k \in Keys, NEW e \in Events, DeleteEvent(e, k)
        PROVE  Map!MapNext \/ UNCHANGED absVars
    <2>1. CASE k \in valid
      <3>1. Map!RemoveObservers(e, k)
        BY <1>1, <1>5, <2>1 DEF DeleteEvent, Map!RemoveObservers, IInv, TypeOK
      <3> QED
        BY <3>1 DEF Map!MapNext
    <2>2. CASE k \notin valid
      <3>1. events[k] = NoEvents
        BY <1>1, <2>2 DEF IInv, Blank
      <3>2. [NoEvents EXCEPT ![e] = <<>>] = NoEvents
        BY DEF NoEvents
      <3>3. events' = events /\ UNCHANGED <<valid, meta>>
        BY <1>1, <1>5, <3>1, <3>2 DEF DeleteEvent, IInv, TypeOK
      <3> QED
        BY <3>3
    <2> QED
      BY <2>1, <2>2
  <1>6. ASSUME NEW k \in Keys, Delete(k)
        PROVE  Map!MapNext
    <2>1. Map!RemoveRoute(k)
      BY <1>1, <1>6 DEF Delete, Map!RemoveRoute, IInv, TypeOK
    <2> QED
      BY <2>1 DEF Map!MapNext
  <1>7. CASE UNCHANGED vars
    BY <1>7 DEF vars
  <1>8. ASSUME NEW k \in Keys, NEW m \in Metas, PutMeta(k, m, NoEvents)
        PROVE  Map!MapNext
    BY <1>1, <1>3, <1>8 DEF Map!MapNext
  <1>9. ASSUME NEW k \in Keys, NEW m \in Metas, NEW e \in Events, NEW o \in Observers,
               PutMeta(k, m, [NoEvents EXCEPT ![e] = <<o>>])
        PROVE  Map!MapNext
    BY <1>1, <1>3, <1>9 DEF Map!MapNext
  <1> QED
    BY <1>2, <1>4, <1>5, <1>6, <1>7, <1>8, <1>9 DEF Next

(* The trie implements the map: an operation on one route changes what is   *)
(* known of that route, as the map says, and nothing of another.            *)
THEOREM Refinement == Spec => IsAMap
  <1>1. Init => Map!MapInit
    BY KeysAreNodes DEF Init, Map!MapInit, NoEvents, Map!NoObservers
  <1>2. IInv /\ [Next]_vars => [Map!MapNext]_(Map!mapVars)
    BY StepSimulation
  <1> QED
    BY <1>1, <1>2, Invariance, PTL DEF Spec, IsAMap, Map!MapSpec

(* All that the run checks of the trie, for every set of keys, observers    *)
(* and metas.                                                               *)
THEOREM TrieBehavesLikeAMap == Spec => TrieIsAMap
  BY TrieIsTidy, WalksMeetAll, Refinement, PTL DEF TrieIsAMap
=============================================================================
