----------------------------- MODULE RouteTrie ------------------------------
(***************************************************************************)
(* trieRoute of config/route_trie.go and the options that fill it,         *)
(* WithFieldMeta and WithApplySections of config/options.go.               *)
(*                                                                         *)
(* A node is the sequence of the segments that lead to it; the root, which *)
(* holds nothing, is left out.  fm.valid is membership in valid.  Every    *)
(* operation runs under Service.mu.Lock and is one step.                   *)
(***************************************************************************)
EXTENDS Integers, Sequences

CONSTANTS
  Keys,       \* keys that operations are called with, as sequences of segments
  Events, Observers,
  Metas,      \* contents of a FieldMeta: default value and write permission
  NoMeta,
  Sections,   \* sections for WithApplySections: sequences of <<key, meta>>
  MaxObs      \* bound: observers of one event on one node

Prefix(k, n) == SubSeq(k, 1, n)
Prefixes(k) == {Prefix(k, n) : n \in 1..Len(k)}
Nodes == UNION {Prefixes(k) : k \in Keys}
NoEvents == [e \in Events |-> <<>>]

(* Sections.Validate has refused a route that appears twice.                *)
ASSUME TrieAssumption ==
  /\ \A k \in Keys : k \in Seq({k[i] : i \in DOMAIN k}) /\ k # <<>>
  /\ NoMeta \notin Metas
  /\ Sections \subseteq Seq(Keys \X Metas)
  /\ \A secs \in Sections : \A i, j \in DOMAIN secs : secs[i][1] = secs[j][1] => i = j
  /\ MaxObs \in Nat

VARIABLES
  nodes,    \* nodes that exist
  valid,    \* those with fm.valid
  meta,     \* default and permission of a node
  events,   \* fm.Events
  applied   \* sections that have been applied: the option loads once

vars == <<nodes, valid, meta, events, applied>>

Init ==
  /\ nodes = {} /\ valid = {}
  /\ meta = [n \in Nodes |-> NoMeta]
  /\ events = [n \in Nodes |-> NoEvents]
  /\ applied = {}

Children(n) == {c \in nodes : Len(c) = Len(n) + 1 /\ Prefix(c, Len(n)) = n}
IsLeaf(n) == Children(n) = {}
Room(k, e) == Len(events[k][e]) < MaxObs
-----------------------------------------------------------------------------
(* PutEvent; trieGetNode creates the nodes on the way.                      *)
PutEvent(e, k, o) ==
  /\ Room(k, e)
  /\ nodes' = nodes \cup Prefixes(k)
  /\ valid' = valid \cup {k}
  /\ events' = [events EXCEPT ![k][e] = Append(@, o)]
  /\ UNCHANGED <<meta, applied>>

(* PutMeta appends the observers of the new meta to those of the node.      *)
PutMeta(k, m, evs) ==
  /\ \A e \in Events : Room(k, e)
  /\ nodes' = nodes \cup Prefixes(k)
  /\ valid' = valid \cup {k}
  /\ meta' = [meta EXCEPT ![k] = m]
  /\ events' = [events EXCEPT ![k] = [e \in Events |-> @[e] \o evs[e]]]
  /\ UNCHANGED applied

(* The observers that the one FieldMeta of WithApplySections has collected  *)
(* after the first n fields: PutMeta leaves the node's observers in it.     *)
Collected(secs) ==
  LET acc[n \in 0..Len(secs)] ==
        IF n = 0 THEN NoEvents
        ELSE [e \in Events |-> events[secs[n][1]][e] \o acc[n - 1][e]]
  IN acc

WithApplySections(secs) ==
  /\ secs \notin applied
  /\ \A i \in DOMAIN secs : \A e \in Events : Room(secs[i][1], e)
  /\ nodes' = nodes \cup UNION {Prefixes(secs[i][1]) : i \in DOMAIN secs}
  /\ valid' = valid \cup {secs[i][1] : i \in DOMAIN secs}
  /\ meta' = [n \in Nodes |-> IF \E i \in DOMAIN secs : secs[i][1] = n
                              THEN secs[CHOOSE i \in DOMAIN secs : secs[i][1] = n][2]
                              ELSE meta[n]]
  /\ events' = [n \in Nodes |-> IF \E i \in DOMAIN secs : secs[i][1] = n
                                THEN Collected(secs)[CHOOSE i \in DOMAIN secs : secs[i][1] = n]
                                ELSE events[n]]
  /\ applied' = applied \cup {secs}

(* DeleteEvent clears the observers of the event and leaves the node.       *)
DeleteEvent(e, k) ==
  /\ k \in nodes
  /\ events' = [events EXCEPT ![k][e] = <<>>]
  /\ UNCHANGED <<nodes, valid, meta, applied>>

PrunedIgnoresSiblings(k) ==
  IF ~IsLeaf(k) THEN {}
  ELSE {Prefix(k, n) : n \in {l \in 1..Len(k) : \A j \in l..(Len(k) - 1) : Prefix(k, j) \notin valid}}

(* The nodes that Delete takes out when k is a leaf: k, and upwards every   *)
(* ancestor that has no meta of its own and no other child.                 *)
Pruned(k) ==
  IF ~IsLeaf(k) THEN {}
  ELSE {Prefix(k, n) : n \in {l \in 1..Len(k) :
          \A j \in l..(Len(k) - 1) :
            Prefix(k, j) \notin valid /\ Children(Prefix(k, j)) = {Prefix(k, j + 1)}}}

Delete(k) ==
  /\ k \in nodes
  /\ valid' = valid \ {k}
  /\ meta' = [meta EXCEPT ![k] = NoMeta]
  /\ events' = [events EXCEPT ![k] = NoEvents]
  /\ nodes' = nodes \ Pruned(k)
  /\ UNCHANGED applied
-----------------------------------------------------------------------------
Next ==
  \/ \E k \in Keys, e \in Events, o \in Observers : PutEvent(e, k, o)
  \/ \E k \in Keys, m \in Metas : PutMeta(k, m, NoEvents)
  \/ \E k \in Keys, m \in Metas, e \in Events, o \in Observers :
       PutMeta(k, m, [NoEvents EXCEPT ![e] = <<o>>])
  \/ \E secs \in Sections : WithApplySections(secs)
  \/ \E k \in Keys, e \in Events : DeleteEvent(e, k)
  \/ \E k \in Keys : Delete(k)

Spec == Init /\ [][Next]_vars
-----------------------------------------------------------------------------
(* Every variable keeps its type, and a meta that is valid belongs to a node *)
(* of the trie (route_trie.go).                                             *)
TypeOK ==
  /\ nodes \subseteq Nodes
  /\ valid \subseteq nodes
  /\ meta \in [Nodes -> Metas \cup {NoMeta}]
  /\ events \in [Nodes -> [Events -> Seq(Observers)]]
  /\ applied \subseteq Sections

(* How far process and Get come on their way down to k: they stop at the    *)
(* first segment for which there is no child.                               *)
Visited(k) == {Prefix(k, n) : n \in {l \in 1..Len(k) : \A j \in 1..l : Prefix(k, j) \in nodes}}

(* The walk of process down to a key meets every node on that way that has  *)
(* a meta or observers: no operation, and in particular no Delete, leaves a *)
(* gap above a node.                                                        *)
ProcessMeetsAll == \A k \in Nodes : Prefixes(k) \cap valid \subseteq Visited(k)

(* The types are kept and the tree is tidy: a node without children has a   *)
(* meta or observers of its own, because Delete removes the ancestors it    *)
(* leaves childless; and a node that is not valid has neither, so that a    *)
(* route that is put again starts empty.                                    *)
Consistent ==
  /\ TypeOK
  /\ \A n \in nodes : IsLeaf(n) => n \in valid
  /\ \A n \in Nodes \ valid : meta[n] = NoMeta /\ events[n] = NoEvents

(* The trie behaves like a map from routes to metas and observers.          *)
Map == INSTANCE RouteMap WITH Routes <- Keys, known <- valid, mapMeta <- [k \in Keys |-> meta[k]],
                              mapEvents <- [k \in Keys |-> events[k]]
IsAMap == Map!MapSpec

(* The trie is a map from routes to metas and observers, and process meets  *)
(* every observer and every meta on the way to its route, and no other      *)
(* (Put, Delete, process).                                                  *)
TrieIsAMap == [](Consistent /\ ProcessMeetsAll) /\ IsAMap
=============================================================================
