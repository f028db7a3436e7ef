----------------------------- MODULE CanalProofs -----------------------------
(***************************************************************************)
(* Canal and BinlogSyncer for any log, tables, handlers and bounds: the    *)
(* stream follows the log, the position covers only what was handled, and  *)
(* handlers see structures that are recent.                                *)
(***************************************************************************)
EXTENDS Canal, FiniteSetTheorems, TLAPS

USE ZenonT(30), SMTT(60), Z3T(60)

(* Positions.  A place is one between two events of the log.               *)
Positions == Nat \X Nat
InLog(p) == p \in Positions /\ p[1] \in DOMAIN log /\ p[2] <= 4 + Len(log[p[1]])
IsPlace(p) == InLog(p) /\ p[2] >= 4
EndOf(id) == <<id[1], 4 + id[2]>>
UpTo(p, id) == ~Earlier(p, EndOf(id))

(* Events: one of the log, or an artificial one.  Each leads from a place   *)
(* to a place.                                                              *)
Events == [kind : Kinds, table : Tables \cup {NoTable}, end : BOOLEAN, id : Positions, logPos : Nat, to : Positions]
Written(e) == e.id \in Ids /\ e = At(e.id[1], e.id[2])
Made(e) == IsPlace(e.to) /\ e \in {Artificial("rotate", e.to), Artificial("format", e.to)}
IsEvent(e) == Written(e) \/ Made(e)
Begins(e) == IF e.id = NoPos THEN e.to ELSE <<e.id[1], 3 + e.id[2]>>
Ends(e) == IF e.id = NoPos THEN e.to ELSE Behind(e.id)
-----------------------------------------------------------------------------
(* The events of a log, one by one.                                         *)
LEMMA IdFacts ==
  ASSUME IsLog(log), NEW id
  PROVE  id \in Ids <=> id \in Positions /\ id[1] \in DOMAIN log /\ id[2] \in DOMAIN log[id[1]]
<1>1. ASSUME id \in Ids PROVE id \in Positions /\ id[1] \in DOMAIN log /\ id[2] \in DOMAIN log[id[1]]
  <2>1. PICK f \in DOMAIN log : id \in {<<f, i>> : i \in DOMAIN log[f]}
    BY <1>1 DEF Ids
  <2>2. PICK i \in DOMAIN log[f] : id = <<f, i>>
    BY <2>1
  <2>3. f \in Nat /\ i \in Nat
    BY SMTT(60), Z3T(60), <2>1, <2>2 DEF IsLog
  <2> QED BY <2>1, <2>2, <2>3 DEF Positions
<1>2. ASSUME id \in Positions, id[1] \in DOMAIN log, id[2] \in DOMAIN log[id[1]] PROVE id \in Ids
  <2>1. id = <<id[1], id[2]>>
    BY <1>2 DEF Positions
  <2>2. id \in {<<id[1], i>> : i \in DOMAIN log[id[1]]}
    BY <1>2, <2>1
  <2> QED BY <1>2, <2>2 DEF Ids
<1> QED BY <1>1, <1>2

LEMMA NextIdFacts ==
  ASSUME IsLog(log'), NEW id
  PROVE  id \in Ids' <=> id \in Positions /\ id[1] \in DOMAIN log' /\ id[2] \in DOMAIN log'[id[1]]
<1>1. ASSUME id \in Ids' PROVE id \in Positions /\ id[1] \in DOMAIN log' /\ id[2] \in DOMAIN log'[id[1]]
  <2>1. PICK f \in DOMAIN log' : id \in {<<f, i>> : i \in DOMAIN log'[f]}
    BY <1>1 DEF Ids
  <2>2. PICK i \in DOMAIN log'[f] : id = <<f, i>>
    BY <2>1
  <2>3. f \in Nat /\ i \in Nat
    BY SMTT(60), Z3T(60), <2>1, <2>2 DEF IsLog
  <2> QED BY <2>1, <2>2, <2>3 DEF Positions
<1>2. ASSUME id \in Positions, id[1] \in DOMAIN log', id[2] \in DOMAIN log'[id[1]] PROVE id \in Ids'
  <2>1. id = <<id[1], id[2]>>
    BY <1>2 DEF Positions
  <2>2. id \in {<<id[1], i>> : i \in DOMAIN log'[id[1]]}
    BY <1>2, <2>1
  <2> QED BY <1>2, <2>2 DEF Ids
<1> QED BY <1>1, <1>2

LEMMA IdTypes ==
  ASSUME IsLog(log), NEW id \in Ids
  PROVE  /\ id \in Positions /\ id = <<id[1], id[2]>> /\ id # NoPos
         /\ id[1] \in 1..Len(log) /\ id[2] \in 1..Len(log[id[1]]) /\ id[1] \in Nat /\ id[2] \in Nat
         /\ Len(log) \in Nat /\ Len(log[id[1]]) \in Nat
         /\ id[1] \in DOMAIN log /\ log[id[1]] \in Seq(Entries)
         /\ id[2] \in DOMAIN log[id[1]] /\ log[id[1]][id[2]] \in Entries
<1>1. id \in Positions /\ id[1] \in DOMAIN log /\ id[2] \in DOMAIN log[id[1]]
  BY IdFacts
<1>2. log \in Seq(Seq(Entries))
  BY DEF IsLog
<1>3. log[id[1]] \in Seq(Entries) /\ id[1] \in 1..Len(log) /\ Len(log) \in Nat
  BY <1>1, <1>2
<1>4. log[id[1]][id[2]] \in Entries /\ id[2] \in 1..Len(log[id[1]]) /\ Len(log[id[1]]) \in Nat
  BY <1>1, <1>3
<1>5. id = <<id[1], id[2]>> /\ id # NoPos
  BY <1>1, <1>3, <1>4 DEF Positions, NoPos
<1> QED BY <1>1, <1>3, <1>4, <1>5

LEMMA PlaceFacts ==
  ASSUME NEW f \in Nat, NEW o \in Nat, f \in DOMAIN log, o >= 4, o <= 4 + Len(log[f])
  PROVE  IsPlace(<<f, o>>) /\ <<f, o>> \in Positions
BY DEF IsPlace, InLog, Positions

(* t is s with x at its end.                                                *)
Longer(s, x, t) ==
  /\ Len(s) \in Nat /\ Len(t) = Len(s) + 1 /\ t # <<>> /\ t[Len(s) + 1] = x
  /\ DOMAIN t = 1..(Len(s) + 1) /\ DOMAIN s = 1..Len(s) /\ \A k \in DOMAIN s : k \in DOMAIN t /\ t[k] = s[k]
  /\ \A k \in 1..(Len(t) - 1) :
       /\ k \in DOMAIN s /\ t[k] = s[k]
       /\ k = Len(s) => s # <<>> /\ t[k + 1] = x
       /\ k # Len(s) => k \in 1..(Len(s) - 1) /\ t[k + 1] = s[k + 1]

LEMMA Appended ==
  ASSUME NEW S, NEW s \in Seq(S), NEW x \in S, NEW t, t = Append(s, x)
  PROVE  t \in Seq(S) /\ Longer(s, x, t)
<1>1. /\ t \in Seq(S) /\ Len(s) \in Nat /\ Len(t) = Len(s) + 1 /\ t # <<>> /\ t[Len(s) + 1] = x
      /\ DOMAIN t = 1..(Len(s) + 1) /\ DOMAIN s = 1..Len(s) /\ \A k \in DOMAIN s : k \in DOMAIN t /\ t[k] = s[k]
  OBVIOUS
<1>2. ASSUME NEW k \in 1..(Len(t) - 1) PROVE k \in 1..Len(s) /\ (k # Len(s) => k \in 1..(Len(s) - 1) /\ k + 1 \in 1..Len(s))
  <2> DEFINE n == Len(s)
  <2>1. n \in Nat /\ k \in 1..((n + 1) - 1)
    BY <1>1
  <2> HIDE DEF n
  <2>2. k \in 1..n /\ (k # n => k \in 1..(n - 1) /\ k + 1 \in 1..n)
    BY <2>1
  <2> QED BY <2>2 DEF n
<1>3. ASSUME NEW k \in 1..(Len(t) - 1), k = Len(s) PROVE s # <<>> /\ t[k + 1] = x
  BY <1>1, <1>3
<1> QED BY <1>1, <1>2, <1>3 DEF Longer

LEMMA AppendedLast ==
  ASSUME NEW s, NEW x, NEW t, Longer(s, x, t)
  PROVE  Len(s) + 1 \in DOMAIN t /\ \A k \in DOMAIN t : k \in DOMAIN s \/ t[k] = x
<1>1. Len(s) \in Nat /\ t[Len(s) + 1] = x /\ DOMAIN t = 1..(Len(s) + 1) /\ DOMAIN s = 1..Len(s)
  BY DEF Longer
<1> DEFINE n == Len(s)
<1> HIDE DEF n
<1>2. n \in Nat /\ t[n + 1] = x /\ DOMAIN t = 1..(n + 1) /\ DOMAIN s = 1..n
  BY <1>1 DEF n
<1>3. n + 1 \in 1..(n + 1) /\ \A k \in 1..(n + 1) : k \in 1..n \/ k = n + 1
  BY <1>2
<1> QED BY <1>2, <1>3 DEF n

LEMMA NotEarlier ==
  ASSUME NEW p \in Positions PROVE ~Earlier(p, p)
BY DEF Positions, Earlier

LEMMA WrittenFacts ==
  ASSUME IsLog(log), NEW e, Written(e)
  PROVE  /\ e \in Events /\ e.id \in Ids /\ e.id # NoPos
         /\ e.kind = log[e.id[1]][e.id[2]].kind /\ e.table = log[e.id[1]][e.id[2]].table
         /\ e.logPos = 4 + e.id[2]
         /\ e.to = IF e.kind = "rotate" THEN <<e.id[1] + 1, 4>> ELSE NoPos
         /\ Begins(e) = <<e.id[1], 3 + e.id[2]>>
         /\ Ends(e) = IF e.kind = "rotate" THEN <<e.id[1] + 1, 4>> ELSE EndOf(e.id)
         /\ e.kind = "rows" => e.table \in Tables
<1> DEFINE f == e.id[1]
           i == e.id[2]
<1>1. e.id \in Ids /\ e = At(f, i)
  BY DEF Written
<1>2. /\ e.id # NoPos /\ f \in 1..Len(log) /\ i \in 1..Len(log[f]) /\ f \in Nat /\ i \in Nat
      /\ log[f][i] \in Entries /\ f \in DOMAIN log /\ i \in DOMAIN log[f] /\ e.id \in Positions
  BY <1>1, IdTypes
<1>3. /\ e.kind = log[f][i].kind /\ e.table = log[f][i].table /\ e.end = log[f][i].end /\ e.logPos = 4 + i
      /\ e.to = IF log[f][i].kind = "rotate" THEN <<f + 1, 4>> ELSE NoPos
  BY <1>1 DEF At
<1>4. e.kind \in Kinds /\ e.table \in Tables \cup {NoTable} /\ e.end \in BOOLEAN /\ e.logPos \in Nat
  <2>1. ASSUME NEW x \in Entries PROVE x.kind \in Kinds /\ x.table \in Tables \cup {NoTable} /\ x.end \in BOOLEAN
    BY DEF Entries
  <2>2. 4 + i \in Nat
    BY <1>2
  <2> QED BY <1>2, <1>3, <2>1, <2>2
<1>5. e.to \in Positions
  <2>1. <<f + 1, 4>> \in Positions /\ NoPos \in Positions
    BY SMTT(60), Z3T(60), <1>2 DEF Positions, NoPos
  <2> QED BY <1>3, <2>1
<1>6. e = [kind |-> e.kind, table |-> e.table, end |-> e.end, id |-> e.id, logPos |-> e.logPos, to |-> e.to]
  BY <1>1 DEF At
<1>7. e \in Events
  BY <1>2, <1>4, <1>5, <1>6 DEF Events
<1>8. e.kind = "rows" => e.table \in Tables
  BY <1>2, <1>3 DEF IsLog
<1>9. Begins(e) = <<f, 3 + i>> /\ Ends(e) = IF e.kind = "rotate" THEN <<f + 1, 4>> ELSE EndOf(e.id)
  BY <1>2, <1>3 DEF Begins, Ends, Behind, EndOf
<1> QED BY <1>1, <1>2, <1>3, <1>7, <1>8, <1>9

LEMMA EntryFacts ==
  ASSUME NEW k \in Kinds, NEW t \in Tables \cup {NoTable}, NEW b \in BOOLEAN
  PROVE  Entry(k, t, b) \in Entries /\ Entry(k, t, b).kind = k /\ Entry(k, t, b).table = t
BY DEF Entry, Entries

LEMMA ArtificialFacts ==
  ASSUME NEW k \in Kinds, NEW p \in Positions
  PROVE  /\ Artificial(k, p) \in Events /\ Artificial(k, p).id = NoPos /\ Artificial(k, p).kind = k
         /\ Artificial(k, p).logPos = 0 /\ Artificial(k, p).to = p
<1>1. NoPos \in Positions
  BY DEF NoPos, Positions
<1> QED BY <1>1 DEF Artificial, Events

LEMMA MadeFacts ==
  ASSUME NEW e, Made(e)
  PROVE  /\ e \in Events /\ e.id = NoPos /\ e.kind \in {"rotate", "format"} /\ e.logPos = 0
         /\ IsPlace(e.to) /\ Begins(e) = e.to /\ Ends(e) = e.to
<1>1. e.to \in Positions
  BY DEF Made, IsPlace, InLog
<1>2. e \in Events /\ e.id = NoPos /\ e.kind \in {"rotate", "format"} /\ e.logPos = 0
  BY SMTT(60), Z3T(60), <1>1, ArtificialFacts DEF Made, Kinds
<1> QED BY <1>2 DEF Made, Begins, Ends

LEMMA EventFacts ==
  ASSUME IsLog(log), NEW e, IsEvent(e)
  PROVE  e \in Events /\ IsPlace(Begins(e)) /\ IsPlace(Ends(e))
<1>1. CASE Written(e)
  <2> DEFINE f == e.id[1]
             i == e.id[2]
  <2>1. /\ e \in Events /\ e.id \in Ids /\ Begins(e) = <<f, 3 + i>> /\ e.kind = log[f][i].kind
        /\ Ends(e) = IF e.kind = "rotate" THEN <<f + 1, 4>> ELSE <<f, 4 + i>>
    BY <1>1, WrittenFacts DEF EndOf
  <2>2. /\ f \in 1..Len(log) /\ i \in 1..Len(log[f]) /\ f \in DOMAIN log /\ i \in DOMAIN log[f]
        /\ f \in Nat /\ i \in Nat /\ Len(log) \in Nat /\ Len(log[f]) \in Nat
    BY <2>1, IdTypes
  <2> HIDE DEF f, i
  <2>3. IsPlace(Begins(e))
    <3>1. 3 + i \in Nat /\ 3 + i >= 4 /\ 3 + i <= 4 + Len(log[f])
      BY <2>2
    <3> QED BY <2>1, <2>2, <3>1, PlaceFacts
  <2>4. CASE e.kind = "rotate"
    <3>1. f < Len(log)
      BY <2>1, <2>2, <2>4 DEF IsLog
    <3>2. f + 1 \in DOMAIN log /\ Len(log[f + 1]) \in Nat
      BY SMTT(60), Z3T(60), <2>2, <3>1 DEF IsLog
    <3>3. IsPlace(<<f + 1, 4>>)
      <4> DEFINE g == f + 1
      <4>1. g \in Nat /\ 4 \in Nat /\ g \in DOMAIN log /\ 4 >= 4 /\ 4 <= 4 + Len(log[g])
        BY <2>2, <3>2
      <4> HIDE DEF g
      <4>2. IsPlace(<<g, 4>>)
        BY <4>1, PlaceFacts
      <4> QED BY <4>2 DEF g
    <3> QED BY <2>1, <2>3, <2>4, <3>3
  <2>5. CASE e.kind # "rotate"
    <3>1. 4 + i \in Nat /\ 4 + i >= 4 /\ 4 + i <= 4 + Len(log[f])
      BY <2>2
    <3> QED BY <2>1, <2>2, <2>3, <2>5, <3>1, PlaceFacts
  <2> QED BY <2>4, <2>5
<1>2. CASE Made(e)
  BY <1>2, MadeFacts
<1> QED BY <1>1, <1>2 DEF IsEvent

(* An event of the log is the only one between its two places.              *)
LEMMA OneBetween ==
  ASSUME IsLog(log), NEW e, Written(e), NEW id \in Ids
  PROVE  UpTo(Ends(e), id) <=> UpTo(Begins(e), id) \/ id = e.id
<1> DEFINE f == e.id[1]
           i == e.id[2]
<1>1. /\ e.id \in Ids /\ Begins(e) = <<f, 3 + i>> /\ e.kind = log[f][i].kind
      /\ Ends(e) = IF e.kind = "rotate" THEN <<f + 1, 4>> ELSE <<f, 4 + i>>
  BY WrittenFacts DEF EndOf
<1>2. /\ f \in Nat /\ i \in Nat /\ e.id = <<f, i>> /\ f \in DOMAIN log /\ i \in DOMAIN log[f]
  BY <1>1, IdTypes
<1>3. /\ id = <<id[1], id[2]>> /\ id[1] \in Nat /\ id[2] \in Nat /\ id[2] >= 1 /\ id[2] <= Len(log[id[1]])
      /\ Len(log[id[1]]) \in Nat
  BY SMTT(60), Z3T(60), IdTypes
<1>4. CASE e.kind = "rotate"
  <2>1. i = Len(log[f])
    BY <1>1, <1>2, <1>4 DEF IsLog
  <2>2. id = e.id <=> id[1] = f /\ id[2] = i
    BY <1>2, <1>3
  <2> QED BY <1>1, <1>2, <1>3, <1>4, <2>1, <2>2 DEF UpTo, EndOf, Earlier
<1>5. CASE e.kind # "rotate"
  <2>2. id = e.id <=> id[1] = f /\ id[2] = i
    BY <1>2, <1>3
  <2> QED BY <1>1, <1>2, <1>3, <1>5, <2>2 DEF UpTo, EndOf, Earlier
<1> QED BY <1>4, <1>5

(* What lies up to the place before an event is earlier than its end.       *)
LEMMA UpToBefore ==
  ASSUME NEW f \in Nat, NEW i \in Nat, NEW id, id[1] \in Nat, id[2] \in Nat, UpTo(<<f, 3 + i>>, id)
  PROVE  Earlier(EndOf(id), <<f, 4 + i>>)
BY DEF UpTo, EndOf, Earlier

(* Of two positions the later one has more events up to it.                 *)
LEMMA UpToLater ==
  ASSUME IsLog(log), NEW p \in Positions, NEW q \in Positions, ~Earlier(q, p), NEW id \in Ids, UpTo(p, id)
  PROVE  UpTo(q, id)
<1>1. id[1] \in Nat /\ id[2] \in Nat
  BY IdTypes
<1>2. p[1] \in Nat /\ p[2] \in Nat /\ q[1] \in Nat /\ q[2] \in Nat
  BY DEF Positions
<1> QED BY <1>1, <1>2 DEF UpTo, EndOf, Earlier
-----------------------------------------------------------------------------
(* How many changes of a table there are up to a position.                  *)
Count(t, p) == Cardinality({c \in Changes(t) : UpTo(p, c)})

LEMMA IdsAreFinite ==
  ASSUME IsLog(log) PROVE IsFiniteSet(Ids)
<1> DEFINE Of(f) == {<<f, i>> : i \in DOMAIN log[f]}
           Files == {Of(f) : f \in DOMAIN log}
<1>1. ASSUME NEW f \in DOMAIN log PROVE IsFiniteSet(Of(f))
  <2> DEFINE g == [i \in DOMAIN log[f] |-> <<f, i>>]
  <2>1. IsFiniteSet(DOMAIN log[f])
    <3>1. DOMAIN log[f] = 1..Len(log[f]) /\ Len(log[f]) \in Nat
      BY <1>1 DEF IsLog
    <3> QED BY <3>1, FS_Interval
  <2>2. g \in Surjection(DOMAIN log[f], Of(f))
    BY DEF Surjection
  <2> QED BY <2>1, <2>2, FS_Surjection
<1>2. IsFiniteSet(Files)
  <2> DEFINE g == [f \in DOMAIN log |-> Of(f)]
  <2>1. IsFiniteSet(DOMAIN log)
    <3>1. DOMAIN log = 1..Len(log) /\ Len(log) \in Nat
      BY DEF IsLog
    <3> QED BY <3>1, FS_Interval
  <2>2. g \in Surjection(DOMAIN log, Files)
    <3> HIDE DEF Of
    <3> QED BY DEF Surjection
  <2> HIDE DEF Files, g
  <2> QED BY <2>1, <2>2, FS_Surjection
<1>3. \A T \in Files : IsFiniteSet(T)
  BY <1>1
<1>4. Ids = UNION Files
  BY DEF Ids
<1> HIDE DEF Files
<1> QED BY <1>2, <1>3, <1>4, FS_UNION

LEMMA Counting ==
  ASSUME IsLog(log), NEW t, NEW S, NEW T, S \subseteq T, T \subseteq Changes(t)
  PROVE  Cardinality(S) \in Nat /\ Cardinality(T) \in Nat /\ Cardinality(S) <= Cardinality(T)
<1>1. T \in SUBSET Ids /\ S \in SUBSET T
  BY DEF Changes
<1>2. IsFiniteSet(T)
  BY <1>1, IdsAreFinite, FS_Subset
<1>3. IsFiniteSet(S) /\ Cardinality(S) <= Cardinality(T)
  BY <1>1, <1>2, FS_Subset
<1> QED BY <1>2, <1>3, FS_CardinalityType

LEMMA Counts ==
  ASSUME IsLog(log), NEW t, NEW p
  PROVE  Count(t, p) \in Nat /\ Version(t) \in Nat /\ Count(t, p) <= Version(t)
BY Counting DEF Count, Version

LEMMA CountsGrow ==
  ASSUME IsLog(log), NEW t, NEW p \in Positions, NEW q \in Positions, ~Earlier(q, p)
  PROVE  Count(t, p) <= Count(t, q)
<1>1. \A c \in Changes(t) : UpTo(p, c) => UpTo(q, c)
  BY UpToLater DEF Changes
<1> QED BY <1>1, Counting DEF Count
LEMMA VersionAtCounts ==
  ASSUME IsLog(log), NEW t, NEW id \in Ids
  PROVE  VersionAt(t, id) \in Nat /\ VersionAt(t, id) <= Count(t, EndOf(id)) /\ VersionAt(t, id) <= Version(t)
<1>1. id[1] \in Nat /\ id[2] \in Nat
  BY IdTypes
<1>2. ASSUME NEW c \in Changes(t), Earlier(c, id) PROVE UpTo(EndOf(id), c)
  <2>1. c[1] \in Nat /\ c[2] \in Nat
    BY IdTypes DEF Changes
  <2> QED BY <1>1, <1>2, <2>1 DEF Earlier, UpTo, EndOf
<1>3. {c \in Changes(t) : Earlier(c, id)} \subseteq {c \in Changes(t) : UpTo(EndOf(id), c)}
  BY <1>2
<1> QED BY <1>3, Counting DEF VersionAt, Count, Version
-----------------------------------------------------------------------------
(* The log only grows at its end.                                           *)
Grows ==
  /\ IsLog(log')
  /\ \A f \in DOMAIN log :
       /\ f \in DOMAIN log' /\ Len(log[f]) <= Len(log'[f])
       /\ f < Len(log) => log'[f] = log[f]
       /\ \A i \in DOMAIN log[f] : log'[f][i] = log[f][i]

LEMMA IdsStay ==
  ASSUME IsLog(log), Grows, NEW id \in Ids
  PROVE  /\ id \in Ids' /\ log'[id[1]][id[2]] = log[id[1]][id[2]]
         /\ Behind(id)' = Behind(id) /\ At(id[1], id[2])' = At(id[1], id[2])
<1>1. /\ id \in Positions /\ id[1] \in DOMAIN log /\ id[2] \in DOMAIN log[id[1]]
      /\ log[id[1]] \in Seq(Entries) /\ Len(log[id[1]]) \in Nat
  BY IdTypes
<1>2. /\ IsLog(log') /\ id[1] \in DOMAIN log' /\ log'[id[1]][id[2]] = log[id[1]][id[2]]
      /\ Len(log[id[1]]) <= Len(log'[id[1]])
  BY <1>1 DEF Grows
<1>3. log'[id[1]] \in Seq(Entries)
  BY <1>2 DEF IsLog
<1>4. id[2] \in DOMAIN log'[id[1]]
  BY <1>1, <1>2, <1>3
<1>5. id \in Ids'
  BY <1>1, <1>2, <1>4, NextIdFacts
<1> QED BY <1>2, <1>5 DEF Behind, At

LEMMA FileFacts ==
  ASSUME NEW l, IsLog(l), NEW f \in DOMAIN l
  PROVE  l \in Seq(Seq(Entries)) /\ l[f] \in Seq(Entries) /\ Len(l[f]) \in Nat /\ Len(l) \in Nat /\ f \in 1..Len(l)
<1>1. l \in Seq(Seq(Entries))
  BY DEF IsLog
<1>2. l[f] \in Seq(Entries) /\ Len(l) \in Nat /\ f \in 1..Len(l)
  BY <1>1
<1> QED BY <1>1, <1>2

LEMMA NewIds ==
  ASSUME IsLog(log), Grows, NEW p, InLog(p), NEW id \in Ids'
  PROVE  /\ InLog(p)' /\ (IsPlace(p) => IsPlace(p)')
         /\ UpTo(p, id) => id \in Ids
<1>1. /\ IsLog(log') /\ p \in Positions /\ p[1] \in DOMAIN log /\ p[1] \in Nat /\ p[2] \in Nat
      /\ p[2] <= 4 + Len(log[p[1]]) /\ Len(log[p[1]]) <= Len(log'[p[1]]) /\ p[1] \in DOMAIN log'
  BY DEF InLog, Grows, Positions
<1>2. log[p[1]] \in Seq(Entries) /\ log'[p[1]] \in Seq(Entries) /\ Len(log) \in Nat /\ p[1] \in 1..Len(log)
  BY <1>1, FileFacts
<1>3. Len(log[p[1]]) \in Nat /\ Len(log'[p[1]]) \in Nat
  BY <1>1, FileFacts
<1>4. InLog(p)' /\ (IsPlace(p) => IsPlace(p)')
  BY <1>1, <1>3 DEF InLog, IsPlace
<1>5. ASSUME UpTo(p, id) PROVE id \in Ids
  <2>1. id \in Positions /\ id[1] \in DOMAIN log' /\ id[2] \in DOMAIN log'[id[1]]
    BY <1>1, NextIdFacts
  <2>2. id[1] \in Nat /\ id[2] \in Nat /\ id[1] >= 1 /\ id[2] >= 1
    <3>1. log'[id[1]] \in Seq(Entries) /\ log' \in Seq(Seq(Entries))
      BY <1>1, <2>1, FileFacts
    <3> QED BY <2>1, <3>1 DEF Positions
  <2>3. id[1] < p[1] \/ (id[1] = p[1] /\ 4 + id[2] <= p[2])
    BY <1>1, <1>5, <2>2 DEF UpTo, Earlier, EndOf
  <2>4. id[1] \in DOMAIN log /\ log[id[1]] \in Seq(Entries)
    BY <1>2, <2>2, <2>3 DEF IsLog
  <2>5. CASE id[1] < p[1]
    <3>1. log'[id[1]] = log[id[1]]
      BY SMTT(60), Z3T(60), <1>1, <1>2, <2>2, <2>4, <2>5 DEF Grows
    <3> QED BY <2>1, <2>4, <3>1, IdFacts
  <2>6. CASE id[1] = p[1] /\ 4 + id[2] <= p[2]
    <3>1. id[2] \in DOMAIN log[id[1]]
      BY <1>1, <1>3, <2>2, <2>4, <2>6
    <3> QED BY <2>1, <2>4, <3>1, IdFacts
  <2> QED BY <2>3, <2>5, <2>6
<1> QED BY <1>4, <1>5

LEMMA PlacesStay ==
  ASSUME IsLog(log), Grows, NEW p, InLog(p)
  PROVE  InLog(p)' /\ (IsPlace(p) => IsPlace(p)')
<1>1. /\ p[1] \in DOMAIN log' /\ p \in Positions /\ p[2] \in Nat /\ p[1] \in DOMAIN log
      /\ p[2] <= 4 + Len(log[p[1]]) /\ Len(log[p[1]]) <= Len(log'[p[1]])
  BY DEF InLog, Grows, Positions
<1>2. Len(log[p[1]]) \in Nat /\ Len(log'[p[1]]) \in Nat
  BY SMTT(60), Z3T(60), <1>1 DEF IsLog, Grows
<1> QED BY <1>1, <1>2 DEF InLog, IsPlace

LEMMA EventsStay ==
  ASSUME IsLog(log), Grows, NEW e
  PROVE  /\ Written(e) => Written(e)'
         /\ IsEvent(e) => IsEvent(e)' /\ Begins(e)' = Begins(e) /\ Ends(e)' = Ends(e)
<1>1. Begins(e)' = Begins(e)
  BY DEF Begins
<1>2. ASSUME Written(e) PROVE Written(e)' /\ Ends(e)' = Ends(e)
  <2>1. e.id \in Ids /\ e = At(e.id[1], e.id[2])
    BY <1>2 DEF Written
  <2> QED BY <2>1, IdsStay DEF Written, Ends
<1>3. ASSUME Made(e) PROVE Made(e)' /\ Ends(e)' = Ends(e)
  BY <1>3, PlacesStay, MadeFacts DEF Made, IsPlace, Ends
<1> QED BY <1>1, <1>2, <1>3 DEF IsEvent

LEMMA ChangesStay ==
  ASSUME IsLog(log), Grows, NEW t
  PROVE  /\ Changes(t) \subseteq Changes(t)'
         /\ \A c \in Changes(t)' : c \in Ids => c \in Changes(t)
         /\ \A p : InLog(p) => Count(t, p)' = Count(t, p)
         /\ \A id \in Ids : VersionAt(t, id)' = VersionAt(t, id)
         /\ Exists(t)' => Exists(t)
<1>1. Changes(t) \subseteq Changes(t)'
  BY IdsStay DEF Changes
<1>2. \A c \in Changes(t)' : c \in Ids => c \in Changes(t)
  BY IdsStay DEF Changes
<1>3. Changes(t)' \subseteq Ids'
  BY DEF Changes
<1>4. ASSUME NEW p, InLog(p) PROVE Count(t, p)' = Count(t, p)
  <2>1. \A c \in Changes(t)' : UpTo(p, c) => c \in Changes(t)
    BY <1>2, <1>3, <1>4, NewIds
  <2>2. {c \in Changes(t)' : UpTo(p, c)} = {c \in Changes(t) : UpTo(p, c)}
    BY <1>1, <2>1
  <2> QED BY <2>2 DEF Count, UpTo, Earlier, EndOf
<1>5. ASSUME NEW id \in Ids PROVE VersionAt(t, id)' = VersionAt(t, id)
  <2>1. InLog(<<id[1], 4 + id[2]>>) /\ id[1] \in Nat /\ id[2] \in Nat
    BY SMTT(60), Z3T(60), IdTypes DEF InLog, Positions
  <2>2. ASSUME NEW c \in Changes(t)', Earlier(c, id) PROVE c \in Changes(t)
    <3>1. c[1] \in Nat /\ c[2] \in Nat
      BY SMTT(60), Z3T(60), <1>3, NextIdFacts DEF Grows, Positions
    <3>2. UpTo(<<id[1], 4 + id[2]>>, c)
      BY <2>1, <2>2, <3>1 DEF UpTo, Earlier, EndOf
    <3> QED BY <1>2, <1>3, <2>1, <3>2, NewIds
  <2>3. {c \in Changes(t)' : Earlier(c, id)} = {c \in Changes(t) : Earlier(c, id)}
    BY <1>1, <2>2
  <2> QED BY <2>3 DEF VersionAt, Earlier
<1>6. Exists(t)' => Exists(t)
  BY <1>1, IdsStay DEF Exists, Changes
<1> QED BY <1>1, <1>2, <1>4, <1>5, <1>6
-----------------------------------------------------------------------------
(* What the server writes keeps the log well-formed.                        *)
Plain(e) == e \in Entries /\ e.kind # "rotate" /\ (e.kind = "rows" => e.table \in Tables)

LEMMA LastFile ==
  ASSUME IsLog(log), NEW i \in DOMAIN log[Len(log)]
  PROVE  log[Len(log)][i].kind # "rotate" /\ (log[Len(log)][i].kind = "rows" => log[Len(log)][i].table \in Tables)
<1> DEFINE n == Len(log)
<1>1. n \in Nat /\ n \in DOMAIN log /\ ~(n < Len(log))
  BY DEF IsLog
<1>2. \A f \in DOMAIN log : \A j \in DOMAIN log[f] :
        /\ log[f][j].kind = "rotate" => f < Len(log)
        /\ log[f][j].kind = "rows" => log[f][j].table \in Tables
  BY DEF IsLog
<1> HIDE DEF n
<1>3. log[n][i].kind # "rotate" /\ (log[n][i].kind = "rows" => log[n][i].table \in Tables)
  <2>1. i \in DOMAIN log[n]
    BY DEF n
  <2> QED BY <1>1, <1>2, <2>1
<1> QED BY <1>3 DEF n

LEMMA WriteGrows ==
  ASSUME IsLog(log), NEW new \in Seq(Entries), \A i \in DOMAIN new : Plain(new[i]), Write(new)
  PROVE  Grows
<1> DEFINE n == Len(log)
           last == log[n]
<1>1. log \in Seq(Seq(Entries)) /\ n \in Nat /\ n \in DOMAIN log /\ DOMAIN log = 1..n
  BY DEF IsLog
<1>2. last \in Seq(Entries) /\ last \o new \in Seq(Entries) /\ Len(last \o new) = Len(last) + Len(new)
  BY <1>1
<1>3. log' = [log EXCEPT ![n] = last \o new]
  BY DEF Write
<1>4. log' \in Seq(Seq(Entries)) /\ Len(log') = n /\ DOMAIN log' = 1..n
  BY SMTT(60), Z3T(60), <1>1, <1>2, <1>3
<1>5. log'[n] = last \o new /\ \A f \in DOMAIN log : f # n => log'[f] = log[f]
  BY <1>1, <1>3
<1>6. \A i \in DOMAIN last : i \in DOMAIN log'[n] /\ log'[n][i] = last[i]
  BY <1>2, <1>5
<1>7. ASSUME NEW i \in DOMAIN log'[n] PROVE log'[n][i].kind # "rotate" /\ (log'[n][i].kind = "rows" => log'[n][i].table \in Tables)
  <2>1. CASE i \in DOMAIN last
    <3>1. log'[n][i] = last[i]
      BY <1>6, <2>1
    <3>2. last[i].kind # "rotate" /\ (last[i].kind = "rows" => last[i].table \in Tables)
      BY <1>1, <2>1, LastFile
    <3> QED BY <3>1, <3>2
  <2>2. CASE i \notin DOMAIN last
    <3>1. i - Len(last) \in DOMAIN new /\ log'[n][i] = new[i - Len(last)]
      BY <1>2, <1>5, <2>2
    <3> QED BY <3>1 DEF Plain
  <2> QED BY <2>1, <2>2
<1>8. ASSUME NEW f \in DOMAIN log', NEW i \in DOMAIN log'[f]
      PROVE  /\ log'[f][i].kind = "rotate" <=> f < Len(log') /\ i = Len(log'[f])
             /\ log'[f][i].kind = "rows" => log'[f][i].table \in Tables
  <2>1. CASE f = n
    BY <1>1, <1>4, <1>7, <2>1
  <2>2. CASE f # n
    <3>1. f \in DOMAIN log /\ log'[f] = log[f]
      BY <1>1, <1>4, <1>5, <2>2
    <3> QED BY <1>1, <1>4, <3>1 DEF IsLog
  <2> QED BY <2>1, <2>2
<1>9. IsLog(log')
  <2>1. log' # <<>>
    BY <1>1, <1>4
  <2> QED BY <1>4, <1>8, <2>1 DEF IsLog
<1>10. ASSUME NEW f \in DOMAIN log
       PROVE  /\ f \in DOMAIN log' /\ Len(log[f]) <= Len(log'[f])
              /\ f < Len(log) => log'[f] = log[f]
              /\ \A i \in DOMAIN log[f] : log'[f][i] = log[f][i]
  <2>1. CASE f = n
    <3>1. log[f] = last /\ log'[f] = last \o new /\ Len(last) \in Nat /\ Len(new) \in Nat
      BY <1>2, <1>5, <2>1
    <3>2. Len(log[f]) <= Len(log'[f]) /\ f \in DOMAIN log' /\ ~(f < Len(log))
      BY <1>1, <1>2, <1>4, <2>1, <3>1
    <3> QED BY <1>6, <2>1, <3>1, <3>2
  <2>2. CASE f # n
    <3>1. log'[f] = log[f] /\ Len(log[f]) \in Nat
      BY <1>1, <1>5, <2>2
    <3> QED BY <1>1, <1>4, <3>1
  <2> QED BY <2>1, <2>2
<1> QED BY <1>9, <1>10 DEF Grows

LEMMA NewFilePlain == NewFile \in Seq(Entries) /\ \A i \in DOMAIN NewFile : Plain(NewFile[i])
<1>1. Plain(Entry("format", NoTable, FALSE)) /\ Plain(Entry("other", NoTable, FALSE))
  BY EntryFacts DEF Plain, Kinds
<1> DEFINE a == Entry("format", NoTable, FALSE)
           b == Entry("other", NoTable, FALSE)
<1>2. NewFile = <<a, b>> /\ a \in Entries /\ b \in Entries /\ Plain(a) /\ Plain(b)
  BY <1>1 DEF NewFile, Plain
<1> HIDE DEF a, b
<1> QED BY <1>2

LEMMA FlushGrows ==
  ASSUME IsLog(log), Flush PROVE Grows
<1> DEFINE n == Len(log)
           last == log[n]
           rot == Entry("rotate", NoTable, FALSE)
           ended == [log EXCEPT ![n] = Append(last, rot)]
<1>1. log \in Seq(Seq(Entries)) /\ n \in Nat /\ n \in DOMAIN log /\ DOMAIN log = 1..n
  BY DEF IsLog
<1>2. last \in Seq(Entries) /\ rot \in Entries /\ rot.kind = "rotate"
  <2>1. rot \in Entries
    BY DEF Entry, Entries, Kinds
  <2>2. rot.kind = "rotate"
    BY DEF Entry
  <2>3. last \in Seq(Entries)
    BY <1>1
  <2> QED BY <2>1, <2>2, <2>3
<1> HIDE DEF rot
<1>3. /\ Append(last, rot) \in Seq(Entries) /\ Len(Append(last, rot)) = Len(last) + 1
      /\ DOMAIN Append(last, rot) = 1..(Len(last) + 1) /\ Append(last, rot)[Len(last) + 1] = rot
      /\ \A i \in DOMAIN last : Append(last, rot)[i] = last[i]
  BY <1>2
<1>4. /\ ended \in Seq(Seq(Entries)) /\ Len(ended) = n /\ ended[n] = Append(last, rot)
      /\ \A f \in DOMAIN log : f # n => ended[f] = log[f]
  <2> DEFINE more == Append(last, rot)
  <2>1. more \in Seq(Entries)
    BY <1>3
  <2> HIDE DEF more
  <2>2. ended = [log EXCEPT ![n] = more]
    BY DEF more
  <2> HIDE DEF ended
  <2>3. /\ ended \in Seq(Seq(Entries)) /\ Len(ended) = n /\ ended[n] = more
        /\ \A f \in DOMAIN log : f # n => ended[f] = log[f]
    BY <1>1, <2>1, <2>2
  <2> QED BY <2>3 DEF more
<1>5. log' = Append(ended, NewFile)
  BY DEF Flush, rot
<1> HIDE DEF ended
<1>6. /\ log' \in Seq(Seq(Entries)) /\ Len(log') = n + 1 /\ DOMAIN log' = 1..(n + 1) /\ log'[n + 1] = NewFile
      /\ \A f \in 1..n : log'[f] = ended[f]
  BY <1>1, <1>4, <1>5, NewFilePlain
<1>7. ASSUME NEW f \in DOMAIN log', NEW i \in DOMAIN log'[f]
      PROVE  /\ log'[f][i].kind = "rotate" <=> f < Len(log') /\ i = Len(log'[f])
             /\ log'[f][i].kind = "rows" => log'[f][i].table \in Tables
  <2>1. CASE f = n + 1
    <3>1. Plain(NewFile[i])
      BY <1>6, <2>1, NewFilePlain
    <3> QED BY <1>1, <1>6, <2>1, <3>1 DEF Plain
  <2>2. CASE f = n
    <3>1. log'[f] = Append(last, rot) /\ f < Len(log')
      <4>1. f \in 1..n /\ log'[f] = ended[f]
        BY <1>1, <1>6, <2>2
      <4> QED BY SMTT(60), Z3T(60), <1>1, <1>4, <1>6, <2>2, <4>1
    <3>2. CASE i = Len(last) + 1
      BY <1>2, <1>3, <3>1, <3>2
    <3>3. CASE i # Len(last) + 1
      <4>1. i \in DOMAIN last /\ log'[f][i] = last[i] /\ Len(last) \in Nat
        BY <1>2, <1>3, <3>1, <3>3
      <4>2. last[i].kind # "rotate" /\ (last[i].kind = "rows" => last[i].table \in Tables)
        BY <1>1, <4>1, LastFile
      <4> QED BY <1>3, <3>1, <3>3, <4>1, <4>2
    <3> QED BY <3>2, <3>3
  <2>3. CASE f # n /\ f # n + 1
    <3>1. f \in DOMAIN log /\ log'[f] = log[f] /\ f < n
      <4>1. f \in 1..n /\ f \in DOMAIN log /\ f < n
        BY <1>1, <1>6, <2>3
      <4> QED BY <1>4, <1>6, <2>3, <4>1
    <3> QED BY SMTT(60), Z3T(60), <1>1, <1>6, <3>1 DEF IsLog
  <2> QED BY <2>1, <2>2, <2>3
<1>8. IsLog(log')
  <2>1. log' # <<>>
    BY <1>1, <1>6
  <2> QED BY <1>6, <1>7, <2>1 DEF IsLog
<1>9. ASSUME NEW f \in DOMAIN log
       PROVE  /\ f \in DOMAIN log' /\ Len(log[f]) <= Len(log'[f])
              /\ f < Len(log) => log'[f] = log[f]
              /\ \A i \in DOMAIN log[f] : log'[f][i] = log[f][i]
  <2>1. CASE f = n
    <3>1. log[f] = last /\ log'[f] = Append(last, rot) /\ f \in DOMAIN log' /\ ~(f < Len(log)) /\ Len(last) \in Nat
      <4>1. f \in 1..n /\ log'[f] = ended[f]
        BY <1>1, <1>6, <2>1
      <4> QED BY <1>1, <1>2, <1>4, <1>6, <2>1, <4>1
    <3>2. Len(log[f]) <= Len(log'[f])
      BY <1>3, <3>1
    <3> QED BY <1>3, <3>1, <3>2
  <2>2. CASE f # n
    <3>1. log'[f] = log[f] /\ Len(log[f]) \in Nat
      <4>1. f \in 1..n /\ log[f] \in Seq(Entries)
        BY <1>1
      <4>2. log'[f] = ended[f] /\ ended[f] = log[f]
        BY <1>4, <1>6, <2>2, <4>1
      <4> QED BY <4>1, <4>2
    <3> QED BY <1>1, <1>6, <3>1
  <2> QED BY <2>1, <2>2
<1> QED BY <1>8, <1>9 DEF Grows

LEMMA StatementPlain ==
  ASSUME NEW ts \in Seq(Tables)
  PROVE  Statement(ts) \in Seq(Entries) /\ \A i \in DOMAIN Statement(ts) : Plain(Statement(ts)[i])
<1> DEFINE A == [i \in DOMAIN ts |-> Entry("map", ts[i], FALSE)]
           B == [i \in DOMAIN ts |-> Entry("rows", ts[i], i = Len(ts))]
           C == <<Entry("xid", NoTable, FALSE)>>
<1>1. \A t \in Tables, b \in BOOLEAN : Plain(Entry("map", t, b)) /\ Plain(Entry("rows", t, b))
  BY SMTT(60), Z3T(60), EntryFacts DEF Plain, Kinds
<1>2. Plain(Entry("xid", NoTable, FALSE))
  BY EntryFacts DEF Plain, Kinds
<1>3. A \in Seq(Entries) /\ \A i \in DOMAIN A : Plain(A[i])
  <2>1. \A i \in DOMAIN ts : Plain(A[i]) /\ A[i] \in Entries
    <3> SUFFICES ASSUME NEW i \in DOMAIN ts PROVE Plain(A[i])
      BY DEF Plain
    <3>1. ts[i] \in Tables /\ (i = Len(ts)) \in BOOLEAN
      OBVIOUS
    <3>2. A[i] = Entry("map", ts[i], FALSE)
      OBVIOUS
    <3> QED BY <1>1, <3>1, <3>2
  <2>2. DOMAIN ts = 1..Len(ts) /\ Len(ts) \in Nat /\ DOMAIN A = DOMAIN ts /\ A = [i \in DOMAIN ts |-> A[i]]
    OBVIOUS
  <2> HIDE DEF A
  <2> QED BY <2>1, <2>2
<1>4. B \in Seq(Entries) /\ \A i \in DOMAIN B : Plain(B[i])
  <2>1. \A i \in DOMAIN ts : Plain(B[i]) /\ B[i] \in Entries
    <3> SUFFICES ASSUME NEW i \in DOMAIN ts PROVE Plain(B[i])
      BY DEF Plain
    <3>1. ts[i] \in Tables /\ (i = Len(ts)) \in BOOLEAN
      OBVIOUS
    <3>2. B[i] = Entry("rows", ts[i], i = Len(ts))
      OBVIOUS
    <3> QED BY <1>1, <3>1, <3>2
  <2>2. DOMAIN ts = 1..Len(ts) /\ Len(ts) \in Nat /\ DOMAIN B = DOMAIN ts /\ B = [i \in DOMAIN ts |-> B[i]]
    OBVIOUS
  <2> HIDE DEF B
  <2> QED BY <2>1, <2>2
<1>5. C \in Seq(Entries) /\ \A i \in DOMAIN C : Plain(C[i])
  <2> DEFINE c == Entry("xid", NoTable, FALSE)
  <2>1. C = <<c>> /\ c \in Entries /\ Plain(c)
    BY <1>2 DEF Plain
  <2> HIDE DEF c, C
  <2> QED BY <2>1
<1>6. Statement(ts) = A \o B \o C
  BY DEF Statement
<1> HIDE DEF A, B, C
<1>7. ASSUME NEW a \in Seq(Entries), NEW b \in Seq(Entries), \A i \in DOMAIN a : Plain(a[i]), \A i \in DOMAIN b : Plain(b[i])
      PROVE  a \o b \in Seq(Entries) /\ \A i \in DOMAIN (a \o b) : Plain((a \o b)[i])
  <2>1. ASSUME NEW i \in DOMAIN (a \o b) PROVE Plain((a \o b)[i])
    <3>1. CASE i \in DOMAIN a
      BY <1>7, <3>1
    <3>2. CASE i \notin DOMAIN a
      <4>1. i - Len(a) \in DOMAIN b /\ (a \o b)[i] = b[i - Len(a)]
        BY <3>2
      <4> QED BY <1>7, <4>1
    <3> QED BY <3>1, <3>2
  <2> QED BY <2>1
<1>8. A \o B \in Seq(Entries) /\ \A i \in DOMAIN (A \o B) : Plain((A \o B)[i])
  BY <1>3, <1>4, <1>7
<1> QED BY <1>5, <1>6, <1>7, <1>8
-----------------------------------------------------------------------------
(* The stream.  Frontier is the place behind what has been sent; between    *)
(* it and what the server will send next there is at most the event in hand. *)
Streaming == spc \notin {"none", "ended"}
DumpPos == <<dump.file, dump.next + 3>>
Frontier == CASE spc = "push" -> Begins(hand) [] spc = "read" -> DumpPos [] OTHER -> nextPos

SyncerTypes ==
  /\ IsLog(log)
  /\ dump \in [hello : Seq(Events), file : Nat, next : Nat]
  /\ nextPos \in Positions /\ hand \in Events /\ bleChan \in Seq(Events) /\ pushed \in Seq(Positions)
  /\ spc \in {"none", "read", "push", "select", "lock", "ended"}

(* What the server sends next is behind nextPos; a connection that has not  *)
(* sent anything yet begins with a rotate event, which sets nextPos.        *)
DumpInv ==
  spc \in {"read", "push"} =>
    /\ IsPlace(DumpPos)
    /\ \A k \in DOMAIN dump.hello : dump.hello[k] \in {Artificial("rotate", DumpPos), Artificial("format", DumpPos)}
    /\ nextPos = NoPos => dump.hello # <<>> /\ dump.hello[1].kind = "rotate"
    /\ nextPos # NoPos => nextPos = DumpPos
PlaceInv ==
  /\ nextPos # NoPos => IsPlace(nextPos)
  /\ nextPos = NoPos => spc \in {"none", "read", "ended"} /\ bleChan = <<>> /\ pushed = <<>>
  /\ spc = "none" => nextPos = NoPos

(* The events in the channel and the one in hand join up.                   *)
ChanInv ==
  /\ \A k \in DOMAIN bleChan : IsEvent(bleChan[k])
  /\ \A k \in 1..(Len(bleChan) - 1) : Ends(bleChan[k]) = Begins(bleChan[k + 1])
  /\ Streaming /\ bleChan # <<>> => Ends(bleChan[Len(bleChan)]) = Frontier
  /\ spc = "push" => IsEvent(hand) /\ Ends(hand) = nextPos
PushedInv ==
  /\ \A k \in DOMAIN pushed : pushed[k] \in Ids
  /\ \A k \in 1..(Len(pushed) - 1) : pushed[k + 1] = Successor(pushed[k])
  /\ Streaming /\ pushed # <<>> => Behind(pushed[Len(pushed)]) = Frontier
SyncerInv == SyncerTypes /\ DumpInv /\ PlaceInv /\ ChanInv /\ PushedInv

(* Where the reader of the channel is.                                      *)
HasCursor == bleChan # <<>> \/ Streaming
Cursor == IF bleChan # <<>> THEN Begins(bleChan[1]) ELSE Frontier
StreamMoves == HasCursor' => HasCursor /\ Cursor' = Cursor

LEMMA CursorPlace ==
  ASSUME SyncerInv, HasCursor PROVE IsPlace(Cursor)
<1>1. CASE bleChan # <<>>
  <2>1. 1 \in DOMAIN bleChan
    BY SMTT(60), Z3T(60), <1>1 DEF SyncerInv, SyncerTypes
  <2>2. IsEvent(bleChan[1]) /\ IsLog(log)
    BY <2>1 DEF SyncerInv, SyncerTypes, ChanInv
  <2> QED BY <1>1, <2>2, EventFacts DEF Cursor
<1>2. CASE bleChan = <<>>
  <2>1. Streaming /\ Cursor = Frontier
    BY <1>2 DEF HasCursor, Cursor
  <2>2. CASE spc = "push"
    <3>1. IsEvent(hand) /\ IsLog(log) /\ Frontier = Begins(hand)
      BY <2>2 DEF SyncerInv, SyncerTypes, ChanInv, Frontier
    <3> QED BY <2>1, <3>1, EventFacts
  <2>3. CASE spc = "read"
    BY <2>1, <2>3 DEF SyncerInv, DumpInv, Frontier
  <2>4. CASE spc \notin {"push", "read"}
    <3>1. Frontier = nextPos /\ nextPos # NoPos
      BY <2>1, <2>4 DEF SyncerInv, PlaceInv, Frontier, Streaming
    <3> QED BY <2>1, <3>1 DEF SyncerInv, PlaceInv
  <2> QED BY <2>2, <2>3, <2>4
<1> QED BY <1>1, <1>2

(* A step that takes nothing in hand and sends nothing.                     *)
LEMMA StreamKept ==
  ASSUME SyncerInv, UNCHANGED <<log, nextPos, hand, bleChan, pushed>>,
         spc' \in {"none", "read", "push", "select", "lock", "ended"},
         Streaming' => Streaming /\ Frontier' = Frontier,
         spc' = "push" => spc = "push", spc' = "none" => spc = "none",
         nextPos = NoPos => spc' \in {"none", "read", "ended"},
         dump' \in [hello : Seq(Events), file : Nat, next : Nat], DumpInv'
  PROVE  SyncerInv' /\ StreamMoves
<1>1. SyncerTypes'
  BY DEF SyncerInv, SyncerTypes
<1>2. PlaceInv'
  BY DEF SyncerInv, PlaceInv, IsPlace, InLog
<1>3. \A e : (IsEvent(e)' <=> IsEvent(e)) /\ Begins(e)' = Begins(e) /\ Ends(e)' = Ends(e)
  BY SMTT(60), Z3T(60) DEF IsEvent, Written, Made, IsPlace, InLog, Ids, At, Begins, Ends, Behind
<1>4. ChanInv'
  BY <1>3 DEF SyncerInv, ChanInv
<1>5. \A id : (id \in Ids' <=> id \in Ids) /\ Successor(id)' = Successor(id) /\ Behind(id)' = Behind(id)
  BY SMTT(60), Z3T(60) DEF Ids, Successor, Behind
<1>6. PushedInv'
  BY <1>5 DEF SyncerInv, PushedInv
<1>7. StreamMoves
  BY <1>3 DEF StreamMoves, HasCursor, Cursor
<1> QED BY <1>1, <1>2, <1>4, <1>6, <1>7 DEF SyncerInv

LEMMA NewDump ==
  ASSUME NEW p, IsPlace(p), dump' = DumpFrom(p), log' = log
  PROVE  /\ dump' \in [hello : Seq(Events), file : Nat, next : Nat] /\ DumpPos' = p /\ IsPlace(DumpPos)'
         /\ \A k \in DOMAIN dump'.hello : dump'.hello[k] \in {Artificial("rotate", p), Artificial("format", p)}
         /\ dump'.hello # <<>> /\ dump'.hello[1].kind = "rotate"
<1>1. p \in Positions /\ p[1] \in Nat /\ p[2] \in Nat /\ p[2] >= 4 /\ p = <<p[1], p[2]>>
  BY DEF IsPlace, InLog, Positions
<1>2. Artificial("rotate", p) \in Events /\ Artificial("format", p) \in Events /\ Artificial("rotate", p).kind = "rotate"
  BY SMTT(60), Z3T(60), <1>1, ArtificialFacts DEF Kinds
<1> DEFINE a == Artificial("rotate", p)
           b == Artificial("format", p)
<1>3. /\ dump'.hello = <<a>> \/ dump'.hello = <<a, b>>
      /\ dump'.file = p[1] /\ dump'.next = p[2] - 3
      /\ dump' = [hello |-> dump'.hello, file |-> dump'.file, next |-> dump'.next]
  <2>1. dump' = [hello |-> IF p[2] > 4 THEN <<a, b>> ELSE <<a>>, file |-> p[1], next |-> p[2] - 3]
    BY DEF DumpFrom
  <2> HIDE DEF a, b
  <2> QED BY <2>1
<1>4. /\ dump'.hello \in Seq(Events) /\ dump'.hello # <<>> /\ dump'.hello[1].kind = "rotate"
      /\ \A k \in DOMAIN dump'.hello : dump'.hello[k] \in {Artificial("rotate", p), Artificial("format", p)}
  <2>1. a \in Events /\ b \in Events /\ a.kind = "rotate"
    BY <1>2
  <2> HIDE DEF a, b
  <2>2. /\ dump'.hello \in Seq(Events) /\ dump'.hello # <<>> /\ dump'.hello[1] = a
        /\ \A k \in DOMAIN dump'.hello : dump'.hello[k] \in {a, b}
    <3> SUFFICES ASSUME NEW h, h = <<a>> \/ h = <<a, b>>
                 PROVE  h \in Seq(Events) /\ h # <<>> /\ h[1] = a /\ \A k \in DOMAIN h : h[k] \in {a, b}
      BY <1>3
    <3>1. CASE h = <<a>>
      BY <2>1, <3>1
    <3>2. CASE h = <<a, b>>
      BY <2>1, <3>2
    <3> QED BY <3>1, <3>2
  <2>3. /\ dump'.hello \in Seq(Events) /\ dump'.hello # <<>> /\ dump'.hello[1].kind = "rotate"
        /\ \A k \in DOMAIN dump'.hello : dump'.hello[k] \in {a, b}
    BY <2>1, <2>2
  <2> QED BY <2>3 DEF a, b
<1>5. dump'.file \in Nat /\ dump'.next \in Nat
  BY <1>1, <1>3
<1>6. dump' \in [hello : Seq(Events), file : Nat, next : Nat]
  BY <1>3, <1>4, <1>5
<1>7. DumpPos' = p
  BY <1>1, <1>3 DEF DumpPos
<1> QED BY <1>4, <1>6, <1>7 DEF IsPlace, InLog
-----------------------------------------------------------------------------
(* The steps of the stream.                                                 *)
LEMMA EndStreamInv ==
  ASSUME SyncerInv, EndStream, UNCHANGED nextPos, dump' \in [hello : Seq(Events), file : Nat, next : Nat]
  PROVE  SyncerInv' /\ StreamMoves
<1>1. spc' = "ended" /\ UNCHANGED <<log, nextPos, hand, bleChan, pushed>>
  BY DEF EndStream
<1>2. DumpInv' /\ ~Streaming'
  BY <1>1 DEF DumpInv, Streaming
<1> QED BY <1>1, <1>2, StreamKept

LEMMA NextDump ==
  ASSUME SyncerInv, spc = "read", HasPacket
  PROVE  /\ IsEvent(Packet) /\ Begins(Packet) = DumpPos /\ (nextPos = NoPos => Packet.kind = "rotate")
         /\ dump' = AfterPacket => /\ dump' \in [hello : Seq(Events), file : Nat, next : Nat] /\ DumpPos' = Ends(Packet)
                                   /\ \A k \in DOMAIN dump'.hello :
                                        dump'.hello[k] \in {Artificial("rotate", DumpPos'), Artificial("format", DumpPos')}
         /\ nextPos = NoPos \/ nextPos = DumpPos
<1> DEFINE P == DumpPos
<1>1. /\ IsLog(log) /\ dump \in [hello : Seq(Events), file : Nat, next : Nat] /\ IsPlace(P) /\ P = <<dump.file, dump.next + 3>>
      /\ \A k \in DOMAIN dump.hello : dump.hello[k] \in {Artificial("rotate", P), Artificial("format", P)}
      /\ nextPos = NoPos => dump.hello # <<>> /\ dump.hello[1].kind = "rotate"
      /\ nextPos # NoPos => nextPos = P
  BY DEF SyncerInv, SyncerTypes, DumpInv, DumpPos
<1>2. /\ dump.hello \in Seq(Events) /\ dump.file \in Nat /\ dump.next \in Nat
      /\ dump = [hello |-> dump.hello, file |-> dump.file, next |-> dump.next]
  BY <1>1
<1> HIDE DEF P
<1>3. CASE dump.hello # <<>>
  <2>1. Packet = dump.hello[1] /\ Packet \in {Artificial("rotate", P), Artificial("format", P)}
    BY SMTT(60), Z3T(60), <1>1, <1>2, <1>3 DEF Packet
  <2>2. Packet.to = P /\ Packet.id = NoPos
    BY <2>1 DEF Artificial
  <2>3. Made(Packet) /\ Begins(Packet) = P /\ Ends(Packet) = P
    BY <1>1, <2>1, <2>2 DEF Made, Begins, Ends
  <2>4. ASSUME dump' = AfterPacket
        PROVE  /\ dump' \in [hello : Seq(Events), file : Nat, next : Nat] /\ DumpPos' = P
               /\ \A k \in DOMAIN dump'.hello : dump'.hello[k] \in {Artificial("rotate", P), Artificial("format", P)}
    <3>1. dump' = [hello |-> Tail(dump.hello), file |-> dump.file, next |-> dump.next]
      BY <1>2, <1>3, <2>4 DEF AfterPacket
    <3>2. /\ Tail(dump.hello) \in Seq(Events)
          /\ \A k \in DOMAIN Tail(dump.hello) : k + 1 \in DOMAIN dump.hello /\ Tail(dump.hello)[k] = dump.hello[k + 1]
      BY <1>2, <1>3
    <3>3. DumpPos' = P
      BY <1>1, <3>1 DEF DumpPos
    <3> QED BY <1>1, <1>2, <3>1, <3>2, <3>3
  <2> QED BY <1>1, <2>1, <2>3, <2>4 DEF IsEvent, P
<1>4. CASE dump.hello = <<>>
  <2> DEFINE f == dump.file
             i == dump.next
  <2>1. f \in DOMAIN log /\ i \in DOMAIN log[f] /\ i <= Len(log[f])
    <3>1. f \in DOMAIN log /\ i + 3 >= 4
      BY <1>1, <1>2 DEF IsPlace, InLog
    <3>2. i <= Len(log[f])
      BY <1>4 DEF HasPacket
    <3> QED BY SMTT(60), Z3T(60), <1>1, <1>2, <3>1, <3>2 DEF IsLog
  <2>2. Packet = At(f, i) /\ Packet.id = <<f, i>>
    BY <1>4 DEF Packet, At
  <2>3. <<f, i>> \in Ids
    BY <1>1, <1>2, <2>1, IdFacts DEF Positions
  <2>4. Written(Packet)
    BY <2>2, <2>3 DEF Written
  <2>5. /\ Begins(Packet) = <<f, 3 + i>> /\ Ends(Packet) = IF Packet.kind = "rotate" THEN <<f + 1, 4>> ELSE <<f, 4 + i>>
        /\ Packet.to = IF Packet.kind = "rotate" THEN <<f + 1, 4>> ELSE NoPos
    BY SMTT(60), Z3T(60), <1>1, <2>2, <2>4, WrittenFacts DEF EndOf
  <2>6. Begins(Packet) = P
    BY SMTT(60), Z3T(60), <1>1, <1>2, <2>5
  <2>7. ASSUME dump' = AfterPacket
        PROVE  /\ dump' \in [hello : Seq(Events), file : Nat, next : Nat] /\ DumpPos' = Ends(Packet)
               /\ \A k \in DOMAIN dump'.hello :
                    dump'.hello[k] \in {Artificial("rotate", DumpPos'), Artificial("format", DumpPos')}
    <3>1. CASE Packet.kind = "rotate"
      <4>1. dump' = [hello |-> <<Artificial("rotate", <<f + 1, 4>>)>>, file |-> f + 1, next |-> 1]
        BY <1>4, <2>5, <2>7, <3>1 DEF AfterPacket
      <4>2. DumpPos' = <<f + 1, 4>> /\ DumpPos' = Ends(Packet)
        BY <1>2, <2>5, <3>1, <4>1 DEF DumpPos
      <4>3. Artificial("rotate", <<f + 1, 4>>) \in Events
        <5>1. <<f + 1, 4>> \in Positions
          BY <1>2 DEF Positions
        <5> QED BY <5>1, ArtificialFacts DEF Kinds
      <4> QED BY <1>2, <4>1, <4>2, <4>3
    <3>2. CASE Packet.kind # "rotate"
      <4>1. dump' = [hello |-> <<>>, file |-> f, next |-> i + 1]
        BY <1>2, <1>4, <2>7, <3>2 DEF AfterPacket
      <4>2. DumpPos' = Ends(Packet)
        BY <1>2, <2>5, <3>2, <4>1 DEF DumpPos
      <4> QED BY <1>2, <4>1, <4>2
    <3> QED BY <3>1, <3>2
  <2> QED BY <1>1, <1>4, <2>4, <2>6, <2>7 DEF IsEvent, P
<1> QED BY <1>3, <1>4

LEMMA ReadEventInv ==
  ASSUME SyncerInv, ReadEvent PROVE SyncerInv' /\ StreamMoves
<1>1. spc = "read" /\ HasPacket /\ dump' = AfterPacket
  BY DEF ReadEvent
<1>2. /\ IsEvent(Packet) /\ Begins(Packet) = DumpPos /\ (nextPos = NoPos => Packet.kind = "rotate")
      /\ dump' \in [hello : Seq(Events), file : Nat, next : Nat] /\ DumpPos' = Ends(Packet)
      /\ \A k \in DOMAIN dump'.hello : dump'.hello[k] \in {Artificial("rotate", DumpPos'), Artificial("format", DumpPos')}
      /\ nextPos = NoPos \/ nextPos = DumpPos
  BY <1>1, NextDump
<1>3. IsLog(log) /\ Packet \in Events /\ IsPlace(Ends(Packet)) /\ IsPlace(DumpPos)
  BY <1>2, EventFacts DEF SyncerInv, SyncerTypes
<1>4. CASE ~parses(Packet)
  BY <1>2, <1>4, EndStreamInv DEF ReadEvent
<1>5. CASE parses(Packet)
  <2>1. Advance(Packet) /\ hand' = Packet /\ spc' = "push" /\ UNCHANGED <<log, bleChan, pushed>>
    BY <1>5 DEF ReadEvent
  <2>2. nextPos' = Ends(Packet)
    <3>1. CASE Written(Packet)
      <4>1. /\ Packet.to = (IF Packet.kind = "rotate" THEN <<Packet.id[1] + 1, 4>> ELSE NoPos)
            /\ Ends(Packet) = IF Packet.kind = "rotate" THEN <<Packet.id[1] + 1, 4>> ELSE EndOf(Packet.id)
            /\ Packet.logPos = 4 + Packet.id[2] /\ Begins(Packet) = <<Packet.id[1], 3 + Packet.id[2]>>
            /\ Packet.id \in Ids
        BY <1>3, <3>1, WrittenFacts
      <4>2. Packet.id[2] \in Nat
        BY <1>3, <4>1, IdTypes
      <4>3. CASE Packet.kind = "rotate"
        BY <2>1, <4>1, <4>3 DEF Advance
      <4>4. CASE Packet.kind # "rotate"
        <5>1. nextPos = Begins(Packet)
          BY <1>2, <4>4
        <5> QED BY <2>1, <4>1, <4>2, <4>4, <5>1 DEF Advance, EndOf
      <4> QED BY <4>3, <4>4
    <3>2. CASE Made(Packet)
      <4>1. Packet.logPos = 0 /\ Begins(Packet) = Packet.to /\ Ends(Packet) = Packet.to
        BY <3>2, MadeFacts
      <4>2. CASE Packet.kind = "rotate"
        BY <2>1, <4>1, <4>2 DEF Advance
      <4>3. CASE Packet.kind # "rotate"
        BY SMTT(60), Z3T(60), <1>2, <2>1, <4>1, <4>3 DEF Advance
      <4> QED BY <4>2, <4>3
    <3> QED BY <1>2, <3>1, <3>2 DEF IsEvent
  <2>3. nextPos' \in Positions /\ nextPos' # NoPos /\ IsPlace(nextPos)' /\ IsPlace(DumpPos)'
    BY SMTT(60), Z3T(60), <1>2, <1>3, <2>1, <2>2 DEF IsPlace, InLog, NoPos
  <2>4. SyncerTypes'
    BY <1>2, <1>3, <2>1, <2>3 DEF SyncerInv, SyncerTypes
  <2>5. DumpInv' /\ PlaceInv'
    BY <1>2, <2>1, <2>2, <2>3 DEF DumpInv, PlaceInv
  <2>6. \A e : (IsEvent(e)' <=> IsEvent(e)) /\ Begins(e)' = Begins(e) /\ Ends(e)' = Ends(e)
    BY SMTT(60), Z3T(60), <2>1 DEF IsEvent, Written, Made, IsPlace, InLog, Ids, At, Begins, Ends, Behind
  <2>7. Frontier = DumpPos /\ Frontier' = Begins(hand)' /\ Streaming
    BY <1>1, <2>1 DEF Frontier, Streaming
  <2>8. Begins(hand)' = Begins(Packet)
    BY <2>1 DEF Begins
  <2>9. Frontier' = Frontier
    BY <1>2, <2>7, <2>8
  <2>10. IsEvent(hand)' /\ Ends(hand)' = nextPos'
    BY <1>2, <2>1, <2>2, <2>6 DEF IsEvent, Written, Made, IsPlace, InLog, Ids, At, Ends, Behind
  <2>11. ChanInv'
    BY <2>1, <2>6, <2>7, <2>9, <2>10 DEF SyncerInv, ChanInv
  <2>12. \A id : (id \in Ids' <=> id \in Ids) /\ Successor(id)' = Successor(id) /\ Behind(id)' = Behind(id)
    BY SMTT(60), Z3T(60), <2>1 DEF Ids, Successor, Behind
  <2>13. PushedInv'
    BY <2>1, <2>7, <2>9, <2>12 DEF SyncerInv, PushedInv
  <2>14. StreamMoves
    BY <2>1, <2>6, <2>7, <2>9 DEF StreamMoves, HasCursor, Cursor
  <2> QED BY <2>4, <2>5, <2>11, <2>13, <2>14 DEF SyncerInv
<1> QED BY <1>4, <1>5

LEMMA NextOne ==
  ASSUME IsLog(log), NEW id \in Ids, NEW e, Written(e), Begins(e) = Behind(id)
  PROVE  e.id = Successor(id)
<1> DEFINE f == e.id[1]
           i == e.id[2]
<1>1. e.id \in Ids /\ Begins(e) = <<f, 3 + i>>
  BY WrittenFacts
<1>2. /\ e.id = <<f, i>> /\ f \in Nat /\ i \in Nat /\ i <= Len(log[f]) /\ i >= 1 /\ f <= Len(log) /\ Len(log[f]) \in Nat
  BY SMTT(60), Z3T(60), <1>1, IdTypes
<1>3. /\ id[1] \in Nat /\ id[2] \in Nat /\ id[1] \in DOMAIN log /\ id[2] \in DOMAIN log[id[1]] /\ Len(log[id[1]]) \in Nat
  BY IdTypes
<1> HIDE DEF f, i
<1>4. CASE log[id[1]][id[2]].kind = "rotate"
  <2>1. id[2] = Len(log[id[1]])
    BY <1>3, <1>4 DEF IsLog
  <2>2. <<f, 3 + i>> = <<id[1] + 1, 4>>
    BY <1>1, <1>4 DEF Behind
  <2>3. f = id[1] + 1 /\ i = 1
    BY <1>2, <2>2
  <2>4. Successor(id) = <<id[1] + 1, 1>>
    BY <1>3, <2>1 DEF Successor
  <2> QED BY <1>2, <2>3, <2>4
<1>5. CASE log[id[1]][id[2]].kind # "rotate"
  <2>1. <<f, 3 + i>> = <<id[1], 4 + id[2]>>
    BY <1>1, <1>5 DEF Behind
  <2>2. f = id[1] /\ i = id[2] + 1
    BY <1>2, <1>3, <2>1
  <2>3. id[2] < Len(log[id[1]])
    BY <1>2, <1>3, <2>2
  <2> QED BY <1>2, <2>2, <2>3 DEF Successor
<1> QED BY <1>4, <1>5

LEMMA SendEventInv ==
  ASSUME SyncerInv, SendEvent PROVE SyncerInv' /\ StreamMoves
<1>1. /\ spc = "push" /\ spc' = "read" /\ bleChan' = Append(bleChan, hand) /\ UNCHANGED <<log, dump, nextPos, hand>>
      /\ pushed' = IF hand.id = NoPos THEN pushed ELSE Append(pushed, hand.id)
  BY DEF SendEvent, serverVars
<1>2. /\ SyncerTypes /\ IsLog(log) /\ hand \in Events /\ bleChan \in Seq(Events) /\ pushed \in Seq(Positions)
      /\ IsEvent(hand) /\ Ends(hand) = nextPos /\ nextPos # NoPos /\ nextPos = DumpPos /\ IsPlace(nextPos)
      /\ Frontier = Begins(hand) /\ Streaming
  BY <1>1 DEF SyncerInv, SyncerTypes, ChanInv, PlaceInv, DumpInv, Frontier, Streaming
<1>3. hand.id \in Positions
  BY <1>2 DEF Events
<1>14. bleChan' \in Seq(Events) /\ Longer(bleChan, hand, bleChan')
  BY <1>1, <1>2, Appended
<1>4. /\ bleChan' \in Seq(Events) /\ Len(bleChan') = Len(bleChan) + 1 /\ bleChan'[Len(bleChan) + 1] = hand
      /\ \A k \in DOMAIN bleChan : bleChan'[k] = bleChan[k]
      /\ DOMAIN bleChan' = 1..(Len(bleChan) + 1) /\ DOMAIN bleChan = 1..Len(bleChan) /\ Len(bleChan) \in Nat
  BY <1>14 DEF Longer
<1>0. /\ \A k \in 1..(Len(bleChan') - 1) :
           /\ k \in DOMAIN bleChan /\ bleChan'[k] = bleChan[k]
           /\ k = Len(bleChan) => bleChan # <<>> /\ bleChan'[k + 1] = hand
           /\ k # Len(bleChan) => k \in 1..(Len(bleChan) - 1) /\ bleChan'[k + 1] = bleChan[k + 1]
  BY <1>14 DEF Longer
<1>5. SyncerTypes'
  BY SMTT(60), Z3T(60), <1>1, <1>2, <1>3, <1>4 DEF SyncerTypes
<1>6. DumpPos' = DumpPos /\ DumpInv'
  BY <1>1, <1>2 DEF SyncerInv, DumpInv, DumpPos, IsPlace, InLog
<1>7. PlaceInv'
  BY <1>1, <1>2 DEF PlaceInv, IsPlace, InLog
<1>8. \A e : (IsEvent(e)' <=> IsEvent(e)) /\ Begins(e)' = Begins(e) /\ Ends(e)' = Ends(e)
  BY SMTT(60), Z3T(60), <1>1 DEF IsEvent, Written, Made, IsPlace, InLog, Ids, At, Begins, Ends, Behind
<1>9. Frontier' = nextPos /\ bleChan' # <<>> /\ Streaming'
  BY <1>1, <1>2, <1>4, <1>6 DEF Frontier, Streaming
<1>10. ChanInv'
  <2>1. \A k \in DOMAIN bleChan' : IsEvent(bleChan'[k])
    BY <1>2, <1>4, <1>8 DEF SyncerInv, ChanInv
  <2>2. ASSUME NEW k \in 1..(Len(bleChan') - 1) PROVE Ends(bleChan'[k]) = Begins(bleChan'[k + 1])
    <3>1. CASE k = Len(bleChan)
      <4>1. bleChan # <<>> /\ bleChan'[k] = bleChan[k] /\ bleChan'[k + 1] = hand
        BY <1>0, <2>2, <3>1
      <4> QED BY <1>2, <3>1, <4>1 DEF SyncerInv, ChanInv
    <3>2. CASE k # Len(bleChan)
      <4>1. k \in 1..(Len(bleChan) - 1) /\ bleChan'[k] = bleChan[k] /\ bleChan'[k + 1] = bleChan[k + 1]
        BY <1>0, <2>2, <3>2
      <4> QED BY <4>1 DEF SyncerInv, ChanInv
    <3> QED BY <3>1, <3>2
  <2>3. Ends(bleChan'[Len(bleChan')]) = Frontier'
    BY <1>2, <1>4, <1>9
  <2> QED BY <1>1, <1>8, <2>1, <2>2, <2>3 DEF ChanInv
<1>11. \A id : (id \in Ids' <=> id \in Ids) /\ Successor(id)' = Successor(id) /\ Behind(id)' = Behind(id)
  BY SMTT(60), Z3T(60), <1>1 DEF Ids, Successor, Behind
<1>12. PushedInv'
  <2>1. CASE hand.id = NoPos
    <3>1. pushed' = pushed /\ Begins(hand) = Ends(hand)
      BY <1>1, <2>1 DEF Begins, Ends
    <3> QED BY <1>2, <1>9, <1>11, <3>1 DEF SyncerInv, PushedInv
  <2>2. CASE hand.id # NoPos
    <3>1. Written(hand)
      BY <1>2, <2>2, MadeFacts DEF IsEvent
    <3>2. hand.id \in Ids /\ Behind(hand.id) = nextPos
      BY <1>2, <2>2, <3>1 DEF Written, Ends
    <3>7. Longer(pushed, hand.id, pushed')
      BY <1>1, <1>2, <1>3, <2>2, Appended
    <3>3. /\ Len(pushed') = Len(pushed) + 1 /\ pushed'[Len(pushed) + 1] = hand.id
          /\ \A k \in DOMAIN pushed : pushed'[k] = pushed[k]
          /\ DOMAIN pushed' = 1..(Len(pushed) + 1) /\ DOMAIN pushed = 1..Len(pushed) /\ Len(pushed) \in Nat
      BY <3>7 DEF Longer
    <3>0. /\ \A k \in 1..(Len(pushed') - 1) :
               /\ k \in DOMAIN pushed /\ pushed'[k] = pushed[k]
               /\ k = Len(pushed) => pushed # <<>> /\ pushed'[k + 1] = hand.id
               /\ k # Len(pushed) => k \in 1..(Len(pushed) - 1) /\ pushed'[k + 1] = pushed[k + 1]
      BY <3>7 DEF Longer
    <3>4. \A k \in DOMAIN pushed' : pushed'[k] \in Ids
      BY SMTT(60), Z3T(60), <3>2, <3>3 DEF SyncerInv, PushedInv
    <3>5. ASSUME NEW k \in 1..(Len(pushed') - 1) PROVE pushed'[k + 1] = Successor(pushed'[k])
      <4>1. CASE k = Len(pushed)
        <5>1. pushed # <<>> /\ pushed'[k] = pushed[k] /\ pushed'[k + 1] = hand.id /\ k \in DOMAIN pushed
          BY <3>0, <3>5, <4>1
        <5>2. pushed[k] \in Ids /\ Behind(pushed[k]) = Begins(hand)
          BY <1>2, <4>1, <5>1 DEF SyncerInv, PushedInv
        <5> QED BY <1>2, <3>1, <5>1, <5>2, NextOne
      <4>2. CASE k # Len(pushed)
        <5>1. k \in 1..(Len(pushed) - 1) /\ pushed'[k] = pushed[k] /\ pushed'[k + 1] = pushed[k + 1]
          BY <3>0, <3>5, <4>2
        <5> QED BY <5>1 DEF SyncerInv, PushedInv
      <4> QED BY <4>1, <4>2
    <3>6. Behind(pushed'[Len(pushed')]) = Frontier'
      BY <1>9, <3>2, <3>3
    <3> QED BY <1>11, <3>4, <3>5, <3>6 DEF PushedInv
  <2> QED BY <2>1, <2>2
<1>13. StreamMoves
  <2>1. Cursor' = Begins(bleChan'[1])
    BY <1>8, <1>9 DEF Cursor
  <2>2. CASE bleChan = <<>>
    BY SMTT(60), Z3T(60), <1>2, <1>4, <2>1, <2>2 DEF StreamMoves, HasCursor, Cursor
  <2>3. CASE bleChan # <<>>
    <3>1. bleChan'[1] = bleChan[1]
      BY SMTT(60), Z3T(60), <1>2, <1>4, <2>3
    <3> QED BY <2>1, <2>3, <3>1 DEF StreamMoves, HasCursor, Cursor
  <2> QED BY <2>2, <2>3
<1> QED BY <1>5, <1>6, <1>7, <1>10, <1>12, <1>13 DEF SyncerInv

(* The others leave what was sent and what is in hand alone.                *)
LEMMA OtherStreamSteps ==
  ASSUME SyncerInv,
         \/ StopSending \/ ReadError \/ ReadFails \/ GiveUp \/ Wake \/ \E ok \in BOOLEAN : retrySync(ok)
  PROVE  SyncerInv' /\ StreamMoves
<1>1. dump \in [hello : Seq(Events), file : Nat, next : Nat] /\ (nextPos = NoPos => spc \in {"none", "read", "ended"})
  BY DEF SyncerInv, SyncerTypes, PlaceInv
<1>2. CASE StopSending
  BY <1>1, <1>2, EndStreamInv DEF StopSending
<1>3. CASE ReadError
  BY <1>1, <1>3, EndStreamInv DEF ReadError
<1>4. CASE GiveUp
  BY <1>1, <1>4, EndStreamInv DEF GiveUp
<1>5. CASE ReadFails
  <2>1. CASE nextPos[1] = 0
    BY <1>1, <1>5, <2>1, EndStreamInv DEF ReadFails
  <2>2. CASE nextPos[1] # 0
    <3>1. spc = "read" /\ spc' = "select" /\ UNCHANGED <<log, dump, nextPos, hand, bleChan, pushed>> /\ nextPos # NoPos
      BY <1>5, <2>2 DEF ReadFails, NoPos
    <3>2. nextPos = DumpPos
      BY <3>1 DEF SyncerInv, DumpInv
    <3>3. Streaming /\ Frontier' = Frontier
      BY <3>1, <3>2 DEF Streaming, Frontier
    <3>4. DumpInv'
      BY <3>1 DEF DumpInv
    <3> QED BY <1>1, <3>1, <3>3, <3>4, StreamKept
  <2> QED BY <2>1, <2>2
<1>6. CASE Wake
  <2>1. spc = "select" /\ spc' = "lock" /\ UNCHANGED <<log, dump, nextPos, hand, bleChan, pushed>> /\ nextPos # NoPos
    BY <1>1, <1>6 DEF Wake
  <2>2. Streaming /\ Frontier' = Frontier /\ DumpInv'
    BY <2>1 DEF Streaming, Frontier, DumpInv
  <2> QED BY <1>1, <2>1, <2>2, StreamKept
<1>7. ASSUME NEW ok \in BOOLEAN, retrySync(ok) PROVE SyncerInv' /\ StreamMoves
  <2>1. spc = "lock" /\ UNCHANGED <<log, nextPos, hand, bleChan, pushed>> /\ nextPos # NoPos
    BY <1>1, <1>7 DEF retrySync
  <2>2. CASE ok /\ ~ctxDone
    <3>1. IsPlace(nextPos) /\ nextPos = <<nextPos[1], nextPos[2]>> /\ nextPos[2] \in Nat /\ nextPos[2] >= 4
      BY <2>1 DEF SyncerInv, PlaceInv, IsPlace, InLog, Positions
    <3>2. dump' = DumpFrom(nextPos) /\ spc' = "read"
      BY <1>7, <2>2, <3>1 DEF retrySync, prepareSyncPos
    <3>3. /\ dump' \in [hello : Seq(Events), file : Nat, next : Nat] /\ DumpPos' = nextPos /\ IsPlace(DumpPos)'
          /\ \A k \in DOMAIN dump'.hello : dump'.hello[k] \in {Artificial("rotate", nextPos), Artificial("format", nextPos)}
      BY <2>1, <3>1, <3>2, NewDump
    <3>4. Streaming /\ Frontier' = Frontier /\ DumpInv'
      BY <2>1, <3>2, <3>3 DEF Streaming, Frontier, DumpInv
    <3> QED BY <2>1, <3>2, <3>3, <3>4, StreamKept
  <2>3. CASE ~(ok /\ ~ctxDone)
    <3>1. spc' = "select" /\ UNCHANGED dump
      BY <1>7, <2>3 DEF retrySync, prepareSyncPos
    <3>2. Streaming /\ Frontier' = Frontier /\ DumpInv'
      BY <2>1, <3>1 DEF Streaming, Frontier, DumpInv
    <3> QED BY <1>1, <2>1, <3>1, <3>2, StreamKept
  <2> QED BY <2>2, <2>3
<1> QED BY <1>2, <1>3, <1>4, <1>5, <1>6, <1>7

LEMMA StartSyncInv ==
  ASSUME SyncerInv, spc = "none", NEW p, IsPlace(p), StartSync(p)
  PROVE  SyncerInv' /\ HasCursor' /\ Cursor' = p
<1>1. /\ spc' = "read" /\ UNCHANGED <<log, nextPos, hand, bleChan, pushed>>
      /\ nextPos = NoPos /\ bleChan = <<>> /\ pushed = <<>>
  BY DEF StartSync, SyncerInv, PlaceInv
<1>2. p = <<p[1], p[2]>> /\ p[2] \in Nat /\ p[2] >= 4
  BY DEF IsPlace, InLog, Positions
<1>3. dump' = DumpFrom(p)
  BY <1>2 DEF StartSync, prepareSyncPos
<1>4. /\ dump' \in [hello : Seq(Events), file : Nat, next : Nat] /\ DumpPos' = p /\ IsPlace(DumpPos)'
      /\ \A k \in DOMAIN dump'.hello : dump'.hello[k] \in {Artificial("rotate", p), Artificial("format", p)}
      /\ dump'.hello # <<>> /\ dump'.hello[1].kind = "rotate"
  BY <1>1, <1>3, NewDump
<1>5. SyncerTypes' /\ DumpInv' /\ PlaceInv'
  BY <1>1, <1>4 DEF SyncerInv, SyncerTypes, DumpInv, PlaceInv
<1>6. ChanInv' /\ PushedInv'
  BY <1>1 DEF ChanInv, PushedInv
<1>7. HasCursor' /\ Cursor' = p
  BY <1>1, <1>4 DEF HasCursor, Cursor, Streaming, Frontier
<1> QED BY <1>5, <1>6, <1>7 DEF SyncerInv

LEMMA FirstDump ==
  Artificial("none", NoPos) \in Events /\ DumpFrom(<<1, 4>>) \in [hello : Seq(Events), file : Nat, next : Nat]
<1>1. NoPos \in Positions /\ <<1, 4>> \in Positions
  BY DEF NoPos, Positions
<1> DEFINE a == Artificial("rotate", <<1, 4>>)
           h == <<a>>
<1>2. Artificial("none", NoPos) \in Events /\ a \in Events
  BY <1>1, ArtificialFacts DEF Kinds
<1>3. DumpFrom(<<1, 4>>) = [hello |-> h, file |-> 1, next |-> 1]
  BY DEF DumpFrom
<1> HIDE DEF a
<1>4. h \in Seq(Events)
  BY <1>2
<1> HIDE DEF h
<1> QED BY <1>2, <1>3, <1>4

LEMMA SyncerBegins ==
  ASSUME NewSyncer, IsLog(log') PROVE SyncerInv'
<1>4. SyncerTypes'
  BY FirstDump DEF NewSyncer, SyncerTypes, NoPos, Positions
<1>5. DumpInv' /\ PlaceInv'
  BY DEF NewSyncer, DumpInv, PlaceInv
<1>6. ChanInv' /\ PushedInv'
  BY DEF NewSyncer, ChanInv, PushedInv
<1> QED BY <1>4, <1>5, <1>6 DEF SyncerInv

LEMMA SyncerInitInv ==
  ASSUME SyncerInit, IsLog(log) PROVE SyncerInv
<1>4. SyncerTypes
  BY FirstDump DEF SyncerInit, SyncerTypes, NoPos, Positions
<1>5. DumpInv /\ PlaceInv /\ ChanInv /\ PushedInv
  BY DEF SyncerInit, DumpInv, PlaceInv, ChanInv, PushedInv
<1> QED BY <1>4, <1>5 DEF SyncerInv

(* The canal takes an event: its cursor moves behind it.                    *)
LEMMA TakeInv ==
  ASSUME SyncerInv, bleChan # <<>>, bleChan' = Tail(bleChan), UNCHANGED <<log, dump, nextPos, spc, hand, pushed>>
  PROVE  SyncerInv' /\ (HasCursor' => Cursor' = Ends(bleChan[1]))
<1>1. bleChan \in Seq(Events) /\ IsLog(log) /\ SyncerTypes
  BY DEF SyncerInv, SyncerTypes
<1>2. /\ bleChan' \in Seq(Events) /\ Len(bleChan') = Len(bleChan) - 1 /\ Len(bleChan) \in Nat /\ Len(bleChan) >= 1
      /\ DOMAIN bleChan' = 1..(Len(bleChan) - 1) /\ DOMAIN bleChan = 1..Len(bleChan)
      /\ \A k \in 1..(Len(bleChan) - 1) : bleChan'[k] = bleChan[k + 1]
  BY <1>1
<1>3. SyncerTypes'
  BY <1>1, <1>2 DEF SyncerTypes
<1>4. DumpInv' /\ PlaceInv'
  BY DEF SyncerInv, DumpInv, PlaceInv, DumpPos, IsPlace, InLog
<1>5. \A e : (IsEvent(e)' <=> IsEvent(e)) /\ Begins(e)' = Begins(e) /\ Ends(e)' = Ends(e)
  BY SMTT(60), Z3T(60) DEF IsEvent, Written, Made, IsPlace, InLog, Ids, At, Begins, Ends, Behind
<1>6. Frontier' = Frontier /\ (Streaming' <=> Streaming)
  BY <1>5 DEF Frontier, DumpPos, Streaming
<1>7. ChanInv'
  <2>1. \A k \in DOMAIN bleChan' : IsEvent(bleChan'[k])
    BY <1>2 DEF SyncerInv, ChanInv
  <2>2. ASSUME NEW k \in 1..(Len(bleChan') - 1) PROVE Ends(bleChan'[k]) = Begins(bleChan'[k + 1])
    <3>1. /\ k + 1 \in 1..(Len(bleChan) - 1) /\ k \in 1..(Len(bleChan) - 1)
          /\ bleChan'[k] = bleChan[k + 1] /\ bleChan'[k + 1] = bleChan[(k + 1) + 1]
      BY <1>2
    <3> QED BY <3>1 DEF SyncerInv, ChanInv
  <2>3. ASSUME Streaming, bleChan' # <<>> PROVE Ends(bleChan'[Len(bleChan')]) = Frontier
    <3>1. Len(bleChan) - 1 >= 1
      BY <1>2, <2>3
    <3>2. bleChan'[Len(bleChan')] = bleChan[Len(bleChan)]
      BY SMTT(60), Z3T(60), <1>2, <3>1
    <3> QED BY <2>3, <3>2 DEF SyncerInv, ChanInv
  <2> QED BY <1>5, <1>6, <2>1, <2>2, <2>3 DEF SyncerInv, ChanInv
<1>8. \A id : (id \in Ids' <=> id \in Ids) /\ Successor(id)' = Successor(id) /\ Behind(id)' = Behind(id)
  BY SMTT(60), Z3T(60) DEF Ids, Successor, Behind
<1>9. PushedInv'
  BY <1>6, <1>8 DEF SyncerInv, PushedInv
<1>10. ASSUME HasCursor' PROVE Cursor' = Ends(bleChan[1])
  <2>1. CASE bleChan' # <<>>
    <3>1. Len(bleChan) - 1 >= 1
      BY <1>2, <2>1
    <3>2. bleChan'[1] = bleChan[1 + 1] /\ 1 \in 1..(Len(bleChan) - 1)
      BY SMTT(60), Z3T(60), <1>2, <3>1
    <3>3. Ends(bleChan[1]) = Begins(bleChan[1 + 1])
      BY <3>2 DEF SyncerInv, ChanInv
    <3>4. Cursor' = Begins(bleChan'[1])
      BY <2>1 DEF Cursor, Begins
    <3> QED BY <3>2, <3>3, <3>4
  <2>2. CASE bleChan' = <<>>
    <3>1. Streaming
      BY <1>6, <1>10, <2>2 DEF HasCursor
    <3>2. Len(bleChan') = 0
      <4>1. ASSUME NEW s, s = <<>> PROVE Len(s) = 0
        BY <4>1
      <4> QED BY <2>2, <4>1
    <3>3. Len(bleChan) = 1
      <4> DEFINE n == Len(bleChan)
      <4>1. n \in Nat /\ 0 = n - 1
        BY <1>2, <3>2
      <4> HIDE DEF n
      <4>2. n = 1
        BY <4>1
      <4> QED BY <4>2 DEF n
    <3>4. Ends(bleChan[1]) = Frontier
      BY <3>1, <3>3 DEF SyncerInv, ChanInv
    <3> QED BY <1>6, <2>2, <3>4 DEF Cursor
  <2> QED BY <2>1, <2>2
<1> QED BY <1>3, <1>4, <1>7, <1>9, <1>10 DEF SyncerInv

(* The server writes.                                                       *)
LEMMA ServerSyncerInv ==
  ASSUME SyncerInv, Grows, UNCHANGED <<dump, nextPos, spc, hand, bleChan, pushed>>
  PROVE  SyncerInv' /\ (HasCursor' => HasCursor /\ Cursor' = Cursor)
<1>1. IsLog(log) /\ IsLog(log') /\ SyncerTypes
  BY DEF SyncerInv, SyncerTypes, Grows
<1>2. SyncerTypes'
  BY <1>1 DEF SyncerTypes
<1>3. DumpPos' = DumpPos /\ (Streaming' <=> Streaming)
  BY DEF DumpPos, Streaming
<1>4. \A p : IsPlace(p) => IsPlace(p)'
  BY <1>1, PlacesStay DEF IsPlace
<1>5. DumpInv' /\ PlaceInv'
  BY <1>3, <1>4 DEF SyncerInv, DumpInv, PlaceInv, IsPlace, InLog
<1>6. \A e : Begins(e)' = Begins(e) /\ (IsEvent(e) => IsEvent(e)' /\ Ends(e)' = Ends(e))
  BY <1>1, EventsStay DEF Begins
<1>7. Frontier' = Frontier
  BY <1>3, <1>6 DEF Frontier
<1>8. ChanInv'
  <2>1. \A k \in DOMAIN bleChan : IsEvent(bleChan[k])' /\ Ends(bleChan[k])' = Ends(bleChan[k]) /\ Begins(bleChan[k])' = Begins(bleChan[k])
    BY <1>6 DEF SyncerInv, ChanInv
  <2>2. spc = "push" => IsEvent(hand)' /\ Ends(hand)' = Ends(hand)
    BY <1>6 DEF SyncerInv, ChanInv
  <2>3. bleChan \in Seq(Events)
    BY <1>1 DEF SyncerTypes
  <2>4. \A k \in 1..(Len(bleChan) - 1) : k \in DOMAIN bleChan /\ k + 1 \in DOMAIN bleChan
    BY <2>3
  <2>5. bleChan # <<>> => Len(bleChan) \in DOMAIN bleChan
    BY <2>3
  <2> QED BY <1>3, <1>7, <2>1, <2>2, <2>4, <2>5 DEF SyncerInv, ChanInv
<1>9. PushedInv'
  <2>1. pushed \in Seq(Positions) /\ \A k \in DOMAIN pushed : pushed[k] \in Ids
    BY <1>1 DEF SyncerTypes, SyncerInv, PushedInv
  <2>2. \A k \in DOMAIN pushed : pushed[k] \in Ids' /\ Behind(pushed[k])' = Behind(pushed[k])
    BY <1>1, <2>1, IdsStay
  <2>3. ASSUME NEW id \in Ids, Successor(id) \in Ids PROVE Successor(id)' = Successor(id)
    <3> DEFINE f == id[1]
    <3>1. f \in DOMAIN log /\ f \in Nat /\ id[2] \in Nat /\ Len(log[f]) \in Nat /\ Len(log) \in Nat
      BY <1>1, <2>3, IdTypes
    <3>2. Len(log[f]) <= Len(log'[f]) /\ (f < Len(log) => log'[f] = log[f]) /\ Len(log'[f]) \in Nat
      BY SMTT(60), Z3T(60), <1>1, <3>1 DEF Grows, IsLog
    <3>3. CASE id[2] < Len(log[f])
      <4>1. id[2] < Len(log'[f])
        BY <3>1, <3>2, <3>3
      <4> QED BY <3>3, <4>1 DEF Successor
    <3>4. CASE ~(id[2] < Len(log[f]))
      <4>1. Successor(id) = <<f + 1, 1>>
        BY <3>4 DEF Successor
      <4>2. <<f + 1, 1>>[1] \in 1..Len(log)
        BY <1>1, <2>3, <4>1, IdTypes
      <4>3. f + 1 \in 1..Len(log)
        BY <4>2
      <4>4. log'[f] = log[f]
        BY <3>1, <3>2, <4>3
      <4> QED BY <4>4 DEF Successor
    <3> QED BY <3>3, <3>4
  <2>4. ASSUME NEW k \in 1..(Len(pushed) - 1) PROVE pushed[k + 1] = Successor(pushed[k])'
    <3>1. k \in DOMAIN pushed /\ k + 1 \in DOMAIN pushed
      BY <2>1
    <3>2. pushed[k + 1] = Successor(pushed[k])
      BY DEF SyncerInv, PushedInv
    <3> SUFFICES ASSUME NEW id, id = pushed[k] PROVE pushed[k + 1] = Successor(pushed[k])'
      OBVIOUS
    <3>3. pushed[k + 1] = Successor(id)'
      BY <2>1, <2>3, <3>1, <3>2
    <3> QED BY <3>3 DEF Successor
  <2>5. pushed # <<>> => Len(pushed) \in DOMAIN pushed
    BY <2>1
  <2> QED BY <1>3, <1>7, <2>2, <2>4, <2>5 DEF SyncerInv, PushedInv
<1>10. HasCursor' => HasCursor /\ Cursor' = Cursor
  BY <1>3, <1>6, <1>7 DEF HasCursor, Cursor
<1> QED BY <1>2, <1>5, <1>8, <1>9, <1>10 DEF SyncerInv
-----------------------------------------------------------------------------
(* The canal.                                                               *)
Versions == Nat \cup {-1, -2}
Calls == [id : Positions, table : [version : Int, shared : BOOLEAN]]
InLoop == run \in {"get", "flush", "rows", "join", "do"}
Open == run \in {"rows", "join", "do"}
Fresh == ~running /\ ~ctxDone

CanalTypes ==
  /\ status \in Positions /\ saved \in Positions /\ pos \in Positions /\ first \in Positions
  /\ ev \in Events /\ cache \in [Tables -> Versions] /\ table \in [version : Int, shared : BOOLEAN]
  /\ called \in [DOMAIN Handlers -> Seq(Calls)] /\ missed \subseteq [id : Positions, shared : BOOLEAN]
  /\ flight.result \in Int /\ (flight.pc \in {"load", "get"} => flight.table \in Tables)

(* An event is settled when the position may cover it.                      *)
Missed(id) == \E m \in missed : m.id = id
Due(id) == log[id[1]][id[2]].kind = "rows" /\ Allowed(log[id[1]][id[2]].table)
Settled(id) ==
  Due(id) => skipped \/ Missed(id) \/ \A h \in HandlersOf(log[id[1]][id[2]].table) : Handled(h, id)
Behindhand(id) == Earlier(first, EndOf(id))
SettledUpTo(p) == \A id \in Ids : Behindhand(id) /\ UpTo(p, id) => Settled(id)
SettledBut(p) == \A id \in Ids : Behindhand(id) /\ UpTo(p, id) /\ ~(Open /\ id = ev.id) => Settled(id)

Mark(p) == InLog(p) /\ (p[2] = 0 \/ p[2] >= 4)
StatusInv ==
  /\ Mark(status) /\ SettledUpTo(status)
  /\ saved = NoPos \/ (Mark(saved) /\ SettledUpTo(saved))

(* What the handlers have got, and what was passed over.                    *)
Recent(c) == LET t == log[c.id[1]][c.id[2]].table IN
  c.table.shared \/ c.table.version = -2 \/ c.table.version >= VersionAt(t, c.id)
Gone(m) == m.shared \/ ~Exists(log[m.id[1]][m.id[2]].table)
HistoryInv ==
  /\ \A h \in DOMAIN Handlers :
       /\ \A k \in DOMAIN called[h] : called[h][k].id \in Ids /\ Recent(called[h][k])
       /\ \A k \in 1..(Len(called[h]) - 1) : Earlier(called[h][k].id, called[h][k + 1].id)
  /\ \A m \in missed : m.id \in Ids /\ Gone(m)

(* A new process has not begun; it begins at its status.                    *)
CacheUpTo(p) == \A t \in Tables : cache[t] >= 0 => cache[t] >= Count(t, p)
StartInv ==
  /\ Fresh => /\ spc = "none" /\ ~InLoop /\ IsPlace(status) /\ CacheUpTo(status)
              /\ \A h \in DOMAIN Handlers : called[h] = <<>>
  /\ run = "start" => pos = status
  /\ InLoop => spc # "none" /\ ~Fresh

(* The loop has reached a place p: all is settled up to p but the event at  *)
(* hand, no handler was called for an event behind it, and the cache is not *)
(* older.  Its local position is p, or has lost the offset with an          *)
(* artificial event.                                                        *)
Reached == IF HasCursor THEN Cursor ELSE pos
CalledUpTo(p) ==
  \A h \in DOMAIN Handlers : \A k \in DOMAIN called[h] :
    /\ UpTo(p, called[h][k].id)
    /\ Open /\ (run = "do" => h \in todo) => Earlier(EndOf(called[h][k].id), p)
LoopInv(p) ==
  /\ InLog(p) /\ pos \in {p, <<p[1], 0>>} /\ (run # "get" => pos = p /\ p[2] >= 4)
  /\ SettledBut(p) /\ CacheUpTo(p) /\ (p[2] >= 4 => CalledUpTo(p))

(* The rows event at hand.                                                  *)
RowsInv ==
  /\ Open => Written(ev) /\ ev.kind = "rows" /\ EndOf(ev.id) = pos
  /\ run \in {"join", "do"} => Allowed(ev.table)
  /\ run = "do" => /\ \A h \in HandlersOf(ev.table) \ todo : Handled(h, ev.id)
                   /\ table.shared \/ table.version = -2 \/ table.version >= VersionAt(ev.table, ev.id)

IInv == SyncerInv /\ CanalTypes /\ StatusInv /\ HistoryInv /\ StartInv /\ RowsInv /\ (InLoop => LoopInv(Reached))

(* What holds of a position after a step holds of Reached after it.         *)
LEMMA LoopHere ==
  ASSUME NEW q, Reached' = q, LoopInv(q)' PROVE LoopInv(Reached)'
BY DEF LoopInv, InLog, SettledBut, CacheUpTo, CalledUpTo, Count, UpTo, EndOf, Earlier
-----------------------------------------------------------------------------
(* No step takes anything back.                                             *)
Progress ==
  /\ Grows /\ first' = first /\ (skipped => skipped') /\ missed \subseteq missed'
  /\ \A h \in DOMAIN Handlers : \A id : Handled(h, id) => Handled(h, id)'

LEMMA SameLog ==
  ASSUME IsLog(log), log' = log
  PROVE  /\ Grows /\ Ids' = Ids
         /\ \A p : (InLog(p)' <=> InLog(p)) /\ (IsPlace(p)' <=> IsPlace(p)) /\ (Mark(p)' <=> Mark(p))
         /\ \A e : (Written(e)' <=> Written(e)) /\ Begins(e)' = Begins(e) /\ Ends(e)' = Ends(e)
         /\ \A t, p : Count(t, p)' = Count(t, p) /\ VersionAt(t, p)' = VersionAt(t, p)
         /\ \A t : Version(t)' = Version(t) /\ (Exists(t)' <=> Exists(t))
<1>1. Grows
  BY DEF Grows, IsLog
<1>2. Ids' = Ids
  BY SMTT(60), Z3T(60) DEF Ids
<1>3. \A p : (InLog(p)' <=> InLog(p)) /\ (IsPlace(p)' <=> IsPlace(p)) /\ (Mark(p)' <=> Mark(p))
  BY DEF InLog, IsPlace, Mark
<1>4. \A e : (Written(e)' <=> Written(e)) /\ Begins(e)' = Begins(e) /\ Ends(e)' = Ends(e)
  BY <1>2 DEF Written, Begins, Ends, At, Behind
<1>5. \A t : Changes(t)' = Changes(t)
  BY <1>2 DEF Changes
<1>6. \A t, p : Count(t, p)' = Count(t, p) /\ VersionAt(t, p)' = VersionAt(t, p)
  BY <1>5 DEF Count, VersionAt, UpTo, EndOf, Earlier
<1>7. \A t : Version(t)' = Version(t) /\ (Exists(t)' <=> Exists(t))
  BY <1>5 DEF Version, Exists
<1> QED BY <1>1, <1>2, <1>3, <1>4, <1>6, <1>7

LEMMA SettledStays ==
  ASSUME IsLog(log), Progress, NEW id \in Ids, Settled(id)
  PROVE  Settled(id)'
<1>1. log'[id[1]][id[2]] = log[id[1]][id[2]]
  BY IdsStay DEF Progress
<1>2. Missed(id) => Missed(id)'
  BY DEF Progress, Missed
<1>3. \A t : \A h \in HandlersOf(t) : Handled(h, id) => Handled(h, id)'
  BY DEF Progress, HandlersOf
<1> QED BY <1>1, <1>2, <1>3 DEF Settled, Due, Progress

LEMMA SettledUpToStays ==
  ASSUME IsLog(log), Progress, NEW p, InLog(p), SettledUpTo(p)
  PROVE  SettledUpTo(p)'
<1>1. ASSUME NEW id \in Ids', Earlier(first, EndOf(id)), UpTo(p, id) PROVE Settled(id)'
  <2>1. id \in Ids
    BY <1>1, NewIds DEF Progress
  <2> QED BY <1>1, <2>1, SettledStays DEF SettledUpTo, Behindhand
<1> QED BY <1>1 DEF SettledUpTo, Behindhand, Progress, UpTo, EndOf, Earlier

LEMMA MarksStay ==
  ASSUME IsLog(log), Grows, NEW p, Mark(p) PROVE Mark(p)'
BY PlacesStay DEF Mark

LEMMA StatusKept ==
  ASSUME IsLog(log), StatusInv, Progress, NEW q, Mark(q), SettledUpTo(q)', status' \in {status, q}, saved' \in {saved, q}
  PROVE  StatusInv'
<1>1. ASSUME NEW r, r \in {q, status} \/ (r = saved /\ saved # NoPos) PROVE Mark(r)' /\ SettledUpTo(r)'
  <2>1. CASE r = q
    BY <2>1, MarksStay DEF Progress
  <2>2. CASE r # q
    <3>1. Mark(r) /\ InLog(r) /\ SettledUpTo(r)
      BY <1>1, <2>2 DEF StatusInv, Mark
    <3> QED BY <3>1, MarksStay, SettledUpToStays DEF Progress
  <2> QED BY <2>1, <2>2
<1>2. ASSUME NEW r, Mark(r)', SettledUpTo(r)' PROVE /\ status' = r => (Mark(status) /\ SettledUpTo(status))'
                                                   /\ saved' = r => (Mark(saved) /\ SettledUpTo(saved))'
  BY <1>2 DEF Mark, InLog, SettledUpTo, UpTo, Earlier, EndOf
<1>3. (Mark(status) /\ SettledUpTo(status))'
  BY <1>1, <1>2
<1>4. saved' = NoPos \/ (Mark(saved) /\ SettledUpTo(saved))'
  BY <1>1, <1>2
<1> QED BY <1>3, <1>4 DEF StatusInv

LEMMA HistoryKept ==
  ASSUME IsLog(log), HistoryInv, Grows, UNCHANGED <<called, missed>>
  PROVE  HistoryInv'
<1>1. ASSUME NEW c, c.id \in Ids, Recent(c) PROVE c.id \in Ids' /\ Recent(c)'
  BY <1>1, IdsStay, ChangesStay DEF Recent
<1>2. ASSUME NEW m, m.id \in Ids, Gone(m) PROVE m.id \in Ids' /\ Gone(m)'
  BY <1>2, IdsStay, ChangesStay DEF Gone
<1>3. \A h \in DOMAIN Handlers : \A k \in DOMAIN called[h] : called[h][k].id \in Ids' /\ Recent(called[h][k])'
  BY <1>1 DEF HistoryInv, Recent
<1>4. \A m \in missed : m.id \in Ids' /\ Gone(m)'
  BY <1>2 DEF HistoryInv
<1> QED BY <1>3, <1>4 DEF HistoryInv

CacheKept == cache' \in [Tables -> Versions] /\ \A p : InLog(p) /\ CacheUpTo(p) => CacheUpTo(p)'
LEMMA CacheStays ==
  ASSUME IsLog(log), CanalTypes, Grows, UNCHANGED cache
  PROVE  CacheKept
BY ChangesStay DEF CacheUpTo, CacheKept, CanalTypes

(* What holds up to a position holds up to the begin of its file.           *)
LEMMA Lower ==
  ASSUME IsLog(log), CanalTypes, NEW p, InLog(p), NEW q, q = <<p[1], 0>>
  PROVE  /\ Mark(q) /\ (SettledBut(p) => SettledBut(q)) /\ (SettledUpTo(p) => SettledUpTo(q))
         /\ CacheUpTo(p) => CacheUpTo(q)
<1>1. p \in Positions /\ p[1] \in Nat /\ p[2] \in Nat /\ q \in Positions /\ ~Earlier(p, q) /\ q[2] = 0 /\ q[1] = p[1]
  BY DEF Positions, Earlier, InLog
<1>2. Mark(q)
  BY <1>1 DEF InLog, IsLog, Mark
<1>3. (SettledBut(p) => SettledBut(q)) /\ (SettledUpTo(p) => SettledUpTo(q))
  BY <1>1, UpToLater DEF SettledBut, SettledUpTo
<1>4. ASSUME CacheUpTo(p), NEW t \in Tables, cache[t] >= 0 PROVE cache[t] >= Count(t, q)
  <2>1. Count(t, q) <= Count(t, p) /\ Count(t, q) \in Nat /\ Count(t, p) \in Nat
    BY <1>1, CountsGrow, Counts
  <2>2. cache[t] \in Int /\ cache[t] >= Count(t, p)
    BY SMTT(60), Z3T(60), <1>4 DEF CanalTypes, Versions, CacheUpTo
  <2> QED BY <2>1, <2>2
<1> QED BY <1>2, <1>3, <1>4 DEF CacheUpTo

(* The loop may as well have reached its own position only.                 *)
LEMMA Retreat ==
  ASSUME IsLog(log), CanalTypes, NEW p, LoopInv(p), NEW q, q = pos
  PROVE  LoopInv(q)
<1>1. CASE q = p
  BY <1>1
<1>2. CASE q # p
  <2>1. q = <<p[1], 0>> /\ run = "get" /\ InLog(p) /\ SettledBut(p) /\ CacheUpTo(p)
    BY <1>2 DEF LoopInv
  <2>2. Mark(q) /\ SettledBut(q) /\ CacheUpTo(q)
    BY <2>1, Lower
  <2> QED BY <2>1, <2>2 DEF LoopInv, Mark
<1> QED BY <1>1, <1>2

(* A step that leaves the goroutine of Start where it is.                   *)
LoopStays ==
  UNCHANGED <<status, saved, run, pos, ev, table, todo, first, called, before, missed, skipped>>

LEMMA StaysProgress ==
  ASSUME Grows, UNCHANGED <<first, called, before, missed, skipped>> PROVE Progress
BY DEF Progress, Handled

LEMMA StatusStays ==
  ASSUME IsLog(log), StatusInv, Progress, UNCHANGED <<status, saved>> PROVE StatusInv'
<1> SUFFICES ASSUME NEW q, q = status PROVE StatusInv'
  OBVIOUS
<1>1. Mark(q) /\ SettledUpTo(q) /\ InLog(q)
  BY DEF StatusInv, Mark
<1>2. SettledUpTo(q)'
  BY <1>1, SettledUpToStays
<1> QED BY <1>1, <1>2, StatusKept

LEMMA RowsStay ==
  ASSUME IsLog(log), RowsInv, Progress, UNCHANGED <<run, pos, ev, table, todo>> PROVE RowsInv'
<1>1. Written(ev) => Written(ev)'
  BY EventsStay DEF Progress, Written, At, Ids
<1>2. Written(ev) => VersionAt(ev.table, ev.id)' = VersionAt(ev.table, ev.id)
  BY ChangesStay DEF Progress, Written
<1>3. \A h \in HandlersOf(ev.table) : Handled(h, ev.id) => Handled(h, ev.id)'
  BY DEF Progress, HandlersOf, Handled
<1>4. (Open' <=> Open) /\ EndOf(ev.id)' = EndOf(ev.id) /\ HandlersOf(ev.table)' = HandlersOf(ev.table) /\ (Allowed(ev.table)' <=> Allowed(ev.table))
  BY DEF Open, EndOf, HandlersOf, Allowed
<1>5. run = "do" => Open
  BY DEF Open
<1> QED BY <1>1, <1>2, <1>3, <1>4, <1>5 DEF RowsInv

LEMMA LoopKept ==
  ASSUME IsLog(log), CanalTypes, Grows, LoopStays, CacheKept, NEW p, LoopInv(p), Reached' \in {p, pos}
  PROVE  LoopInv(Reached)'
<1>1. ASSUME NEW q, LoopInv(q), Reached' = q PROVE LoopInv(Reached)'
  <2>1. Progress /\ InLog(q) /\ InLog(q)'
    BY <1>1, StaysProgress, PlacesStay DEF LoopStays, LoopInv
  <2>2. CacheUpTo(q)'
    BY <1>1, <2>1 DEF LoopInv, CacheKept
  <2>3. SettledBut(q)'
    <3>1. ASSUME NEW id \in Ids', Earlier(first, EndOf(id)), UpTo(q, id), ~(Open /\ id = ev.id) PROVE Settled(id)'
      <4>1. id \in Ids
        BY <2>1, <3>1, NewIds
      <4> QED BY <1>1, <2>1, <3>1, <4>1, SettledStays DEF LoopInv, SettledBut, Behindhand
    <3> QED BY <3>1 DEF SettledBut, Behindhand, LoopStays, UpTo, EndOf, Earlier, Open
  <2>4. q[2] >= 4 => CalledUpTo(q)'
    BY <1>1 DEF LoopInv, CalledUpTo, LoopStays, UpTo, EndOf, Earlier, Open
  <2>5. LoopInv(q)'
    BY <1>1, <2>1, <2>2, <2>3, <2>4 DEF LoopInv, LoopStays
  <2> QED BY <1>1, <2>5, LoopHere
<1>2. CASE Reached' = p
  BY <1>1, <1>2
<1>3. CASE Reached' = pos
  BY <1>1, <1>3, Retreat
<1> QED BY <1>2, <1>3

LEMMA CanalKept ==
  ASSUME IInv, Grows, SyncerInv', StreamMoves, LoopStays, CacheKept, Fresh' => Fresh, spc' = "none" <=> spc = "none",
         flight'.result \in Int, flight'.pc \in {"load", "get"} => flight'.table \in Tables
  PROVE  IInv'
<1>1. IsLog(log) /\ CanalTypes /\ Progress
  BY StaysProgress DEF IInv, SyncerInv, SyncerTypes, LoopStays
<1>2. CanalTypes'
  BY DEF IInv, CanalTypes, LoopStays, CacheKept
<1>3. StatusInv' /\ HistoryInv' /\ RowsInv'
  BY <1>1, StatusStays, HistoryKept, RowsStay DEF IInv, LoopStays
<1>4. StartInv'
  <2>1. ASSUME Fresh' PROVE IsPlace(status)' /\ CacheUpTo(status)'
    <3>1. IsPlace(status) /\ CacheUpTo(status) /\ InLog(status)
      BY <2>1 DEF IInv, StartInv, IsPlace
    <3> SUFFICES ASSUME NEW q, q = status PROVE IsPlace(status)' /\ CacheUpTo(status)'
      OBVIOUS
    <3>2. IsPlace(q)' /\ CacheUpTo(q)'
      BY <1>1, <3>1, PlacesStay DEF CacheKept
    <3> QED BY <3>2 DEF IsPlace, InLog, CacheUpTo, Count, UpTo, EndOf, Earlier, LoopStays
  <2>2. (InLoop' <=> InLoop) /\ called' = called /\ run' = run /\ pos' = pos /\ status' = status
    BY DEF InLoop, LoopStays
  <2> QED BY <2>1, <2>2 DEF IInv, StartInv
<1>5. ASSUME InLoop' PROVE LoopInv(Reached)'
  <2> SUFFICES ASSUME NEW p, p = Reached PROVE LoopInv(Reached)'
    OBVIOUS
  <2>1. LoopInv(p)
    <3>1. InLoop /\ LoopInv(Reached)
      BY <1>5 DEF InLoop, LoopStays, IInv
    <3> QED BY <3>1
  <2>2. Reached' \in {p, pos}
    BY DEF StreamMoves, Reached, LoopStays
  <2> QED BY <1>1, <2>1, <2>2, LoopKept
<1> QED BY <1>2, <1>3, <1>4, <1>5 DEF IInv
-----------------------------------------------------------------------------
(* The steps of the server, of the stream and of Close and WaitUntilPos.    *)
LEMMA ServerInv ==
  ASSUME IInv, Grows, UNCHANGED <<syncerVars, canalVars, restVars, called, missed>> PROVE IInv'
<1>1. UNCHANGED <<dump, nextPos, spc, hand, bleChan, pushed, running, ctxDone, flight, cache>> /\ LoopStays
  BY DEF syncerVars, streamVars, canalVars, loopVars, restVars, LoopStays
<1>2. SyncerInv' /\ StreamMoves
  BY <1>1, ServerSyncerInv DEF IInv, StreamMoves
<1>3. (Fresh' => Fresh) /\ flight'.result \in Int /\ (flight'.pc \in {"load", "get"} => flight'.table \in Tables)
  BY <1>1 DEF Fresh, IInv, CanalTypes
<1>4. CacheKept
  BY <1>1, CacheStays DEF IInv, SyncerInv, SyncerTypes
<1> QED BY <1>1, <1>2, <1>3, <1>4, CanalKept

LEMMA CommitInv ==
  ASSUME IInv, NEW ts \in Statements, Commit(ts) PROVE IInv'
<1>1. Statement(ts) \in Seq(Entries) /\ \A i \in DOMAIN Statement(ts) : Plain(Statement(ts)[i])
  BY CanalAssumption, StatementPlain
<1>2. Write(Statement(ts)) /\ IsLog(log)
  BY DEF Commit, IInv, SyncerInv, SyncerTypes
<1>3. Grows
  BY <1>1, <1>2, WriteGrows
<1> QED BY <1>3, ServerInv DEF Commit

LEMMA ChangeTableInv ==
  ASSUME IInv, NEW t \in Tables, NEW kind \in {"alter", "drop"}, ChangeTable(t, kind) PROVE IInv'
<1> DEFINE new == <<Entry(kind, t, FALSE)>>
<1>1. Plain(Entry(kind, t, FALSE))
  <2>1. \A b \in BOOLEAN : Plain(Entry(kind, t, b))
    BY EntryFacts DEF Plain, Kinds
  <2> QED BY <2>1
<1>2. new \in Seq(Entries) /\ \A i \in DOMAIN new : Plain(new[i])
  <2> DEFINE c == Entry(kind, t, FALSE)
  <2>1. new = <<c>> /\ c \in Entries /\ Plain(c)
    BY <1>1 DEF Plain
  <2> HIDE DEF c, new
  <2> QED BY <2>1
<1>3. Write(new) /\ IsLog(log)
  BY DEF ChangeTable, IInv, SyncerInv, SyncerTypes
<1>4. Grows
  BY <1>2, <1>3, WriteGrows
<1> QED BY <1>4, ServerInv DEF ChangeTable

LEMMA FlushInv ==
  ASSUME IInv, Rotate \/ WaitUntilPos PROVE IInv'
<1>1. IsLog(log)
  BY DEF IInv, SyncerInv, SyncerTypes
<1>2. Flush \/ UNCHANGED log
  BY DEF Rotate, WaitUntilPos
<1>3. Grows
  BY <1>1, <1>2, FlushGrows, SameLog
<1> QED BY <1>3, ServerInv DEF Rotate, WaitUntilPos

LEMMA StreamInv ==
  ASSUME IInv, Stream \/ Fault PROVE IInv'
<1>1. IsLog(log) /\ SyncerInv
  BY DEF IInv, SyncerInv, SyncerTypes
<1>2. UNCHANGED <<canalVars, restVars, called, missed>>
  BY DEF Stream, Fault
<1>3. LoopStays /\ UNCHANGED <<flight, cache>>
  BY <1>2 DEF canalVars, loopVars, restVars, LoopStays
<1>4. /\ UNCHANGED <<log, running, ctxDone>> /\ SyncerInv' /\ StreamMoves /\ (spc' = "none" <=> spc = "none")
  <2>1. CASE ReadEvent
    BY <1>1, <2>1, ReadEventInv DEF ReadEvent, EndStream
  <2>2. CASE SendEvent
    BY <1>1, <2>2, SendEventInv DEF SendEvent, serverVars
  <2>3. CASE StopSending
    BY <1>1, <2>3, OtherStreamSteps DEF StopSending, EndStream
  <2>4. CASE ReadFails
    BY <1>1, <2>4, OtherStreamSteps DEF ReadFails, EndStream
  <2>5. CASE GiveUp
    BY <1>1, <2>5, OtherStreamSteps DEF GiveUp, EndStream
  <2>6. CASE Wake
    BY <1>1, <2>6, OtherStreamSteps DEF Wake
  <2>7. ASSUME NEW ok \in BOOLEAN, retrySync(ok)
        PROVE  UNCHANGED <<log, running, ctxDone>> /\ SyncerInv' /\ StreamMoves /\ (spc' = "none" <=> spc = "none")
    BY <1>1, <2>7, OtherStreamSteps DEF retrySync
  <2>8. CASE ReadError
    BY <1>1, <2>8, OtherStreamSteps DEF ReadError, EndStream
  <2>9. CASE Break
    <3>1. UNCHANGED <<log, dump, running, ctxDone, nextPos, spc, hand, bleChan, pushed>>
      BY <2>9 DEF Break, streamVars
    <3> QED BY <1>1, <3>1, SameLog, ServerSyncerInv DEF StreamMoves
  <2> QED BY <2>1, <2>2, <2>3, <2>4, <2>5, <2>6, <2>7, <2>8, <2>9 DEF Stream, Fault, onStream
<1>5. Grows /\ (Fresh' => Fresh) /\ flight'.result \in Int /\ (flight'.pc \in {"load", "get"} => flight'.table \in Tables)
  BY <1>1, <1>3, <1>4, SameLog DEF Fresh, IInv, CanalTypes
<1>6. CacheKept
  BY <1>1, <1>3, <1>5, CacheStays DEF IInv
<1> QED BY <1>3, <1>4, <1>5, <1>6, CanalKept

(* Steps that touch neither the stream nor the goroutine of Start.          *)
LEMMA OtherInv ==
  ASSUME IInv, UNCHANGED <<log, dump, nextPos, spc, hand, bleChan, pushed>>, LoopStays, CacheKept, Fresh' => Fresh,
         flight'.result \in Int, flight'.pc \in {"load", "get"} => flight'.table \in Tables
  PROVE  IInv'
<1>1. IsLog(log) /\ SyncerInv
  BY DEF IInv, SyncerInv, SyncerTypes
<1>2. Grows
  BY <1>1, SameLog
<1>3. SyncerInv' /\ StreamMoves
  BY <1>1, <1>2, ServerSyncerInv DEF StreamMoves
<1> QED BY <1>2, <1>3, CanalKept

LEMMA CloseInv ==
  ASSUME IInv, Close \/ CloseCalled \/ CloseAgain \/ CatchMasterPos \/ ComparePos \/ WaitFails PROVE IInv'
<1>1. UNCHANGED <<log, dump, nextPos, spc, hand, bleChan, pushed, flight, cache>> /\ LoopStays /\ (Fresh' => Fresh)
  <2>1. CASE CloseTheSyncer
    <3>1. ~Fresh'
      BY <2>1 DEF CloseTheSyncer, CloseSyncer, Fresh
    <3>2. UNCHANGED <<log, dump, nextPos, spc, hand, bleChan, pushed>>
      BY <2>1 DEF CloseTheSyncer, CloseSyncer, streamVars
    <3>3. UNCHANGED <<flight, cache>> /\ LoopStays
      BY <2>1 DEF CloseTheSyncer, canalVars, loopVars, restVars, LoopStays
    <3> QED BY <3>1, <3>2, <3>3
  <2>2. CASE WaitForSyncer
    <3>1. UNCHANGED <<log, dump, nextPos, spc, hand, bleChan, pushed, running, ctxDone>>
      BY <2>2 DEF WaitForSyncer, SyncerClosed, streamVars
    <3>2. UNCHANGED <<flight, cache>> /\ LoopStays
      BY <2>2 DEF WaitForSyncer, canalVars, loopVars, restVars, LoopStays
    <3> QED BY <3>1, <3>2 DEF Fresh
  <2>3. CASE ForgetSyncer \/ CloseReturns \/ CloseCalled \/ CloseAgain \/ CatchMasterPos \/ ComparePos \/ WaitFails
    <3>1. UNCHANGED <<log, syncerVars, canalVars, restVars, called, missed>>
      BY <2>3 DEF ForgetSyncer, CloseReturns, CloseCalled, CloseAgain, CatchMasterPos, ComparePos, WaitFails
    <3>2. UNCHANGED <<log, dump, nextPos, spc, hand, bleChan, pushed, running, ctxDone>>
      BY <3>1 DEF syncerVars, streamVars
    <3>3. UNCHANGED <<flight, cache>> /\ LoopStays
      BY <3>1 DEF canalVars, loopVars, restVars, LoopStays
    <3> QED BY <3>2, <3>3 DEF Fresh
  <2>4. ASSUME NEW r \in {"panic", "error", "nil"}, OnClose(r)
        PROVE  UNCHANGED <<log, dump, nextPos, spc, hand, bleChan, pushed, flight, cache>> /\ LoopStays /\ (Fresh' => Fresh)
    <3>1. UNCHANGED <<log, syncerVars, canalVars, restVars, called, missed>>
      BY <2>4 DEF OnClose
    <3>2. UNCHANGED <<log, dump, nextPos, spc, hand, bleChan, pushed, running, ctxDone>>
      BY <3>1 DEF syncerVars, streamVars
    <3>3. UNCHANGED <<flight, cache>> /\ LoopStays
      BY <3>1 DEF canalVars, loopVars, restVars, LoopStays
    <3> QED BY <3>2, <3>3 DEF Fresh
  <2> QED BY <2>1, <2>2, <2>3, <2>4 DEF Close
<1>2. flight'.result \in Int /\ (flight'.pc \in {"load", "get"} => flight'.table \in Tables)
  BY <1>1 DEF IInv, CanalTypes
<1>3. CacheKept
  BY <1>1, SameLog, CacheStays DEF IInv, SyncerInv, SyncerTypes
<1> QED BY <1>1, <1>2, <1>3, OtherInv
-----------------------------------------------------------------------------
(* The steps of the goroutine of Start.  Outside of the loop there is       *)
(* little to keep.                                                          *)
LEMMA OutsideInv ==
  ASSUME IInv, SyncerInv', UNCHANGED <<log, status, saved, cache, flight, first, called, before, missed, skipped>>,
         ~InLoop', Fresh' => Fresh /\ spc' = "none", run' = "start" => pos' = status,
         pos' \in Positions /\ ev' \in Events /\ table' \in [version : Int, shared : BOOLEAN]
  PROVE  IInv'
<1>1. IsLog(log)
  BY DEF IInv, SyncerInv, SyncerTypes
<1>2. Grows /\ Progress
  BY <1>1, SameLog, StaysProgress
<1>3. CanalTypes'
  BY DEF IInv, CanalTypes
<1>4. StatusInv' /\ HistoryInv'
  BY <1>1, <1>2, StatusStays, HistoryKept DEF IInv
<1>5. ASSUME Fresh' PROVE IsPlace(status)' /\ CacheUpTo(status)'
  <2>1. IsPlace(status) /\ CacheUpTo(status)
    BY <1>5 DEF IInv, StartInv
  <2> QED BY <1>1, <2>1, SameLog DEF IsPlace, InLog, CacheUpTo, Count, Changes, Ids, UpTo, EndOf, Earlier
<1>6. StartInv'
  BY <1>5 DEF IInv, StartInv
<1>7. RowsInv'
  BY DEF RowsInv, InLoop, Open
<1> QED BY <1>3, <1>4, <1>6, <1>7 DEF IInv

LEMMA SyncerSame ==
  ASSUME SyncerInv, UNCHANGED <<log, dump, nextPos, spc, hand, bleChan, pushed>>
  PROVE  SyncerInv' /\ HasCursor' = HasCursor /\ Cursor' = Cursor
<1>1. IsLog(log)
  BY DEF SyncerInv, SyncerTypes
<1>2. Grows
  BY <1>1, SameLog
<1>3. SyncerInv'
  BY <1>2, ServerSyncerInv
<1>4. HasCursor' = HasCursor /\ Cursor' = Cursor
  BY DEF HasCursor, Cursor, Streaming, Frontier, Begins, DumpPos
<1> QED BY <1>3, <1>4

LEMMA EndsInv ==
  ASSUME IInv, Start \/ CheckSyncer \/ GetError \/ GetTimeout PROVE IInv'
<1>1. /\ UNCHANGED <<log, dump, nextPos, spc, hand, bleChan, pushed, running, ctxDone>>
      /\ UNCHANGED <<status, saved, cache, flight, first, called, before, missed, skipped, ev, table>>
      /\ pos' \in {pos, status} /\ run' \in {"check", "start", "ended"} /\ (run' = "start" => pos' = status)
  BY DEF Start, CheckSyncer, GetError, GetTimeout, syncerVars, streamVars, loopVars, restVars
<1>2. SyncerInv' /\ ~InLoop' /\ (Fresh' => Fresh /\ spc' = "none")
  BY <1>1, SyncerSame DEF IInv, StartInv, InLoop, Fresh
<1>3. pos' \in Positions /\ ev' \in Events /\ table' \in [version : Int, shared : BOOLEAN]
  BY <1>1 DEF IInv, CanalTypes
<1> QED BY <1>1, <1>2, <1>3, OutsideInv

LEMMA CallStartSyncInv ==
  ASSUME IInv, CallStartSync PROVE IInv'
<1>1. /\ run = "start" /\ UNCHANGED <<status, saved, pos, ev, table, todo, cache, flight, first, called, before, missed, skipped>>
      /\ pos = status /\ IsLog(log) /\ SyncerInv /\ CanalTypes
  BY DEF CallStartSync, loopVars, restVars, IInv, StartInv, SyncerInv, SyncerTypes
<1>2. pos' \in Positions /\ ev' \in Events /\ table' \in [version : Int, shared : BOOLEAN]
  BY <1>1 DEF CanalTypes
<1>3. CASE run' = "panic" /\ UNCHANGED <<log, syncerVars>>
  <2>1. UNCHANGED <<dump, nextPos, spc, hand, bleChan, pushed, running, ctxDone>>
    BY <1>3 DEF syncerVars, streamVars
  <2>2. SyncerInv' /\ ~InLoop' /\ (Fresh' => Fresh /\ spc' = "none")
    BY <1>1, <1>3, <2>1, SyncerSame DEF IInv, StartInv, InLoop, Fresh
  <2> QED BY <1>1, <1>2, <1>3, <2>2, OutsideInv
<1>4. CASE run' = "ended" /\ StartSyncFails
  <2>1. UNCHANGED <<log, dump, nextPos, spc, hand, bleChan, pushed, running, ctxDone>>
    BY <1>4 DEF StartSyncFails, prepareSyncPos, streamVars
  <2>2. SyncerInv' /\ ~InLoop' /\ (Fresh' => Fresh /\ spc' = "none")
    BY <1>1, <1>4, <2>1, SyncerSame DEF IInv, StartInv, InLoop, Fresh
  <2> QED BY <1>1, <1>2, <1>4, <2>1, <2>2, OutsideInv
<1>5. CASE run' = "get" /\ StartSync(pos)
  <2>1. Fresh /\ log' = log /\ ~Fresh' /\ spc' = "read"
    BY <1>5 DEF StartSync, Fresh
  <2>2. /\ spc = "none" /\ IsPlace(status) /\ CacheUpTo(status) /\ \A h \in DOMAIN Handlers : called[h] = <<>>
        /\ Mark(status) /\ SettledUpTo(status)
    BY <2>1 DEF IInv, StartInv, StatusInv
  <2> SUFFICES ASSUME NEW q, q = status PROVE IInv'
    OBVIOUS
  <2>3. SyncerInv' /\ HasCursor' /\ Cursor' = q
    BY <1>1, <1>5, <2>2, StartSyncInv
  <2>4. Grows /\ Progress
    BY <1>1, <2>1, SameLog, StaysProgress
  <2>5. CanalTypes' /\ StatusInv' /\ HistoryInv'
    BY <1>1, <2>4, StatusStays, HistoryKept DEF IInv, CanalTypes
  <2>6. StartInv' /\ RowsInv' /\ ~Open'
    BY <1>5, <2>1 DEF StartInv, RowsInv, Open
  <2>7. InLog(q)' /\ SettledUpTo(q)' /\ CacheUpTo(q)'
    BY <1>1, <2>2, <2>4, PlacesStay, SettledUpToStays, CacheStays DEF IsPlace, CacheKept
  <2>8. LoopInv(q)'
    BY SMTT(60), Z3T(60), <1>1, <1>5, <2>2, <2>6, <2>7 DEF LoopInv, SettledBut, SettledUpTo, CalledUpTo
  <2>9. LoopInv(Reached)'
    <3>1. Reached' = q
      BY <2>3 DEF Reached
    <3> QED BY <2>8, <3>1, LoopHere
  <2> QED BY <2>3, <2>5, <2>6, <2>9 DEF IInv
<1> QED BY <1>3, <1>4, <1>5 DEF CallStartSync

(* Steps inside of the loop that leave the stream alone.                    *)
LoopFrame ==
  /\ UNCHANGED <<log, dump, nextPos, spc, hand, bleChan, pushed, running, ctxDone, pos, ev, first, before, skipped>>
  /\ InLoop

LEMMA FrameFacts ==
  ASSUME IInv, LoopFrame
  PROVE  /\ IsLog(log) /\ Grows /\ SyncerInv' /\ Reached' = Reached /\ LoopInv(Reached) /\ Reached \in Positions
         /\ run # "get" => Reached = pos /\ pos[2] >= 4
         /\ (Fresh' <=> Fresh) /\ ~Fresh /\ spc' # "none"
<1>1. IsLog(log) /\ SyncerInv /\ InLoop
  BY DEF IInv, SyncerInv, SyncerTypes, LoopFrame
<1>2. Grows /\ SyncerInv' /\ Reached' = Reached
  BY <1>1, SameLog, SyncerSame DEF LoopFrame, Reached
<1>3. LoopInv(Reached) /\ Reached \in Positions /\ (run # "get" => Reached = pos /\ pos[2] >= 4)
  BY <1>1 DEF IInv, LoopInv, InLog
<1>4. (Fresh' <=> Fresh) /\ ~Fresh /\ spc' # "none"
  BY <1>1 DEF IInv, StartInv, LoopFrame, Fresh
<1> QED BY <1>1, <1>2, <1>3, <1>4

(* When all is settled the position may be kept.                            *)
LEMMA SaveInv ==
  ASSUME IInv, LoopFrame, run # "get", SettledUpTo(pos), masterSave(pos) \/ UNCHANGED <<status, saved>>,
         run' \in {"get", "ended"}, UNCHANGED <<cache, flight, called, missed, table>>
  PROVE  IInv'
<1> SUFFICES ASSUME NEW q, q = pos PROVE IInv'
  OBVIOUS
<1>1. /\ IsLog(log) /\ Grows /\ SyncerInv' /\ Reached' = q /\ Reached = q /\ LoopInv(q) /\ q \in Positions /\ q[2] >= 4
      /\ ~Fresh' /\ spc' # "none"
  BY FrameFacts
<1>2. Progress
  BY <1>1, StaysProgress DEF LoopFrame
<1>3. Mark(q) /\ InLog(q) /\ SettledUpTo(q)
  BY <1>1 DEF LoopInv, Mark
<1>4. SettledUpTo(q)' /\ InLog(q)' /\ CacheUpTo(q)'
  BY <1>1, <1>2, <1>3, SettledUpToStays, PlacesStay, CacheStays DEF LoopInv, CacheKept, IInv
<1>5. status' \in {status, q} /\ saved' \in {saved, q}
  BY DEF masterSave
<1>6. StatusInv' /\ HistoryInv'
  BY <1>1, <1>2, <1>3, <1>4, <1>5, StatusKept, HistoryKept DEF IInv
<1>7. CanalTypes'
  BY <1>1, <1>5 DEF IInv, CanalTypes, LoopFrame
<1>8. StartInv' /\ RowsInv' /\ ~Open'
  BY <1>1 DEF StartInv, RowsInv, Open
<1>9. CalledUpTo(q)'
  BY <1>1, <1>8 DEF LoopInv, CalledUpTo, UpTo, EndOf, Earlier
<1>10. ASSUME InLoop' PROVE LoopInv(q)'
  <2>1. run' = "get" /\ pos' = q
    BY <1>10 DEF InLoop, LoopFrame
  <2> QED BY <1>4, <1>9, <2>1 DEF LoopInv, SettledBut, SettledUpTo
<1>11. InLoop' => LoopInv(Reached)'
  BY <1>1, <1>10, LoopHere
<1> QED BY <1>1, <1>6, <1>7, <1>8, <1>11 DEF IInv

LEMMA FlushHandlersInv ==
  ASSUME IInv, NEW ok \in BOOLEAN, FlushHandlers(ok) PROVE IInv'
<1>1. /\ run = "flush" /\ LoopFrame /\ UNCHANGED <<cache, flight, called, missed, table>> /\ run' \in {"get", "ended"}
      /\ masterSave(pos) \/ UNCHANGED <<status, saved>>
  BY DEF FlushHandlers, LoopFrame, InLoop, syncerVars, streamVars, loopVars, restVars
<1>2. LoopInv(Reached) /\ Reached = pos
  BY <1>1, FrameFacts
<1>3. SettledUpTo(pos)
  BY <1>1, <1>2 DEF LoopInv, SettledBut, SettledUpTo, Open
<1> QED BY <1>1, <1>3, SaveInv

LEMMA HandlersDoneInv ==
  ASSUME IInv, HandlersDone PROVE IInv'
<1>1. /\ run = "do" /\ todo = {} /\ LoopFrame /\ UNCHANGED <<cache, flight, called, missed, table>> /\ run' \in {"get", "ended"}
      /\ masterSave(pos) \/ UNCHANGED <<status, saved>>
  BY DEF HandlersDone, LoopFrame, InLoop, syncerVars, streamVars, loopVars, restVars
<1>2. LoopInv(Reached) /\ Reached = pos /\ IsLog(log)
  BY <1>1, FrameFacts
<1>3. Written(ev) /\ \A h \in HandlersOf(ev.table) : Handled(h, ev.id)
  BY <1>1 DEF IInv, RowsInv, Open
<1>4. Settled(ev.id)
  BY <1>2, <1>3, WrittenFacts DEF Settled
<1>5. SettledUpTo(pos)
  BY <1>2, <1>4 DEF LoopInv, SettledBut, SettledUpTo
<1> QED BY <1>1, <1>5, SaveInv

(* The loop takes an event.                                                 *)
LEMMA TakeFacts ==
  ASSUME IInv, TakeEvent, NEW e, e = bleChan[1], NEW p, p = Begins(e)
  PROVE  /\ run = "get" /\ IsLog(log) /\ log' = log /\ Grows /\ Progress /\ SyncerInv' /\ CanalTypes /\ IsEvent(e)
         /\ IsPlace(p) /\ LoopInv(p) /\ pos[1] = p[1]
         /\ HasCursor' => Cursor' = Ends(e)
         /\ ev' = e /\ pos' = IF e.kind = "rotate" THEN e.to ELSE <<pos[1], e.logPos>>
         /\ run' = CASE e.kind = "rotate" -> "flush" [] e.kind = "rows" -> "rows" [] OTHER -> "get"
         /\ cache' = IF e.kind \in {"alter", "drop"} THEN [t \in Tables |-> -1] ELSE cache
         /\ IF e.kind \in Saves THEN masterSave(<<pos[1], e.logPos>>) ELSE UNCHANGED <<status, saved>>
         /\ UNCHANGED <<table, todo, flight, first, called, before, missed, skipped>>
         /\ HistoryInv' /\ (Fresh' <=> Fresh) /\ ~Fresh /\ spc' # "none"
<1>1. /\ run = "get" /\ bleChan # <<>> /\ bleChan \in Seq(Events) /\ IsLog(log) /\ SyncerInv /\ CanalTypes /\ InLoop
  BY DEF TakeEvent, IInv, SyncerInv, SyncerTypes, InLoop
<1>2. Head(bleChan) = e /\ 1 \in DOMAIN bleChan
  BY <1>1
<1>3. /\ ev' = e /\ bleChan' = Tail(bleChan) /\ pos' = IF e.kind = "rotate" THEN e.to ELSE <<pos[1], e.logPos>>
      /\ run' = CASE e.kind = "rotate" -> "flush" [] e.kind = "rows" -> "rows" [] OTHER -> "get"
      /\ cache' = IF e.kind \in {"alter", "drop"} THEN [t \in Tables |-> -1] ELSE cache
      /\ IF e.kind \in Saves THEN masterSave(<<pos[1], e.logPos>>) ELSE UNCHANGED <<status, saved>>
      /\ UNCHANGED <<log, dump, running, ctxDone, nextPos, spc, hand, pushed>>
      /\ UNCHANGED <<table, todo, flight, first, called, before, missed, skipped>>
  BY <1>2 DEF TakeEvent, restVars
<1>4. IsEvent(e)
  BY <1>1, <1>2 DEF SyncerInv, ChanInv
<1>5. SyncerInv' /\ (HasCursor' => Cursor' = Ends(e))
  BY <1>1, <1>3, TakeInv
<1>6. HasCursor /\ Cursor = p
  BY <1>1 DEF HasCursor, Cursor
<1>7. IsPlace(p) /\ LoopInv(p)
  BY <1>1, <1>6, CursorPlace DEF IInv, Reached
<1>8. pos[1] = p[1]
  <2>1. pos \in {p, <<p[1], 0>>}
    BY <1>7 DEF LoopInv
  <2> QED BY <2>1
<1>9. Grows /\ Progress /\ HistoryInv'
  BY <1>1, <1>3, SameLog, StaysProgress, HistoryKept DEF IInv
<1>10. (Fresh' <=> Fresh) /\ ~Fresh /\ spc' # "none"
  BY <1>1, <1>3 DEF IInv, StartInv, Fresh
<1> QED BY <1>1, <1>3, <1>4, <1>5, <1>7, <1>8, <1>9, <1>10

LEMMA TakeMade ==
  ASSUME IInv, TakeEvent, NEW e, e = bleChan[1], Made(e)
  PROVE  IInv'
<1> SUFFICES ASSUME NEW p, p = Begins(e), NEW r, r = pos', NEW q, q = Reached' PROVE IInv'
  OBVIOUS
<1>1. /\ e \in Events /\ e.kind \in {"rotate", "format"} /\ e.logPos = 0 /\ e.to = p /\ Ends(e) = p
  BY MadeFacts
<1>2. /\ run = "get" /\ IsLog(log) /\ log' = log /\ Grows /\ Progress /\ SyncerInv' /\ CanalTypes
      /\ IsPlace(p) /\ InLog(p) /\ LoopInv(p) /\ HistoryInv' /\ ~Fresh' /\ spc' # "none"
      /\ ev' = e /\ pos' = (IF e.kind = "rotate" THEN p ELSE <<p[1], 0>>)
      /\ run' = (IF e.kind = "rotate" THEN "flush" ELSE "get")
      /\ UNCHANGED <<cache, table, todo, flight, first, called, before, missed, skipped>>
      /\ status' \in {status, r} /\ saved' \in {saved, r}
  BY SMTT(60), Z3T(60), <1>1, TakeFacts DEF Saves, masterSave, IsPlace
<1>3. ~Open /\ ~Open'
  BY <1>2 DEF Open
<1>4. SettledBut(p) /\ SettledUpTo(p) /\ CacheUpTo(p) /\ CalledUpTo(p)
  BY <1>2, <1>3 DEF LoopInv, SettledBut, SettledUpTo, IsPlace
<1>5. q \in {p, <<p[1], 0>>} /\ r \in {p, <<p[1], 0>>}
  BY <1>1, <1>2, TakeFacts DEF Reached
<1>6. ASSUME NEW s \in {p, <<p[1], 0>>} PROVE Mark(s) /\ InLog(s) /\ InLog(s)' /\ SettledUpTo(s)' /\ CacheUpTo(s)'
  <2>1. Mark(s) /\ SettledUpTo(s) /\ CacheUpTo(s)
    BY <1>2, <1>4, Lower DEF Mark, IsPlace
  <2>2. InLog(s)
    BY <2>1 DEF Mark
  <2> QED BY <1>2, <2>1, <2>2, SettledUpToStays, CacheStays, PlacesStay DEF CacheKept
<1>7. StatusInv'
  BY <1>2, <1>5, <1>6, StatusKept DEF IInv
<1>8. CanalTypes'
  <2>1. r \in Positions /\ status' \in Positions /\ saved' \in Positions
    BY <1>2, <1>5, <1>6 DEF InLog, CanalTypes
  <2> QED BY <1>1, <1>2, <2>1 DEF CanalTypes
<1>9. StartInv' /\ RowsInv'
  BY <1>2, <1>3 DEF StartInv, RowsInv, Open, InLoop
<1>10. CalledUpTo(p)'
  BY <1>2, <1>3, <1>4 DEF CalledUpTo, UpTo, EndOf, Earlier
<1>11. LoopInv(q)'
  <2>1. InLog(q)' /\ SettledBut(q)' /\ CacheUpTo(q)'
    BY <1>5, <1>6 DEF SettledBut, SettledUpTo
  <2>2. pos' \in {q, <<q[1], 0>>} /\ (run' # "get" => pos' = q /\ q[2] >= 4) /\ (q[2] >= 4 => q = p)
    <3>1. q[1] = p[1] /\ p = <<p[1], p[2]>> /\ p[2] >= 4
      <4>1. p \in Nat \X Nat /\ p[2] >= 4
        BY <1>2 DEF IsPlace, InLog, Positions
      <4> QED BY <1>5, <4>1
    <3>2. q \in {p, pos'}
      BY <1>1, <1>2, TakeFacts DEF Reached
    <3>3. /\ pos' = (IF e.kind = "rotate" THEN p ELSE <<p[1], 0>>)
          /\ run' = (IF e.kind = "rotate" THEN "flush" ELSE "get")
      BY <1>2
    <3>4. CASE e.kind = "rotate"
      BY <3>1, <3>2, <3>3, <3>4
    <3>5. CASE e.kind # "rotate"
      <4>1. pos' = <<p[1], 0>> /\ run' = "get"
        BY <3>3, <3>5
      <4>3. ~(0 >= 4)
        OBVIOUS
      <4>2. <<p[1], 0>>[2] = 0 /\ <<q[1], 0>> = <<p[1], 0>>
        BY <3>1
      <4> QED BY <3>2, <4>1, <4>2, <4>3
    <3> QED BY <3>4, <3>5
  <2> QED BY <1>10, <2>1, <2>2 DEF LoopInv
<1>12. LoopInv(Reached)'
  BY <1>11, LoopHere
<1> QED BY <1>2, <1>7, <1>8, <1>9, <1>12 DEF IInv

LEMMA TakeWritten ==
  ASSUME IInv, TakeEvent, NEW e, e = bleChan[1], Written(e)
  PROVE  IInv'
<1> SUFFICES ASSUME NEW p, p = Begins(e), NEW q, q = Ends(e) PROVE IInv'
  OBVIOUS
<1>1. /\ run = "get" /\ IsLog(log) /\ log' = log /\ Grows /\ Progress /\ SyncerInv' /\ CanalTypes
      /\ IsPlace(p) /\ LoopInv(p) /\ HistoryInv' /\ ~Fresh' /\ spc' # "none" /\ pos[1] = p[1] /\ ev' = e
      /\ UNCHANGED <<table, todo, flight, first, called, before, missed, skipped>>
      /\ cache' = IF e.kind \in {"alter", "drop"} THEN [t \in Tables |-> -1] ELSE cache
      /\ run' = CASE e.kind = "rotate" -> "flush" [] e.kind = "rows" -> "rows" [] OTHER -> "get"
  BY TakeFacts
<1>2. /\ e \in Events /\ e.id \in Ids /\ e.logPos = 4 + e.id[2] /\ p = <<e.id[1], 3 + e.id[2]>>
      /\ q = (IF e.kind = "rotate" THEN <<e.id[1] + 1, 4>> ELSE EndOf(e.id))
      /\ e.to = (IF e.kind = "rotate" THEN <<e.id[1] + 1, 4>> ELSE NoPos)
      /\ e.kind = log[e.id[1]][e.id[2]].kind /\ e.table = log[e.id[1]][e.id[2]].table
  BY <1>1, WrittenFacts
<1>3. e.id[1] \in Nat /\ e.id[2] \in Nat
  BY <1>1, <1>2, IdTypes
<1>0. pos[1] = e.id[1]
  <2>1. pos[1] = p[1]
    BY <1>1
  <2>2. p = <<e.id[1], 3 + e.id[2]>>
    BY <1>2
  <2> QED BY SMTT(60), Z3T(60), <2>1, <2>2
<1>4. pos' = q
  <2>1. pos' = IF e.kind = "rotate" THEN e.to ELSE <<pos[1], e.logPos>>
    BY TakeFacts
  <2> QED BY <1>0, <1>2, <2>1 DEF EndOf
<1>5. (e.kind \in Saves => e.kind # "rotate" /\ e.kind # "rows") /\ status' \in {status, q} /\ saved' \in {saved, q}
  <2>1. CASE e.kind \in Saves
    <3>1. e.kind # "rotate" /\ e.kind # "rows" /\ masterSave(<<pos[1], e.logPos>>)
      BY <2>1, TakeFacts DEF Saves
    <3>2. <<pos[1], e.logPos>> = q
      BY <1>0, <1>2, <3>1 DEF EndOf
    <3> QED BY <3>1, <3>2 DEF masterSave
  <2>2. CASE e.kind \notin Saves
    BY <2>2, TakeFacts
  <2> QED BY <2>1, <2>2
<1>6. IsPlace(q) /\ InLog(q) /\ InLog(q)' /\ q \in Positions /\ Mark(q)
  BY <1>1, EventFacts, PlacesStay DEF IsEvent, IsPlace, InLog, Mark
<1>7. Reached' = q
  BY <1>4, TakeFacts DEF Reached
<1>8. SettledBut(p) /\ CacheUpTo(p) /\ CalledUpTo(p) /\ ~Open /\ (Open' <=> e.kind = "rows")
  BY <1>1 DEF LoopInv, IsPlace, Open
<1>9. ASSUME NEW id \in Ids, Behindhand(id), UpTo(q, id), ~(e.kind = "rows" /\ id = e.id) PROVE Settled(id)'
  <2>1. CASE UpTo(p, id)
    BY <1>1, <1>8, <1>9, <2>1, SettledStays DEF SettledBut
  <2>2. CASE id = e.id
    <3>1. Settled(id)
      BY <1>2, <1>9, <2>2 DEF Settled, Due
    <3> QED BY <1>1, <3>1, SettledStays
  <2> QED BY <1>1, <1>9, <2>1, <2>2, OneBetween
<1>10. SettledBut(q)'
  <2>1. Ids' = Ids
    BY <1>1, SameLog
  <2> QED BY <1>1, <1>8, <1>9, <2>1 DEF SettledBut, Behindhand, UpTo, EndOf, Earlier
<1>11. StatusInv'
  <2>1. CASE e.kind = "rows"
    <3>1. UNCHANGED <<status, saved>>
      BY <1>5, <2>1, TakeFacts
    <3> QED BY <1>1, <3>1, StatusStays DEF IInv
  <2>2. CASE e.kind # "rows"
    <3>1. SettledUpTo(q)'
      BY <1>8, <1>10, <2>2 DEF SettledBut, SettledUpTo
    <3> QED BY <1>1, <1>5, <1>6, <3>1, StatusKept DEF IInv
  <2> QED BY <2>1, <2>2
<1>12. CacheUpTo(q)'
  <2>1. CASE e.kind \in {"alter", "drop"}
    BY SMTT(60), Z3T(60), <1>1, <2>1 DEF CacheUpTo
  <2>2. CASE e.kind \notin {"alter", "drop"}
    <3>1. ASSUME NEW t \in Tables PROVE Count(t, q) = Count(t, p)
      <4>1. ASSUME NEW c \in Changes(t) PROVE c \in Ids /\ c # e.id
        BY <1>2, <2>2 DEF Changes
      <4>2. \A c \in Changes(t) : UpTo(q, c) <=> UpTo(p, c)
        BY <1>1, <4>1, OneBetween
      <4> QED BY <4>2 DEF Count
    <3>2. CacheUpTo(q) /\ cache' = cache
      BY <1>1, <1>8, <2>2, <3>1 DEF CacheUpTo
    <3> QED BY <1>1, <1>6, <3>2, CacheStays DEF CacheKept
  <2> QED BY <2>1, <2>2
<1>13. CalledUpTo(q)'
  <2>1. ASSUME NEW h \in DOMAIN Handlers, NEW k \in DOMAIN called[h]
        PROVE  UpTo(q, called[h][k].id) /\ (e.kind = "rows" => Earlier(EndOf(called[h][k].id), q))
    <3> DEFINE id == called[h][k].id
    <3>1. id \in Ids /\ UpTo(p, id)
      BY <1>8 DEF CalledUpTo, IInv, HistoryInv
    <3>2. UpTo(q, id)
      BY <1>1, <3>1, OneBetween
    <3>3. id[1] \in Nat /\ id[2] \in Nat
      BY <1>1, <3>1, IdTypes
    <3> HIDE DEF id
    <3>4. ASSUME e.kind = "rows" PROVE Earlier(EndOf(id), q)
      <4>1. q = <<e.id[1], 4 + e.id[2]>> /\ p = <<e.id[1], 3 + e.id[2]>>
        BY <1>2, <3>4 DEF EndOf
      <4> QED BY <1>3, <3>1, <3>3, <4>1, UpToBefore
    <3> QED BY <3>2, <3>4 DEF id
  <2> QED BY <1>1, <1>8, <2>1 DEF CalledUpTo, UpTo, EndOf, Earlier
<1>14. LoopInv(q)'
  BY <1>4, <1>6, <1>10, <1>12, <1>13 DEF LoopInv, IsPlace
<1>15. LoopInv(Reached)'
  BY <1>7, <1>14, LoopHere
<1>16. RowsInv' /\ StartInv'
  <2>1. Written(ev)'
    BY <1>1, SameLog DEF Written, At, Ids
  <2>2. e.kind = "rows" => EndOf(e.id) = pos'
    BY <1>2, <1>4
  <2> QED BY <1>1, <1>8, <2>1, <2>2 DEF RowsInv, StartInv, EndOf
<1>17. CanalTypes'
  BY <1>1, <1>2, <1>4, <1>5, <1>6 DEF CanalTypes, Versions
<1> QED BY <1>1, <1>11, <1>15, <1>16, <1>17 DEF IInv

LEMMA TakeEventInv ==
  ASSUME IInv, TakeEvent PROVE IInv'
<1>1. bleChan # <<>> /\ bleChan \in Seq(Events)
  BY DEF TakeEvent, IInv, SyncerInv, SyncerTypes
<1>2. IsEvent(bleChan[1])
  BY <1>1 DEF IInv, SyncerInv, ChanInv
<1> QED BY <1>2, TakeMade, TakeWritten DEF IsEvent

(* The cache after a load: a version that is not older than the log.        *)
LEMMA LoadedInv ==
  ASSUME IsLog(log), CanalTypes, NEW t \in Tables, NEW ok \in BOOLEAN, cache' = Loaded(t, ok), log' = log
  PROVE  /\ CacheKept
         /\ cache'[t] = IF Loads(t, ok) THEN Version(t) ELSE -2
<1>1. Version(t) \in Nat /\ cache \in [Tables -> Versions]
  BY Counts DEF CanalTypes
<1>2. /\ cache' \in [Tables -> Versions] /\ cache'[t] = (IF Loads(t, ok) THEN Version(t) ELSE -2)
      /\ \A u \in Tables : u # t => cache'[u] = cache[u]
  BY <1>1 DEF Loaded, Versions
<1>3. ASSUME NEW p, CacheUpTo(p) PROVE CacheUpTo(p)'
  <2>1. ASSUME NEW u \in Tables, cache'[u] >= 0 PROVE cache'[u] >= Count(u, p)
    <3>1. CASE u # t
      BY <1>2, <1>3, <2>1, <3>1 DEF CacheUpTo
    <3>2. CASE u = t
      <4>1. cache'[t] = Version(t)
        BY SMTT(60), Z3T(60), <1>1, <1>2, <2>1, <3>2
      <4> QED BY <3>2, <4>1, Counts
    <3> QED BY <3>1, <3>2
  <2> QED BY <2>1, SameLog DEF CacheUpTo
<1> QED BY <1>2, <1>3 DEF CacheKept

(* What GotTable does with a result that is recent enough.                  *)
LEMMA GotTableInv ==
  ASSUME IInv, LoopFrame, run \in {"rows", "join"}, Allowed(ev.table), UNCHANGED <<status, saved, called>>,
         NEW r \in Int, NEW shared \in BOOLEAN, GotTable(r, shared),
         shared \/ r \in {-1, -2, -3} \/ r >= VersionAt(ev.table, ev.id),
         r = -1 /\ ~shared => ~Exists(ev.table),
         CacheKept,
         flight'.result \in Int, flight'.pc \in {"load", "get"} => flight'.table \in Tables
  PROVE  IInv'
<1> SUFFICES ASSUME NEW q, q = pos PROVE IInv'
  OBVIOUS
<1>1. /\ IsLog(log) /\ Grows /\ SyncerInv' /\ Reached' = q /\ Reached = q /\ LoopInv(q) /\ q \in Positions /\ q[2] >= 4
      /\ ~Fresh' /\ spc' # "none"
  BY FrameFacts
<1>2. /\ Written(ev) /\ ev.kind = "rows" /\ EndOf(ev.id) = q /\ Open /\ log' = log /\ ev' = ev /\ pos' = q
  BY DEF IInv, RowsInv, Open, LoopFrame
<1>3. /\ ev.id \in Ids /\ ev.id \in Positions /\ ev.table = log[ev.id[1]][ev.id[2]].table
  BY <1>1, <1>2, WrittenFacts, IdTypes
<1>4. /\ missed \subseteq missed' /\ missed' \subseteq missed \cup {[id |-> ev.id, shared |-> shared]}
      /\ r = -1 => Missed(ev.id)'
      /\ run' \in {"get", "ended", "do"} /\ (run' = "get" <=> r = -1) /\ (run' = "do" <=> r \notin {-1, -3})
      /\ run' = "do" => table' = [version |-> r, shared |-> shared] /\ todo' = HandlersOf(ev.table)
      /\ run' # "do" => table' = table
      /\ missed' # missed => r = -1
  <2>1. CASE r = -1
    <3>1. /\ missed' = missed \cup {[id |-> ev.id, shared |-> shared]} /\ run' = "get" /\ UNCHANGED <<table, todo>>
      BY <2>1 DEF GotTable
    <3>2. \E m \in missed' : m.id = ev.id
      <4>1. [id |-> ev.id, shared |-> shared] \in missed'
        BY <3>1
      <4>2. [id |-> ev.id, shared |-> shared].id = ev.id
        OBVIOUS
      <4> QED BY <4>1, <4>2
    <3>3. Missed(ev.id)'
      BY <1>2, <3>2 DEF Missed
    <3> QED BY <2>1, <3>1, <3>3
  <2>2. CASE r = -3
    BY <2>2 DEF GotTable
  <2>3. CASE r # -1 /\ r # -3
    BY <2>3 DEF GotTable
  <2> QED BY <2>1, <2>2, <2>3
<1>5. Progress
  BY <1>1, <1>4 DEF Progress, LoopFrame, Handled
<1>6. StatusInv'
  BY <1>1, <1>5, StatusStays DEF IInv
<1>7. HistoryInv'
  <2>1. ASSUME NEW m \in missed' PROVE m.id \in Ids' /\ Gone(m)'
    <3>1. CASE m \in missed
      <4>1. m.id \in Ids /\ Gone(m)
        BY <3>1 DEF IInv, HistoryInv
      <4> QED BY <1>1, <1>2, <4>1, SameLog DEF Gone
    <3>2. CASE m \notin missed
      <4>1. m.id = ev.id /\ m.shared = shared /\ r = -1
        BY SMTT(60), Z3T(60), <1>4, <3>2
      <4> QED BY <1>1, <1>2, <1>3, <4>1, SameLog DEF Gone
    <3> QED BY <3>1, <3>2
  <2>2. Ids' = Ids /\ \A c : Recent(c)' <=> Recent(c)
    BY <1>1, <1>2, SameLog DEF Recent
  <2>3. called' = called
    OBVIOUS
  <2> QED BY <2>1, <2>2, <2>3 DEF IInv, HistoryInv, Recent
<1>8. CanalTypes'
  <2>1. [id |-> ev.id, shared |-> shared] \in [id : Positions, shared : BOOLEAN]
    BY <1>3
  <2>2. missed' \subseteq [id : Positions, shared : BOOLEAN]
    BY <1>4, <2>1 DEF IInv, CanalTypes
  <2>3. table' \in [version : Int, shared : BOOLEAN]
    BY SMTT(60), Z3T(60), <1>4 DEF IInv, CanalTypes
  <2> QED BY <2>2, <2>3 DEF IInv, CanalTypes, LoopFrame, CacheKept
<1>9. StartInv'
  BY <1>1, <1>4 DEF StartInv
<1>10. RowsInv'
  <2>1. Written(ev)' /\ VersionAt(ev.table, ev.id)' = VersionAt(ev.table, ev.id)
    BY <1>1, <1>2, SameLog DEF Written, At, Ids, VersionAt, Changes, Earlier
  <2>2. CASE run' = "do"
    <3>1. /\ table' = [version |-> r, shared |-> shared] /\ todo' = HandlersOf(ev.table) /\ ev' = ev /\ pos' = q
          /\ ev.kind = "rows" /\ EndOf(ev.id) = q
      BY <1>2, <1>4, <2>2
    <3>2. HandlersOf(ev.table)' = HandlersOf(ev.table) /\ (Allowed(ev.table)' <=> Allowed(ev.table)) /\ EndOf(ev.id)' = q
      BY <3>1 DEF HandlersOf, Allowed, EndOf
    <3>3. table'.version = r /\ table'.shared = shared
      BY <3>1
    <3>4. Open' => (Written(ev) /\ ev.kind = "rows" /\ EndOf(ev.id) = pos)'
      BY <2>1, <3>1, <3>2
    <3>5. Allowed(ev.table)'
      BY <3>2
    <3>6. (\A h \in HandlersOf(ev.table) \ todo : Handled(h, ev.id))'
      BY <3>1, <3>2
    <3>7. (table.shared \/ table.version = -2 \/ table.version >= VersionAt(ev.table, ev.id))'
      <4>1. shared \/ r = -2 \/ r >= VersionAt(ev.table, ev.id)
        BY <1>4, <2>2
      <4> QED BY <2>1, <3>3, <4>1
    <3> QED BY <3>4, <3>5, <3>6, <3>7 DEF RowsInv
  <2>3. CASE run' # "do"
    BY <1>4, <2>3 DEF RowsInv, Open
  <2> QED BY <2>2, <2>3
<1>11. ASSUME InLoop' PROVE LoopInv(q)'
  <2>1. run' \in {"get", "do"} /\ (Open' <=> run' = "do")
    BY <1>4, <1>11 DEF InLoop, Open
  <2>2. InLog(q)' /\ CacheUpTo(q)' /\ Ids' = Ids
    BY <1>1, <1>2, SameLog DEF LoopInv, CacheKept
  <2>3. ASSUME NEW id \in Ids, Behindhand(id), UpTo(q, id), ~(Open' /\ id = ev.id) PROVE Settled(id)'
    <3>1. CASE id = ev.id
      <4>1. Missed(ev.id)'
        BY <1>4, <2>1, <2>3, <3>1
      <4> QED BY <1>2, <3>1, <4>1 DEF Settled, Missed
    <3>2. CASE id # ev.id
      BY <1>1, <1>5, <2>3, <3>2, SettledStays DEF LoopInv, SettledBut
    <3> QED BY <3>1, <3>2
  <2>4. SettledBut(q)'
    BY <1>2, <2>2, <2>3 DEF SettledBut, Behindhand, UpTo, EndOf, Earlier, LoopFrame
  <2>5. CalledUpTo(q)'
    BY <1>1, <1>2, <2>1 DEF LoopInv, CalledUpTo, UpTo, EndOf, Earlier
  <2> QED BY <1>1, <1>2, <2>2, <2>4, <2>5 DEF LoopInv
<1>12. InLoop' => LoopInv(Reached)'
  BY <1>1, <1>11, LoopHere
<1> QED BY <1>1, <1>6, <1>7, <1>8, <1>9, <1>10, <1>12 DEF IInv

(* The goroutine waits for the load of another one.                         *)
LEMMA JoinInv ==
  ASSUME IInv, LoopFrame, run = "rows", run' = "join", Allowed(ev.table),
         UNCHANGED <<status, saved, called, missed, table, todo, cache, flight>>
  PROVE  IInv'
<1> SUFFICES ASSUME NEW q, q = pos PROVE IInv'
  OBVIOUS
<1>1. /\ IsLog(log) /\ Grows /\ SyncerInv' /\ Reached' = q /\ Reached = q /\ LoopInv(q) /\ q \in Positions /\ q[2] >= 4
      /\ ~Fresh' /\ spc' # "none" /\ log' = log /\ ev' = ev /\ pos' = q
  BY FrameFacts DEF LoopFrame
<1>2. Progress
  BY <1>1, StaysProgress DEF LoopFrame
<1>3. StatusInv' /\ HistoryInv' /\ CanalTypes'
  BY <1>1, <1>2, StatusStays, HistoryKept DEF IInv, CanalTypes, LoopFrame
<1>4. StartInv'
  BY <1>1 DEF StartInv
<1>5. Open /\ Open'
  BY DEF Open
<1>6. RowsInv'
  <2>1. Written(ev)' <=> Written(ev)
    BY SMTT(60), Z3T(60), <1>1 DEF Written, At, Ids
  <2> QED BY <1>1, <1>5, <2>1 DEF IInv, RowsInv, EndOf, Allowed
<1>7. LoopInv(q)'
  <2>1. InLog(q)' /\ CacheUpTo(q)' /\ Ids' = Ids
    BY <1>1, SameLog, CacheStays DEF LoopInv, CacheKept, IInv
  <2>2. \A id \in Ids : Settled(id) => Settled(id)'
    BY <1>1, <1>2, SettledStays
  <2>3. SettledBut(q)'
    BY <1>1, <1>5, <2>1, <2>2 DEF LoopInv, SettledBut, Behindhand, UpTo, EndOf, Earlier, LoopFrame
  <2>4. CalledUpTo(q)'
    BY <1>1, <1>5 DEF LoopInv, CalledUpTo, UpTo, EndOf, Earlier
  <2> QED BY <1>1, <2>1, <2>3, <2>4 DEF LoopInv
<1>8. LoopInv(Reached)'
  BY <1>1, <1>7, LoopHere
<1> QED BY <1>1, <1>3, <1>4, <1>6, <1>8 DEF IInv

LEMMA HandleRowsInv ==
  ASSUME IInv, NEW ok \in BOOLEAN, HandleRows(ok) PROVE IInv'
<1> DEFINE t == ev.table
<1>1. run = "rows" /\ LoopFrame /\ UNCHANGED <<flight, called>>
  BY DEF HandleRows, LoopFrame, InLoop, syncerVars, streamVars, restVars
<1>2. /\ IsLog(log) /\ LoopInv(Reached) /\ Reached = pos /\ CanalTypes /\ Written(ev) /\ EndOf(ev.id) = pos /\ ev.kind = "rows"
      /\ log' = log
  BY <1>1, FrameFacts DEF IInv, RowsInv, Open, LoopFrame
<1>3. t \in Tables /\ ev.id \in Ids /\ t = log[ev.id[1]][ev.id[2]].table
  BY <1>2, WrittenFacts
<1>4. /\ cache[t] \in Versions /\ VersionAt(t, ev.id) \in Nat /\ VersionAt(t, ev.id) <= Count(t, pos)
      /\ VersionAt(t, ev.id) <= Version(t) /\ Version(t) \in Nat /\ Count(t, pos) \in Nat /\ CacheUpTo(pos)
  BY <1>2, <1>3, VersionAtCounts, Counts DEF CanalTypes, LoopInv
<1>5. flight'.result \in Int /\ (flight'.pc \in {"load", "get"} => flight'.table \in Tables)
  BY <1>1, <1>2 DEF CanalTypes
<1>6. CASE ~Allowed(t)
  <2>1. masterSave(pos) /\ run' = "get" /\ UNCHANGED <<table, missed, cache>>
    BY <1>6 DEF HandleRows
  <2>2. Settled(ev.id)
    BY <1>3, <1>6 DEF Settled, Due
  <2>3. SettledUpTo(pos)
    BY <1>2, <2>2 DEF LoopInv, SettledBut, SettledUpTo
  <2> QED BY <1>1, <2>1, <2>3, SaveInv
<1>7. CASE Allowed(t) /\ cache[t] # -1
  <2>1. GotTable(cache[t], FALSE) /\ UNCHANGED <<status, saved, cache>>
    BY <1>7 DEF HandleRows
  <2>2. cache[t] \in Int /\ (cache[t] = -2 \/ cache[t] >= VersionAt(t, ev.id))
    <3>1. cache[t] \in Versions /\ (cache[t] >= 0 => cache[t] >= Count(t, pos))
      BY <1>3, <1>4 DEF CacheUpTo
    <3> HIDE DEF t
    <3> QED BY SMTT(60), Z3T(60), <1>4, <1>7, <3>1 DEF Versions
  <2>3. CacheKept
    BY <1>2, <2>1, SameLog, CacheStays
  <2> QED BY <1>1, <1>5, <1>7, <2>1, <2>2, <2>3, GotTableInv
<1>8. CASE Allowed(t) /\ cache[t] = -1 /\ flight.table = t
  <2>1. run' = "join" /\ UNCHANGED <<status, saved, table, todo, missed, cache>>
    BY <1>8 DEF HandleRows
  <2> QED BY <1>1, <1>8, <2>1, JoinInv
<1>9. CASE Allowed(t) /\ cache[t] = -1 /\ flight.table # t
  <2> DEFINE r == IF Loads(t, ok) THEN Version(t) ELSE LoadError(ok)
  <2>1. cache' = Loaded(t, ok) /\ GotTable(r, FALSE) /\ UNCHANGED <<status, saved>>
    BY <1>9 DEF HandleRows
  <2>2. CacheKept
    BY <1>2, <1>3, <2>1, LoadedInv
  <2>3. r \in Int /\ (r \in {-1, -3} \/ r >= VersionAt(t, ev.id)) /\ (r = -1 => ~Exists(t))
    <3>1. CASE Loads(t, ok)
      <4>1. r = Version(t)
        BY <3>1
      <4> HIDE DEF r, t
      <4> QED BY <1>4, <4>1
    <3>2. CASE ~Loads(t, ok)
      <4>1. r = LoadError(ok)
        BY <3>2
      <4> HIDE DEF r, t
      <4> QED BY <3>2, <4>1 DEF LoadError, Loads
    <3> QED BY <3>1, <3>2
  <2> HIDE DEF r
  <2> QED BY <1>1, <1>5, <1>9, <2>1, <2>2, <2>3, GotTableInv
<1> QED BY <1>6, <1>7, <1>8, <1>9

(* FindTable of another goroutine.                                          *)
LEMMA FlightInv ==
  ASSUME IInv, (\E t \in Tables : FindTable(t)) \/ Flight PROVE IInv'
<1>1. IsLog(log) /\ CanalTypes
  BY DEF IInv, SyncerInv, SyncerTypes
<1>2. ASSUME NEW t \in Tables, FindTable(t) PROVE IInv'
  <2>1. /\ UNCHANGED <<log, dump, nextPos, spc, hand, bleChan, pushed, cache, running, ctxDone>> /\ LoopStays
        /\ flight' = [pc |-> "load", table |-> t, result |-> -1]
    BY <1>2 DEF FindTable, syncerVars, streamVars, loopVars, restVars, LoopStays
  <2>2. CacheKept /\ (Fresh' => Fresh)
    BY <1>1, <2>1, SameLog, CacheStays DEF Fresh
  <2> QED BY SMTT(60), Z3T(60), <2>1, <2>2, OtherInv
<1>3. ASSUME NEW ok \in BOOLEAN, FlightLoad(ok) PROVE IInv'
  <2>1. /\ UNCHANGED <<log, dump, nextPos, spc, hand, bleChan, pushed, running, ctxDone>> /\ LoopStays
        /\ cache' = Loaded(flight.table, ok) /\ flight.table \in Tables
        /\ flight' = IF Loads(flight.table, ok) THEN [flight EXCEPT !.pc = "get"]
                     ELSE [flight EXCEPT !.pc = "done", !.result = LoadError(ok)]
    BY <1>1, <1>3 DEF FlightLoad, CanalTypes, syncerVars, streamVars, loopVars, restVars, LoopStays
  <2>2. CacheKept /\ (Fresh' => Fresh)
    BY <1>1, <2>1, LoadedInv DEF Fresh
  <2>3. flight'.result \in Int /\ (flight'.pc \in {"load", "get"} => flight'.table \in Tables)
    BY SMTT(60), Z3T(60), <1>1, <2>1 DEF CanalTypes, LoadError
  <2> QED BY <2>1, <2>2, <2>3, OtherInv
<1>4. ASSUME FlightGet PROVE IInv'
  <2>1. /\ UNCHANGED <<log, dump, nextPos, spc, hand, bleChan, pushed, cache, running, ctxDone>> /\ LoopStays
        /\ flight' = [flight EXCEPT !.pc = "done", !.result = cache[flight.table]] /\ flight.table \in Tables
    BY <1>1, <1>4 DEF FlightGet, CanalTypes, syncerVars, streamVars, loopVars, restVars, LoopStays
  <2>2. CacheKept /\ (Fresh' => Fresh)
    BY <1>1, <2>1, SameLog, CacheStays DEF Fresh
  <2>3. flight'.result \in Int /\ (flight'.pc \in {"load", "get"} => flight'.table \in Tables)
    BY SMTT(60), Z3T(60), <1>1, <2>1 DEF CanalTypes, Versions
  <2> QED BY <2>1, <2>2, <2>3, OtherInv
<1>5. ASSUME FlightEnd PROVE IInv'
  <2>1. /\ UNCHANGED <<log, dump, nextPos, spc, hand, bleChan, pushed, running, ctxDone, cache>>
        /\ UNCHANGED <<status, saved, pos, ev, first, called, before, skipped>>
        /\ flight' = NoFlight /\ flight.result \in Int
    BY <1>1, <1>5 DEF FlightEnd, CanalTypes, syncerVars, streamVars, restVars
  <2>2. CacheKept /\ (Fresh' => Fresh)
    BY <1>1, <2>1, SameLog, CacheStays DEF Fresh
  <2>3. flight'.result \in Int /\ (flight'.pc \in {"load", "get"} => flight'.table \in Tables)
    BY <2>1 DEF NoFlight
  <2>4. CASE run = "join"
    <3>1. GotTable(flight.result, TRUE) /\ LoopFrame /\ Allowed(ev.table)
      BY <1>5, <2>1, <2>4 DEF FlightEnd, LoopFrame, InLoop, IInv, RowsInv
    <3> QED BY <2>1, <2>2, <2>3, <2>4, <3>1, GotTableInv
  <2>5. CASE run # "join"
    <3>1. LoopStays
      BY <1>5, <2>1, <2>5 DEF FlightEnd, LoopStays
    <3> QED BY <2>1, <2>2, <2>3, <3>1, OtherInv
  <2> QED BY <2>4, <2>5
<1> QED BY <1>2, <1>3, <1>4, <1>5 DEF Flight

(* A handler is called.                                                     *)
LEMMA DoInv ==
  ASSUME IInv, NEW h \in DOMAIN Handlers, NEW ok \in BOOLEAN, Do(h, ok) PROVE IInv'
<1> SUFFICES ASSUME NEW q, q = pos PROVE IInv'
  OBVIOUS
<1> DEFINE c == [id |-> ev.id, table |-> table]
<1>1. /\ run = "do" /\ run' = "do" /\ h \in todo /\ todo' = todo \ {h} /\ called' = [called EXCEPT ![h] = Append(@, c)]
      /\ LoopFrame /\ UNCHANGED <<status, saved, table, cache, flight, missed>>
  BY DEF Do, LoopFrame, InLoop, syncerVars, streamVars, restVars
<1>2. /\ IsLog(log) /\ Grows /\ SyncerInv' /\ Reached' = q /\ Reached = q /\ LoopInv(q) /\ q \in Positions /\ q[2] >= 4
      /\ ~Fresh' /\ spc' # "none" /\ log' = log /\ ev' = ev /\ pos' = q /\ CanalTypes /\ UNCHANGED <<first, before, skipped>>
  BY <1>1, FrameFacts DEF LoopFrame, IInv
<1>3. /\ Written(ev) /\ EndOf(ev.id) = q /\ Open /\ Open' /\ Allowed(ev.table)
      /\ table.shared \/ table.version = -2 \/ table.version >= VersionAt(ev.table, ev.id)
  BY <1>1 DEF IInv, RowsInv, Open
<1>4. ev.id \in Ids /\ ev.id \in Positions /\ ev.table = log[ev.id[1]][ev.id[2]].table /\ ev.id[1] \in Nat /\ ev.id[2] \in Nat
  BY <1>2, <1>3, WrittenFacts, IdTypes
<1>5. c \in Calls /\ c.id = ev.id /\ c.table = table
  BY <1>2, <1>4 DEF Calls, CanalTypes
<1>6. Recent(c)
  BY <1>3, <1>4, <1>5 DEF Recent
<1> HIDE DEF c
<1>7. /\ called' \in [DOMAIN Handlers -> Seq(Calls)] /\ called[h] \in Seq(Calls) /\ called'[h] = Append(called[h], c)
      /\ \A g \in DOMAIN Handlers : g # h => called'[g] = called[g]
  <2>1. called \in [DOMAIN Handlers -> Seq(Calls)]
    BY <1>2 DEF CanalTypes
  <2>2. called' = [called EXCEPT ![h] = Append(@, c)] /\ c \in Calls
    BY <1>1, <1>5
  <2>3. called[h] \in Seq(Calls)
    BY <2>1
  <2>4. Append(called[h], c) \in Seq(Calls)
    BY <2>2, <2>3
  <2>5. called'[h] = Append(called[h], c) /\ \A g \in DOMAIN Handlers : g # h => called'[g] = called[g]
    BY <2>1, <2>2
  <2>6. called' \in [DOMAIN Handlers -> Seq(Calls)]
    BY <2>1, <2>2, <2>4
  <2> QED BY <2>3, <2>5, <2>6
<1>0. Longer(called[h], c, called'[h])
  BY <1>5, <1>7, Appended
<1>8. /\ \A k \in DOMAIN called[h] : k \in DOMAIN called'[h] /\ called'[h][k] = called[h][k]
      /\ \A k \in 1..(Len(called'[h]) - 1) :
           /\ k \in DOMAIN called[h] /\ called'[h][k] = called[h][k]
           /\ k = Len(called[h]) => called'[h][k + 1] = c
           /\ k # Len(called[h]) => k \in 1..(Len(called[h]) - 1) /\ called'[h][k + 1] = called[h][k + 1]
  BY <1>0 DEF Longer
<1>9. /\ Len(called[h]) + 1 \in DOMAIN called'[h] /\ called'[h][Len(called[h]) + 1] = c
       /\ \A k \in DOMAIN called'[h] : k \in DOMAIN called[h] \/ called'[h][k] = c
  <2>1. Len(called[h]) + 1 \in DOMAIN called'[h] /\ \A k \in DOMAIN called'[h] : k \in DOMAIN called[h] \/ called'[h][k] = c
    BY <1>0, AppendedLast
  <2> QED BY <1>0, <2>1 DEF Longer
<1>10. Progress /\ Handled(h, ev.id)'
  <2>1. Handled(h, ev.id)'
    <3>1. Len(called[h]) + 1 \in DOMAIN called'[h] /\ called'[h][Len(called[h]) + 1].id = ev.id
      BY <1>5, <1>9
    <3> QED BY <1>2, <3>1 DEF Handled
  <2>2. \A g \in DOMAIN Handlers : \A id : Handled(g, id) => Handled(g, id)'
    <3>1. ASSUME NEW id, Handled(h, id) PROVE Handled(h, id)'
      <4>1. CASE id \in before[h]
        BY <1>2, <4>1 DEF Handled
      <4>2. ASSUME NEW k \in DOMAIN called[h], called[h][k].id = id PROVE Handled(h, id)'
        <5>1. k \in DOMAIN called'[h] /\ called'[h][k].id = id
          BY <1>8, <4>2
        <5> QED BY <5>1 DEF Handled
      <4> QED BY <3>1, <4>1, <4>2 DEF Handled
    <3>2. ASSUME NEW g \in DOMAIN Handlers, g # h, NEW id, Handled(g, id) PROVE Handled(g, id)'
      BY <1>2, <1>7, <3>2 DEF Handled
    <3> QED BY <3>1, <3>2
  <2> QED BY <1>1, <1>2, <2>1, <2>2 DEF Progress
<1>11. StatusInv' /\ StartInv' /\ CanalTypes'
  <2>1. StatusInv'
    BY <1>1, <1>2, <1>10, StatusStays DEF IInv
  <2>2. StartInv'
    BY <1>1, <1>2 DEF StartInv, InLoop
  <2>3. CanalTypes'
    BY <1>1, <1>2, <1>7 DEF CanalTypes, LoopFrame
  <2> QED BY <2>1, <2>2, <2>3
<1>12. \A k \in DOMAIN called[h] : Earlier(EndOf(called[h][k].id), q)
  BY <1>1, <1>2, <1>3 DEF LoopInv, CalledUpTo
<1>13. HistoryInv'
  <2>1. Ids' = Ids /\ \A d : Recent(d)' <=> Recent(d)
    BY <1>2, SameLog DEF Recent
  <2>2. \A k \in DOMAIN called'[h] : called'[h][k].id \in Ids /\ Recent(called'[h][k])
    BY <1>4, <1>5, <1>6, <1>8, <1>9 DEF IInv, HistoryInv
  <2>3. ASSUME NEW k \in 1..(Len(called'[h]) - 1) PROVE Earlier(called'[h][k].id, called'[h][k + 1].id)
    <3>1. CASE k = Len(called[h])
      <4>1. k \in DOMAIN called[h] /\ called'[h][k] = called[h][k] /\ called'[h][k + 1].id = ev.id
        BY <1>5, <1>8, <2>3, <3>1
      <4>2. Earlier(EndOf(called[h][k].id), EndOf(ev.id)) /\ called[h][k].id \in Ids
        BY <1>3, <1>12, <4>1 DEF IInv, HistoryInv
      <4>3. called[h][k].id[1] \in Nat /\ called[h][k].id[2] \in Nat
        BY <1>2, <4>2, IdTypes
      <4>4. ASSUME NEW x, NEW y, x[1] \in Nat, x[2] \in Nat, y[1] \in Nat, y[2] \in Nat, Earlier(EndOf(x), EndOf(y))
            PROVE  Earlier(x, y)
        BY <4>4 DEF Earlier, EndOf
      <4>5. Earlier(called[h][k].id, ev.id)
        BY <1>4, <4>2, <4>3, <4>4
      <4> QED BY <4>1, <4>5
    <3>2. CASE k # Len(called[h])
      <4>1. k \in 1..(Len(called[h]) - 1) /\ called'[h][k] = called[h][k] /\ called'[h][k + 1] = called[h][k + 1]
        BY <1>8, <2>3, <3>2
      <4> QED BY <4>1 DEF IInv, HistoryInv
    <3> QED BY <3>1, <3>2
  <2>4. \A m : Gone(m)' <=> Gone(m)
    BY <1>2, SameLog DEF Gone
  <2>5. ASSUME NEW g \in DOMAIN Handlers
        PROVE  /\ \A k \in DOMAIN called'[g] : called'[g][k].id \in Ids /\ Recent(called'[g][k])
               /\ \A k \in 1..(Len(called'[g]) - 1) : Earlier(called'[g][k].id, called'[g][k + 1].id)
    BY <1>7, <2>2, <2>3 DEF IInv, HistoryInv
  <2> QED BY <1>1, <2>1, <2>4, <2>5 DEF IInv, HistoryInv, Recent
<1>14. RowsInv'
  <2>1. Written(ev)' /\ VersionAt(ev.table, ev.id)' = VersionAt(ev.table, ev.id)
    BY <1>2, <1>3, SameLog DEF Written, At, Ids, VersionAt, Changes, Earlier
  <2>2. \A g \in HandlersOf(ev.table) \ todo' : Handled(g, ev.id)'
    <3>1. ASSUME NEW g \in HandlersOf(ev.table), g \notin todo PROVE Handled(g, ev.id)'
      <4>1. Handled(g, ev.id) /\ g \in DOMAIN Handlers
        BY <1>1, <3>1 DEF IInv, RowsInv, HandlersOf
      <4> SUFFICES ASSUME NEW id, id = ev.id PROVE Handled(g, ev.id)'
        OBVIOUS
      <4>2. Handled(g, id)'
        BY <1>10, <4>1 DEF Progress
      <4> QED BY <1>2, <4>2 DEF Handled
    <3> QED BY <1>1, <1>10, <3>1
  <2> QED BY <1>1, <1>2, <1>3, <2>1, <2>2 DEF IInv, RowsInv, EndOf, Allowed, HandlersOf, Handled
<1>15. LoopInv(q)'
  <2>1. InLog(q)' /\ CacheUpTo(q)' /\ Ids' = Ids
    BY <1>1, <1>2, SameLog, CacheStays DEF LoopInv, CacheKept
  <2>2. \A id \in Ids : Settled(id) => Settled(id)'
    BY <1>2, <1>10, SettledStays
  <2>3. SettledBut(q)'
    BY <1>2, <1>3, <2>1, <2>2 DEF LoopInv, SettledBut, Behindhand, UpTo, EndOf, Earlier
  <2>4. CalledUpTo(q)'
    <3>1. ASSUME NEW g \in DOMAIN Handlers, NEW k \in DOMAIN called'[g]
          PROVE  UpTo(q, called'[g][k].id) /\ (g \in todo' => Earlier(EndOf(called'[g][k].id), q))
      <4>1. CASE g # h
        BY <1>1, <1>2, <1>3, <1>7, <4>1 DEF LoopInv, CalledUpTo
      <4>2. CASE g = h /\ k \in DOMAIN called[h]
        BY <1>1, <1>2, <1>8, <4>2 DEF LoopInv, CalledUpTo
      <4>3. CASE g = h /\ k \notin DOMAIN called[h]
        <5>1. called'[g][k].id = ev.id
          BY <1>5, <1>9, <3>1, <4>3
        <5>2. ~Earlier(q, EndOf(ev.id))
          BY <1>2, <1>3, NotEarlier
        <5>3. h \notin todo'
          BY <1>1
        <5> QED BY <4>3, <5>1, <5>2, <5>3 DEF UpTo
      <4> QED BY <4>1, <4>2, <4>3
    <3> QED BY <1>1, <3>1 DEF CalledUpTo, UpTo, EndOf, Earlier
  <2> QED BY <1>1, <1>2, <2>1, <2>3, <2>4 DEF LoopInv
<1>16. LoopInv(Reached)'
  BY <1>2, <1>15, LoopHere
<1> QED BY <1>2, <1>11, <1>13, <1>14, <1>16 DEF IInv

(* The place behind the last event of the log.                              *)
LEMMA MasterPlace ==
  ASSUME IsLog(log) PROVE IsPlace(MasterPos)
<1>1. Len(log) \in DOMAIN log /\ Len(log) \in Nat /\ log[Len(log)] \in Seq(Entries)
  BY DEF IsLog
<1>2. Len(log[Len(log)]) \in Nat
  BY <1>1
<1> QED BY SMTT(60), Z3T(60), <1>1, <1>2 DEF MasterPos, IsPlace, InLog, Positions

(* A process begins: its cache is empty, and no handler was called.         *)
LEMMA EmptyCache ==
  ASSUME cache' = [t \in Tables |-> -1] PROVE cache' \in [Tables -> Versions] /\ \A p : CacheUpTo(p)'
BY DEF CacheUpTo, Versions

LEMMA RestartInv ==
  ASSUME IInv, Restart PROVE IInv'
<1>1. /\ NewSyncer /\ log' = log /\ status' = StartPos(saved) /\ skipped' = (skipped \/ StartPos(saved) # saved)
      /\ before' = [h \in DOMAIN Handlers |-> before[h] \cup {called[h][k].id : k \in DOMAIN called[h]}]
      /\ called' = [h \in DOMAIN Handlers |-> <<>>]
      /\ run' = "idle" /\ pos' = NoPos /\ ev' = Artificial("none", NoPos)
      /\ table' = [version |-> -1, shared |-> FALSE]
      /\ cache' = [t \in Tables |-> -1] /\ flight' = NoFlight /\ UNCHANGED <<saved, first, missed>>
  BY DEF Restart
<1>2. IsLog(log) /\ IsLog(log') /\ CanalTypes /\ Grows /\ Ids' = Ids
  BY <1>1, SameLog DEF IInv, SyncerInv, SyncerTypes
<1>3. SyncerInv' /\ spc' = "none"
  BY <1>1, <1>2, SyncerBegins DEF NewSyncer
<1>4. ~InLoop' /\ ~Open'
  BY <1>1 DEF InLoop, Open
<1>5. Progress
  <2>1. ASSUME NEW h \in DOMAIN Handlers, NEW id, Handled(h, id) PROVE Handled(h, id)'
    <3>1. before'[h] = before[h] \cup {called[h][k].id : k \in DOMAIN called[h]}
      BY <1>1
    <3>2. id \in before'[h]
      BY <2>1, <3>1 DEF Handled
    <3> QED BY <3>2 DEF Handled
  <2>2. first' = first /\ (skipped => skipped') /\ missed \subseteq missed'
    BY <1>1
  <2> QED BY <1>2, <2>1, <2>2 DEF Progress
<1>6. IsPlace(StartPos(saved)) /\ StartPos(saved) \in Positions
  <2>1. CASE saved[1] > 0 /\ saved[2] > 0
    <3>1. saved # NoPos
      BY SMTT(60), Z3T(60), <2>1 DEF NoPos
    <3> QED BY SMTT(60), Z3T(60), <2>1, <3>1 DEF IInv, StatusInv, Mark, StartPos, IsPlace, InLog
  <2>2. CASE ~(saved[1] > 0 /\ saved[2] > 0)
    BY <1>2, <2>2, MasterPlace DEF StartPos, IsPlace, InLog
  <2> QED BY <2>1, <2>2
<1>7. StatusInv'
  <2> SUFFICES ASSUME NEW q, q = StartPos(saved) PROVE StatusInv'
    OBVIOUS
  <2>1. Mark(q) /\ status' = q
    BY <1>1, <1>6 DEF Mark, IsPlace
  <2>2. SettledUpTo(q)'
    <3>1. CASE q = saved
      <4>1. saved # NoPos
        BY SMTT(60), Z3T(60), <1>6, <3>1 DEF IsPlace, NoPos
      <4>2. SettledUpTo(q) /\ InLog(q)
        BY <1>6, <3>1, <4>1 DEF IInv, StatusInv, IsPlace
      <4> QED BY <1>2, <1>5, <4>2, SettledUpToStays
    <3>2. CASE q # saved
      <4>1. skipped'
        BY <1>1, <3>2
      <4> QED BY <4>1 DEF SettledUpTo, Settled
    <3> QED BY <3>1, <3>2
  <2> QED BY <1>1, <1>2, <1>5, <2>1, <2>2, StatusKept DEF IInv
<1>8. HistoryInv'
  <2>1. \A m \in missed' : m.id \in Ids' /\ Gone(m)'
    <3>1. \A m : Gone(m)' <=> Gone(m)
      BY <1>1, <1>2, SameLog DEF Gone
    <3> QED BY <1>1, <1>2, <3>1 DEF IInv, HistoryInv
  <2>2. \A h \in DOMAIN Handlers : called'[h] = <<>>
    BY <1>1
  <2> QED BY <2>1, <2>2 DEF HistoryInv
<1>9. StartInv'
  <2>1. IsPlace(status)'
    BY <1>1, <1>6 DEF IsPlace, InLog
  <2>2. CacheUpTo(status)'
    BY <1>1, EmptyCache DEF CacheUpTo
  <2>3. \A h \in DOMAIN Handlers : called'[h] = <<>>
    BY <1>1
  <2> QED BY <1>1, <1>3, <1>4, <2>1, <2>2, <2>3 DEF StartInv
<1>10. CanalTypes'
  <2>1. NoPos \in Positions /\ ev' \in Events /\ table' \in [version : Int, shared : BOOLEAN]
    BY SMTT(60), Z3T(60), <1>1, FirstDump DEF NoPos, Positions
  <2>2. called' \in [DOMAIN Handlers -> Seq(Calls)] /\ cache' \in [Tables -> Versions]
    BY <1>1 DEF Versions
  <2> QED BY <1>1, <1>2, <1>6, <2>1, <2>2 DEF CanalTypes, NoFlight
<1>11. RowsInv'
  BY <1>1, <1>4 DEF RowsInv
<1> QED BY <1>3, <1>4, <1>7, <1>8, <1>9, <1>10, <1>11 DEF IInv

(* The first process.                                                       *)
LEMMA InitInv ==
  ASSUME Init PROVE IInv
<1>1. PICK s \in Scenarios : log = s.log /\ SyncerInit /\ status = StartPos(s.from) /\ first = status /\ CanalInit
  BY DEF Init
<1>2. IsLog(log) /\ SyncerInv /\ spc = "none"
  BY <1>1, CanalAssumption, SyncerInitInv DEF SyncerInit
<1>3. IsPlace(status)
  <2>1. CASE s.from = NoPos
    BY SMTT(60), Z3T(60), <1>1, <1>2, <2>1, MasterPlace DEF StartPos, NoPos
  <2>2. CASE s.from # NoPos
    <3>1. s.from \in Nat \X Nat /\ s.from[1] \in DOMAIN log /\ s.from[2] \in 4..(4 + Len(log[s.from[1]]))
      BY <1>1, <2>2, CanalAssumption
    <3>2. Len(log[s.from[1]]) \in Nat /\ s.from[1] > 0
      <4>1. Len(log[s.from[1]]) \in Nat /\ Len(log) \in Nat /\ s.from[1] \in 1..Len(log)
        BY <1>2, <3>1, FileFacts
      <4> QED BY <4>1
    <3> QED BY <1>1, <3>1, <3>2 DEF StartPos, IsPlace, InLog, Positions
  <2> QED BY <2>1, <2>2
<1>4. status \in Positions /\ first \in Positions /\ Mark(status)
  BY <1>1, <1>3 DEF IsPlace, InLog, Mark
<1>5. SettledUpTo(status)
  <2>1. ASSUME NEW id \in Ids, Behindhand(id), UpTo(status, id) PROVE FALSE
    BY <1>1, <2>1 DEF Behindhand, UpTo
  <2> QED BY <2>1 DEF SettledUpTo
<1>6. StatusInv
  BY <1>1, <1>4, <1>5 DEF StatusInv, CanalInit
<1>7. CanalTypes
  <2>1. NoPos \in Positions /\ Artificial("none", NoPos) \in Events
    BY FirstDump DEF NoPos, Positions
  <2>2. called \in [DOMAIN Handlers -> Seq(Calls)] /\ cache \in [Tables -> Versions]
    BY <1>1 DEF Versions, CanalInit
  <2> QED BY SMTT(60), Z3T(60), <1>1, <1>4, <2>1, <2>2 DEF CanalTypes, CanalInit, NoFlight
<1>8. HistoryInv /\ RowsInv /\ ~InLoop
  <2>1. run = "idle" /\ missed = {} /\ called = [h \in DOMAIN Handlers |-> <<>>]
    BY <1>1 DEF CanalInit
  <2>2. \A h \in DOMAIN Handlers : DOMAIN called[h] = {} /\ 1..(Len(called[h]) - 1) = {}
    BY <2>1
  <2>3. HistoryInv
    BY <2>1, <2>2 DEF HistoryInv
  <2> QED BY <2>1, <2>3 DEF RowsInv, InLoop, Open
<1>9. StartInv
  <2>1. CacheUpTo(status) /\ \A h \in DOMAIN Handlers : called[h] = <<>>
    <3>1. cache = [t \in Tables |-> -1] /\ called = [h \in DOMAIN Handlers |-> <<>>]
      BY <1>1 DEF CanalInit
    <3> QED BY <3>1 DEF CacheUpTo
  <2> QED BY <1>1, <1>2, <1>3, <1>8, <2>1 DEF StartInv, CanalInit
<1> QED BY <1>2, <1>6, <1>7, <1>8, <1>9 DEF IInv
-----------------------------------------------------------------------------
LEMMA NextInv ==
  ASSUME IInv, Next PROVE IInv'
<1>1. CASE \E ts \in Statements : Commit(ts)
  BY <1>1, CommitInv
<1>2. CASE \E t \in Tables, kind \in {"alter", "drop"} : ChangeTable(t, kind)
  BY <1>2, ChangeTableInv
<1>3. CASE Rotate \/ WaitUntilPos
  BY <1>3, FlushInv
<1>4. CASE Fault \/ Stream
  BY <1>4, StreamInv
<1>5. CASE Restart
  BY <1>5, RestartInv
<1>6. CASE Run
  <2>1. CASE CheckSyncer \/ GetError
    BY <2>1, EndsInv
  <2>2. CASE CallStartSync
    BY <2>2, CallStartSyncInv
  <2>3. CASE TakeEvent
    BY <2>3, TakeEventInv
  <2>4. CASE HandlersDone
    BY <2>4, HandlersDoneInv
  <2>5. CASE \E ok \in BOOLEAN : FlushHandlers(ok) \/ HandleRows(ok)
    BY <2>5, FlushHandlersInv, HandleRowsInv
  <2>6. CASE \E h \in DOMAIN Handlers, ok \in BOOLEAN : Do(h, ok)
    BY <2>6, DoInv
  <2> QED BY <1>6, <2>1, <2>2, <2>3, <2>4, <2>5, <2>6 DEF Run
<1>7. CASE Start \/ GetTimeout
  BY <1>7, EndsInv
<1>8. CASE (\E t \in Tables : FindTable(t)) \/ Flight
  BY <1>8, FlightInv
<1>9. CASE CloseCalled \/ CloseAgain \/ Close \/ CatchMasterPos \/ ComparePos \/ WaitFails
  BY <1>9, CloseInv
<1> QED BY <1>1, <1>2, <1>3, <1>4, <1>5, <1>6, <1>7, <1>8, <1>9 DEF Next

LEMMA StutterInv ==
  ASSUME IInv, UNCHANGED vars PROVE IInv'
<1>1. UNCHANGED <<log, dump, nextPos, spc, hand, bleChan, pushed, running, ctxDone, flight, cache>> /\ LoopStays
  BY DEF vars, syncerVars, streamVars, canalVars, loopVars, restVars, LoopStays
<1>2. IsLog(log) /\ CanalTypes
  BY DEF IInv, SyncerInv, SyncerTypes
<1>3. CacheKept /\ (Fresh' => Fresh)
  BY <1>1, <1>2, SameLog, CacheStays DEF Fresh
<1>4. flight'.result \in Int /\ (flight'.pc \in {"load", "get"} => flight'.table \in Tables)
  BY <1>1, <1>2 DEF CanalTypes
<1> QED BY <1>1, <1>3, <1>4, OtherInv

(* Every step of the server, the stream, the goroutine of Start, FindTable, *)
(* Close, CatchMasterPos and a crash keeps the invariant.                   *)
THEOREM Invariance == Spec => []IInv
<1>1. Init => IInv
  BY InitInv
<1>2. IInv /\ [Next]_vars => IInv'
  BY NextInv, StutterInv
<1> QED BY <1>1, <1>2, PTL DEF Spec

(* masterStatus and the position that masterSave wrote cover only rows      *)
(* events whose handlers were called, or that were passed over for one of   *)
(* the two reasons, and the calls are in the order of the log.              *)
THEOREM PositionCoversHandled == Spec => []SyncedMeansHandled
<1>1. IInv => SyncedMeansHandled
  <2> SUFFICES ASSUME IInv PROVE SyncedMeansHandled
    OBVIOUS
  <2>1. \A h \in DOMAIN Handlers : \A k \in 1..(Len(called[h]) - 1) : Earlier(called[h][k].id, called[h][k + 1].id)
    BY DEF IInv, HistoryInv
  <2>2. ASSUME NEW id \in Ids, Due(id), Covers(status, id) \/ Covers(saved, id) PROVE Settled(id)
    <3>1. IsLog(log) /\ id[1] \in Nat /\ id[2] \in Nat
      BY IdTypes DEF IInv, SyncerInv, SyncerTypes
    <3>2. Covers(saved, id) => saved # NoPos
      <4>1. id[1] \in 1..Len(log) /\ Len(log) \in Nat
        BY <3>1, IdTypes
      <4>2. id[1] >= 1
        BY <4>1
      <4> QED BY SMTT(60), Z3T(60), <3>1, <4>2 DEF Covers, Earlier, NoPos
    <3>3. (SettledUpTo(status) /\ Covers(status, id)) \/ (SettledUpTo(saved) /\ Covers(saved, id))
      BY <2>2, <3>2 DEF IInv, StatusInv
    <3> QED BY <3>3 DEF SettledUpTo, Covers, Behindhand, UpTo, EndOf
  <2>3. ASSUME NEW id \in Ids, log[id[1]][id[2]].kind = "rows", Allowed(log[id[1]][id[2]].table),
               Covers(status, id) \/ Covers(saved, id)
        PROVE  \/ skipped \/ \E m \in missed : m.id = id
               \/ \A h \in HandlersOf(log[id[1]][id[2]].table) : Handled(h, id)
    BY <2>2, <2>3 DEF Due, Settled, Missed
  <2> QED BY <2>1, <2>3 DEF SyncedMeansHandled
<1> QED BY <1>1, Invariance, PTL

(* A handler gets a structure of its table that is at least as new as the   *)
(* event, and the loop passes over an event only if its table is gone,      *)
(* unless FindTable joined the load of another goroutine.                   *)
THEOREM HandlersSeeRecentTables == Spec => []StructureIsRecent
<1>1. IInv => StructureIsRecent
  BY DEF IInv, HistoryInv, Recent, Gone, StructureIsRecent
<1> QED BY <1>1, Invariance, PTL

(* However often the connection breaks, onStream puts the events of the log *)
(* into the channel one after the other, none twice and none left out.      *)
THEOREM StreamFollowsTheLogInOrder == Spec => []EventsOnceInOrder
<1>1. IInv => EventsOnceInOrder
  <2> SUFFICES ASSUME IInv PROVE EventsOnceInOrder
    OBVIOUS
  <2>1. ASSUME spc = "read", pushed # <<>> PROVE nextPos = Behind(pushed[Len(pushed)])
    <3>1. nextPos # NoPos /\ nextPos = DumpPos
      BY <2>1 DEF IInv, SyncerInv, PlaceInv, DumpInv
    <3>2. Behind(pushed[Len(pushed)]) = DumpPos
      BY <2>1 DEF IInv, SyncerInv, PushedInv, Streaming, Frontier
    <3> QED BY <3>1, <3>2
  <2> QED BY <2>1 DEF IInv, SyncerInv, PushedInv, EventsOnceInOrder
<1> QED BY <1>1, Invariance, PTL
=============================================================================
