------------------------- MODULE ConfigPubSubProofs -------------------------
(***************************************************************************)
(* Proofs about ConfigPubSub, for any number of senders, closers, paths,   *)
(* topics, subscriptions and messages.                                     *)
(***************************************************************************)
EXTENDS ConfigPubSub, TLAPS

(* Zenon first: most leaves are first-order and fast; SMT has the rest.     *)
USE ZenonT(20), SMTT(60), Z3T(60)

(* The five levels of a path that publish() looks up are five different     *)
(* topics, because a valid path has at least five segments.                 *)
LEMMA LevelsDiffer ==
  ASSUME NEW p \in Paths, NEW k \in 1..5, NEW l \in 1..5, k # l
  PROVE  Level(p, Levels[k]) # Level(p, Levels[l])
<1>1. p \in Seq(Segments) /\ Len(p) \in Nat /\ Len(p) >= 5
  BY PubSubAssumption
<1>2. ASSUME NEW d \in 1..4 PROVE Len(SubSeq(p, 1, d)) = d
  BY <1>1
<1>3. ASSUME NEW j \in 1..5 PROVE Len(Level(p, Levels[j])) = IF j = 5 THEN Len(p) ELSE j
  <2>1. CASE j = 5
    BY <2>1, <1>1 DEF Level, Levels
  <2>2. CASE j \in 1..4
    <3>1. Levels[j] = j
      BY <2>2 DEF Levels
    <3>2. Level(p, Levels[j]) = SubSeq(p, 1, j)
      BY <3>1, <2>2, <1>1 DEF Level
    <3>3. j # 5 /\ Len(SubSeq(p, 1, j)) = j
      BY SMTT(60), Z3T(60), <2>2, <1>2
    <3> QED BY <3>2, <3>3
  <2>3. j = 5 \/ j \in 1..4
    OBVIOUS
  <2> QED BY <2>1, <2>2, <2>3
<1> DEFINE a == Level(p, Levels[k])
           b == Level(p, Levels[l])
<1>4. Len(a) = (IF k = 5 THEN Len(p) ELSE k) /\ Len(b) = (IF l = 5 THEN Len(p) ELSE l)
  BY <1>3
<1>5. Len(a) # Len(b)
  <2> HIDE DEF a, b
  <2> QED BY <1>4, <1>1
<1> QED BY <1>5

(* None of these levels is the empty topic.                                 *)
LEMMA LevelsNotEmpty ==
  ASSUME NEW p \in Paths, NEW k \in 1..5
  PROVE  Level(p, Levels[k]) # <<>>
<1>1. p \in Seq(Segments) /\ Len(p) \in Nat /\ Len(p) >= 5
  BY PubSubAssumption
<1>2. CASE k = 5
  BY <1>1, <1>2 DEF Level, Levels
<1>3. CASE k \in 1..4
  <2>1. Levels[k] = k
    BY <1>3 DEF Levels
  <2>2. Level(p, Levels[k]) = SubSeq(p, 1, k) /\ Len(SubSeq(p, 1, k)) = k
    BY <2>1, <1>3, <1>1 DEF Level
  <2>3. Len(<<>>) = 0
    OBVIOUS
  <2>4. Len(Level(p, Levels[k])) # Len(<<>>)
    <3>1. Len(Level(p, Levels[k])) = k
      BY <2>2
    <3> QED BY <3>1, <2>3, <1>3
  <2> QED BY <2>4
<1>4. k = 5 \/ k \in 1..4
  OBVIOUS
<1> QED BY <1>2, <1>3, <1>4
-----------------------------------------------------------------------------
(* The inductive invariant.  A removed subscription is not in the map, and  *)
(* an ID that has not been given out yet has no history.                    *)
SubInv ==
  \A i \in SubIds :
    /\ i \in gone => topic[i] = <<>>
    /\ i > subAutoInc => /\ topic[i] = <<>>
                         /\ i \notin gone /\ i \notin failed /\ i \notin evict
                         /\ \A n \in Nat : <<n, i>> \notin called

(* What is sent and what is published are paths; messages are numbered.     *)
PathInv ==
  /\ \A s \in Senders : spc[s] = "sending" => spath[s] \in Paths
  /\ ppc \in {"levels", "calling"} => cur \in Paths
  /\ \A n \in Nat, i \in SubIds : <<n, i>> \in called => n <= nMsgs

(* The pending subscriptions are those of the level in the map.             *)
PendInv ==
  /\ ppc = "calling" => \A i \in pending : topic[i] = Level(cur, Levels[level])
  /\ ppc \in {"select", "levels", "evict"} => pending = {}

(* A subscription that was called for this message is gone, or its topic is *)
(* a level that lies behind the publisher.                                  *)
OnceInv ==
  \A i \in SubIds : <<nMsgs, i>> \in called =>
    /\ ppc = "levels" => \/ topic[i] = <<>>
                         \/ \E k \in 1..5 : k < level /\ topic[i] = Level(cur, Levels[k])
    /\ ppc = "calling" => \/ topic[i] = <<>>
                          \/ i \notin pending /\ \E k \in 1..5 : k <= level /\ topic[i] = Level(cur, Levels[k])

(* A subscription that failed is gone, or was called for this message and   *)
(* waits for its removal.                                                   *)
FailInv ==
  \A i \in failed :
    \/ topic[i] = <<>>
    \/ i \in evict /\ <<nMsgs, i>> \in called /\ ppc \in {"levels", "calling", "evict", "stuck", "crashed"}

(* Close has its answer from the publisher, or someone closed the channel.  *)
CloseInv ==
  \A c \in Closers :
    /\ cpc[c] = "closed" => ppc = "exited"
    /\ cpc[c] = "answered" /\ "closeErr" \notin closedChans => ppc = "exited"

IInv == TypeOK /\ SubInv /\ PathInv /\ PendInv /\ OnceInv /\ FailInv /\ CloseInv
-----------------------------------------------------------------------------
(* Initially the invariant holds.                                           *)
LEMMA InitInv == Init => IInv
<1> SUFFICES ASSUME Init PROVE IInv
  OBVIOUS
<1>1. TypeOK
  <2>1. 0 \in 0..MaxSubs /\ 0 \in 0..MaxSends
    BY PubSubAssumption
  <2>2. /\ topic \in [SubIds -> Topics \cup {<<>>}] /\ spath \in [Senders -> Paths \cup {<<>>}]
        /\ cur \in Paths \cup {<<>>}
    BY DEF Init
  <2>3. level \in 1..5 /\ nMsgs \in Nat
    BY DEF Init
  <2> QED BY <2>1, <2>2, <2>3 DEF Init, TypeOK
<1>2. SubInv /\ PendInv /\ OnceInv /\ FailInv
  BY DEF Init, SubInv, PendInv, OnceInv, FailInv
<1>3. PathInv /\ CloseInv
  BY DEF Init, PathInv, CloseInv
<1> QED BY <1>1, <1>2, <1>3 DEF IInv

(* Every action preserves it.                                               *)
LEMMA NextInv == IInv /\ [Next]_vars => IInv'
<1> SUFFICES ASSUME IInv, [Next]_vars PROVE IInv'
  OBVIOUS
<1> USE PubSubAssumption DEF SubIds
<1>1. ASSUME NEW t \in Topics, Subscribe(t) PROVE IInv'
  <2>1. TypeOK'
    BY SMTT(60), Z3T(60), <1>1 DEF IInv, TypeOK, PathInv, Subscribe, vars, subVars, chanVars, pubVars, sendVars, RLocked
  <2>2. SubInv'
    BY SMTT(60), Z3T(60), <1>1 DEF IInv, TypeOK, SubInv, Subscribe, vars, subVars, chanVars, pubVars, sendVars, RLocked
  <2>3. PathInv'
    BY <1>1 DEF IInv, TypeOK, PathInv, Subscribe, vars, subVars, chanVars, pubVars, sendVars, RLocked
  <2>4. PendInv'
    BY <1>1 DEF IInv, TypeOK, PendInv, Subscribe, vars, subVars, chanVars, pubVars, sendVars, RLocked
  <2>5. OnceInv'
    BY SMTT(60), Z3T(60), <1>1 DEF IInv, TypeOK, SubInv, OnceInv, Subscribe, vars, subVars, chanVars, pubVars, sendVars, RLocked
  <2>6. FailInv'
    BY SMTT(60), Z3T(60), <1>1 DEF IInv, TypeOK, SubInv, FailInv, Subscribe, vars, subVars, chanVars, pubVars, sendVars, RLocked
  <2>7. CloseInv'
    BY <1>1 DEF IInv, TypeOK, CloseInv, Subscribe, vars, subVars, chanVars, pubVars, sendVars, RLocked
  <2> QED BY <2>1, <2>2, <2>3, <2>4, <2>5, <2>6, <2>7 DEF IInv
<1>2. ASSUME NEW i \in SubIds, Unsubscribe(i) PROVE IInv'
  <2>1. TypeOK'
    BY <1>2 DEF IInv, TypeOK, PathInv, Unsubscribe, vars, subVars, chanVars, pubVars, sendVars, Remove, RLocked
  <2>2. SubInv'
    BY SMTT(60), Z3T(60), <1>2 DEF IInv, TypeOK, SubInv, Unsubscribe, vars, subVars, chanVars, pubVars, sendVars, Remove, RLocked
  <2>3. PathInv'
    BY <1>2 DEF IInv, TypeOK, PathInv, Unsubscribe, vars, subVars, chanVars, pubVars, sendVars, Remove, RLocked
  <2>4. PendInv'
    BY <1>2 DEF IInv, TypeOK, PendInv, Unsubscribe, vars, subVars, chanVars, pubVars, sendVars, Remove, RLocked
  <2>5. OnceInv'
    BY <1>2 DEF IInv, TypeOK, OnceInv, Unsubscribe, vars, subVars, chanVars, pubVars, sendVars, Remove, RLocked
  <2>6. FailInv'
    BY <1>2 DEF IInv, TypeOK, FailInv, Unsubscribe, vars, subVars, chanVars, pubVars, sendVars, Remove, RLocked
  <2>7. CloseInv'
    BY <1>2 DEF IInv, TypeOK, CloseInv, Unsubscribe, vars, subVars, chanVars, pubVars, sendVars, Remove, RLocked
  <2> QED BY <2>1, <2>2, <2>3, <2>4, <2>5, <2>6, <2>7 DEF IInv
<1>3. ASSUME NEW s \in Senders, NEW p \in Paths, SendCheck(s, p) PROVE IInv'
  <2>1. TypeOK'
    <3>1. CASE closed
      BY SMTT(60), Z3T(60), <1>3, <3>1 DEF IInv, TypeOK, SendCheck, vars, subVars, chanVars, pubVars, sendVars
    <3>2. CASE ~closed
      <4>1. nSends' \in 0..MaxSends
        BY SMTT(60), Z3T(60), <1>3 DEF IInv, TypeOK, SendCheck
      <4>2. spc' = [spc EXCEPT ![s] = "sending"] /\ spath' = [spath EXCEPT ![s] = p]
        BY <1>3, <3>2 DEF SendCheck
      <4> QED BY <1>3, <4>1, <4>2 DEF IInv, TypeOK, SendCheck, vars, subVars, chanVars, pubVars, sendVars
    <3> QED BY <3>1, <3>2
  <2>2. SubInv'
    BY <1>3 DEF IInv, TypeOK, SubInv, SendCheck, vars, subVars, chanVars, pubVars, sendVars
  <2>3. PathInv'
    <3>1. /\ \A r \in Senders \ {s} : spc'[r] = spc[r] /\ spath'[r] = spath[r]
          /\ spc'[s] = "sending" => spath'[s] = p
          /\ UNCHANGED <<ppc, cur, called, nMsgs>>
      BY SMTT(60), Z3T(60), <1>3 DEF IInv, TypeOK, SendCheck, pubVars
    <3> QED BY <1>3, <3>1 DEF IInv, PathInv
  <2>4. PendInv'
    BY <1>3 DEF IInv, TypeOK, PendInv, SendCheck, vars, subVars, chanVars, pubVars, sendVars
  <2>5. OnceInv'
    BY <1>3 DEF IInv, TypeOK, OnceInv, SendCheck, vars, subVars, chanVars, pubVars, sendVars
  <2>6. FailInv'
    BY <1>3 DEF IInv, TypeOK, FailInv, SendCheck, vars, subVars, chanVars, pubVars, sendVars
  <2>7. CloseInv'
    BY <1>3 DEF IInv, TypeOK, CloseInv, SendCheck, vars, subVars, chanVars, pubVars, sendVars
  <2> QED BY <2>1, <2>2, <2>3, <2>4, <2>5, <2>6, <2>7 DEF IInv
<1>4. ASSUME NEW s \in Senders, SendPanics(s) PROVE IInv'
  <2>1. TypeOK'
    BY <1>4 DEF IInv, TypeOK, PathInv, SendPanics, vars, subVars, chanVars, pubVars, sendVars
  <2>2. SubInv'
    BY <1>4 DEF IInv, TypeOK, SubInv, SendPanics, vars, subVars, chanVars, pubVars, sendVars
  <2>3. PathInv'
    BY <1>4 DEF IInv, TypeOK, PathInv, SendPanics, vars, subVars, chanVars, pubVars, sendVars
  <2>4. PendInv'
    BY <1>4 DEF IInv, TypeOK, PendInv, SendPanics, vars, subVars, chanVars, pubVars, sendVars
  <2>5. OnceInv'
    BY <1>4 DEF IInv, TypeOK, OnceInv, SendPanics, vars, subVars, chanVars, pubVars, sendVars
  <2>6. FailInv'
    BY <1>4 DEF IInv, TypeOK, FailInv, SendPanics, vars, subVars, chanVars, pubVars, sendVars
  <2>7. CloseInv'
    BY <1>4 DEF IInv, TypeOK, CloseInv, SendPanics, vars, subVars, chanVars, pubVars, sendVars
  <2> QED BY <2>1, <2>2, <2>3, <2>4, <2>5, <2>6, <2>7 DEF IInv
<1>5. ASSUME NEW s \in Senders, PublishReceive(s) PROVE IInv'
  <2>1. TypeOK'
    BY SMTT(60), Z3T(60), <1>5 DEF IInv, TypeOK, PathInv, PublishReceive, vars, subVars, chanVars, pubVars, sendVars
  <2>2. SubInv'
    BY <1>5 DEF IInv, TypeOK, SubInv, PublishReceive, vars, subVars, chanVars, pubVars, sendVars
  <2>3. PathInv'
    BY SMTT(60), Z3T(60), <1>5 DEF IInv, TypeOK, PathInv, PublishReceive, vars, subVars, chanVars, pubVars, sendVars
  <2>4. PendInv'
    BY <1>5 DEF IInv, TypeOK, PendInv, PublishReceive, vars, subVars, chanVars, pubVars, sendVars
  <2>5. OnceInv'
    BY SMTT(60), Z3T(60), <1>5 DEF IInv, TypeOK, PathInv, OnceInv, PublishReceive, vars, subVars, chanVars, pubVars, sendVars
  <2>6. FailInv'
    BY <1>5 DEF IInv, TypeOK, FailInv, PublishReceive, vars, subVars, chanVars, pubVars, sendVars
  <2>7. CloseInv'
    BY <1>5 DEF IInv, TypeOK, CloseInv, PublishReceive, vars, subVars, chanVars, pubVars, sendVars
  <2> QED BY <2>1, <2>2, <2>3, <2>4, <2>5, <2>6, <2>7 DEF IInv
<1>6. ASSUME ReadMap PROVE IInv'
  <2>1. TypeOK'
    BY <1>6 DEF IInv, TypeOK, PathInv, ReadMap, vars, subVars, chanVars, pubVars, sendVars
  <2>2. SubInv'
    BY <1>6 DEF IInv, TypeOK, SubInv, ReadMap, vars, subVars, chanVars, pubVars, sendVars
  <2>3. PathInv'
    BY <1>6 DEF IInv, TypeOK, PathInv, ReadMap, vars, subVars, chanVars, pubVars, sendVars
  <2>4. PendInv'
    BY <1>6 DEF IInv, TypeOK, PendInv, ReadMap, vars, subVars, chanVars, pubVars, sendVars
  <2>5. OnceInv'
    <3> SUFFICES ASSUME NEW i \in SubIds, <<nMsgs, i>> \in called, topic[i] # <<>>
                 PROVE  i \notin pending' /\ \E k \in 1..5 : k <= level /\ topic[i] = Level(cur, Levels[k])
      BY <1>6 DEF OnceInv, ReadMap, subVars
    <3>1. PICK k \in 1..5 : k < level /\ topic[i] = Level(cur, Levels[k])
      BY <1>6 DEF IInv, OnceInv, ReadMap
    <3>2. level \in 1..5 /\ cur \in Paths
      BY <1>6 DEF IInv, TypeOK, PathInv, ReadMap
    <3>3. k # level /\ k <= level
      BY <3>1, <3>2
    <3>4. topic[i] # Level(cur, Levels[level])
      BY <3>1, <3>2, <3>3, LevelsDiffer
    <3> QED BY <1>6, <3>1, <3>3, <3>4 DEF ReadMap
  <2>6. FailInv'
    BY <1>6 DEF IInv, TypeOK, FailInv, ReadMap, vars, subVars, chanVars, pubVars, sendVars
  <2>7. CloseInv'
    BY <1>6 DEF IInv, TypeOK, CloseInv, ReadMap, vars, subVars, chanVars, pubVars, sendVars
  <2> QED BY <2>1, <2>2, <2>3, <2>4, <2>5, <2>6, <2>7 DEF IInv
<1>7. ASSUME NEW i \in SubIds, NEW ok \in BOOLEAN, CallSubscriber(i, ok) PROVE IInv'
  <2>1. TypeOK'
    BY SMTT(60), Z3T(60), <1>7 DEF IInv, TypeOK, PathInv, CallSubscriber, vars, subVars, chanVars, pubVars, sendVars
  <2>2. SubInv'
    <3>1. topic[i] # <<>>
      BY <1>7, LevelsNotEmpty DEF IInv, TypeOK, PathInv, PendInv, CallSubscriber
    <3>2. ~(i > subAutoInc)
      BY <3>1 DEF IInv, SubInv
    <3> QED BY <1>7, <3>2 DEF IInv, TypeOK, SubInv, CallSubscriber, vars, subVars, chanVars, pubVars, sendVars
  <2>3. PathInv'
    BY SMTT(60), Z3T(60), <1>7 DEF IInv, TypeOK, PathInv, CallSubscriber, vars, subVars, chanVars, pubVars, sendVars
  <2>4. PendInv'
    BY <1>7 DEF IInv, TypeOK, PendInv, CallSubscriber, vars, subVars, chanVars, pubVars, sendVars
  <2>5. OnceInv'
    <3> SUFFICES ASSUME NEW j \in SubIds, <<nMsgs, j>> \in called', topic[j] # <<>>
                 PROVE  j \notin pending' /\ \E k \in 1..5 : k <= level /\ topic[j] = Level(cur, Levels[k])
      BY <1>7 DEF OnceInv, CallSubscriber, subVars
    <3>1. CASE j = i
      <4>1. level \in 1..5 /\ topic[i] = Level(cur, Levels[level])
        BY <1>7 DEF IInv, TypeOK, PendInv, CallSubscriber
      <4>2. \E k \in 1..5 : k <= level /\ topic[i] = Level(cur, Levels[k])
        BY <4>1
      <4> QED BY <1>7, <3>1, <4>2 DEF CallSubscriber
    <3>2. CASE j # i
      <4>1. <<nMsgs, j>> \in called
        BY <1>7, <3>2 DEF CallSubscriber
      <4> QED BY <1>7, <4>1 DEF IInv, OnceInv, CallSubscriber
    <3> QED BY <3>1, <3>2
  <2>6. FailInv'
    BY <1>7 DEF IInv, TypeOK, FailInv, CallSubscriber, vars, subVars, chanVars, pubVars, sendVars
  <2>7. CloseInv'
    BY <1>7 DEF IInv, TypeOK, CloseInv, CallSubscriber, vars, subVars, chanVars, pubVars, sendVars
  <2> QED BY <2>1, <2>2, <2>3, <2>4, <2>5, <2>6, <2>7 DEF IInv
<1>8. ASSUME NEW i \in SubIds, CallReenters(i) PROVE IInv'
  <2>1. TypeOK'
    BY SMTT(60), Z3T(60), <1>8 DEF IInv, TypeOK, PathInv, CallReenters, vars, subVars, chanVars, pubVars, sendVars
  <2>2. SubInv'
    <3>1. topic[i] # <<>>
      BY <1>8, LevelsNotEmpty DEF IInv, TypeOK, PathInv, PendInv, CallReenters
    <3>2. ~(i > subAutoInc)
      BY <3>1 DEF IInv, SubInv
    <3> QED BY <1>8, <3>2 DEF IInv, TypeOK, SubInv, CallReenters, vars, subVars, chanVars, pubVars, sendVars
  <2>3. PathInv'
    BY SMTT(60), Z3T(60), <1>8 DEF IInv, TypeOK, PathInv, CallReenters, vars, subVars, chanVars, pubVars, sendVars
  <2>4. PendInv'
    BY <1>8 DEF IInv, TypeOK, PendInv, CallReenters, vars, subVars, chanVars, pubVars, sendVars
  <2>5. OnceInv'
    BY <1>8 DEF IInv, TypeOK, OnceInv, CallReenters, vars, subVars, chanVars, pubVars, sendVars
  <2>6. FailInv'
    BY <1>8 DEF IInv, TypeOK, FailInv, CallReenters, vars, subVars, chanVars, pubVars, sendVars
  <2>7. CloseInv'
    BY <1>8 DEF IInv, TypeOK, CloseInv, CallReenters, vars, subVars, chanVars, pubVars, sendVars
  <2> QED BY <2>1, <2>2, <2>3, <2>4, <2>5, <2>6, <2>7 DEF IInv
<1>9. ASSUME LevelDone PROVE IInv'
  <2>1. TypeOK'
    <3>1. Len(Levels) = 5
      BY DEF Levels
    <3>2. level' \in 1..5
      BY SMTT(60), Z3T(60), <1>9, <3>1 DEF IInv, TypeOK, LevelDone
    <3> QED BY <1>9, <3>2 DEF IInv, TypeOK, LevelDone, vars, subVars, chanVars, pubVars, sendVars
  <2>2. SubInv'
    BY <1>9 DEF IInv, TypeOK, SubInv, LevelDone, vars, subVars, chanVars, pubVars, sendVars
  <2>3. PathInv'
    BY <1>9 DEF IInv, TypeOK, PathInv, LevelDone, vars, subVars, chanVars, pubVars, sendVars
  <2>4. PendInv'
    BY <1>9 DEF IInv, TypeOK, PendInv, LevelDone, vars, subVars, chanVars, pubVars, sendVars
  <2>5. OnceInv'
    BY SMTT(60), Z3T(60), <1>9 DEF IInv, TypeOK, OnceInv, LevelDone, vars, subVars, chanVars, pubVars, sendVars
  <2>6. FailInv'
    BY <1>9 DEF IInv, TypeOK, FailInv, LevelDone, vars, subVars, chanVars, pubVars, sendVars
  <2>7. CloseInv'
    BY <1>9 DEF IInv, TypeOK, CloseInv, LevelDone, vars, subVars, chanVars, pubVars, sendVars
  <2> QED BY <2>1, <2>2, <2>3, <2>4, <2>5, <2>6, <2>7 DEF IInv
<1>10. ASSUME Evict PROVE IInv'
  <2>1. TypeOK'
    BY <1>10 DEF IInv, TypeOK, PathInv, Evict, vars, subVars, chanVars, pubVars, sendVars, Remove, RLocked
  <2>2. SubInv'
    BY <1>10, SMTT(30) DEF IInv, TypeOK, SubInv, Evict, vars, subVars, chanVars, pubVars, sendVars, Remove, RLocked
  <2>3. PathInv'
    BY <1>10 DEF IInv, TypeOK, PathInv, Evict, vars, subVars, chanVars, pubVars, sendVars, Remove, RLocked
  <2>4. PendInv'
    BY <1>10 DEF IInv, TypeOK, PendInv, Evict, vars, subVars, chanVars, pubVars, sendVars, Remove, RLocked
  <2>5. OnceInv'
    BY <1>10 DEF IInv, TypeOK, OnceInv, Evict, vars, subVars, chanVars, pubVars, sendVars, Remove, RLocked
  <2>6. FailInv'
    BY <1>10 DEF IInv, TypeOK, FailInv, Evict, vars, subVars, chanVars, pubVars, sendVars, Remove, RLocked
  <2>7. CloseInv'
    BY <1>10 DEF IInv, TypeOK, CloseInv, Evict, vars, subVars, chanVars, pubVars, sendVars, Remove, RLocked
  <2> QED BY <2>1, <2>2, <2>3, <2>4, <2>5, <2>6, <2>7 DEF IInv
<1>11. ASSUME ClosingPanics PROVE IInv'
  <2>1. TypeOK'
    BY <1>11 DEF IInv, TypeOK, PathInv, ClosingPanics, vars, subVars, chanVars, pubVars, sendVars
  <2>2. SubInv'
    BY <1>11 DEF IInv, TypeOK, SubInv, ClosingPanics, vars, subVars, chanVars, pubVars, sendVars
  <2>3. PathInv'
    BY <1>11 DEF IInv, TypeOK, PathInv, ClosingPanics, vars, subVars, chanVars, pubVars, sendVars
  <2>4. PendInv'
    BY <1>11 DEF IInv, TypeOK, PendInv, ClosingPanics, vars, subVars, chanVars, pubVars, sendVars
  <2>5. OnceInv'
    BY <1>11 DEF IInv, TypeOK, OnceInv, ClosingPanics, vars, subVars, chanVars, pubVars, sendVars
  <2>6. FailInv'
    BY <1>11 DEF IInv, TypeOK, FailInv, ClosingPanics, vars, subVars, chanVars, pubVars, sendVars
  <2>7. CloseInv'
    BY <1>11 DEF IInv, TypeOK, CloseInv, ClosingPanics, vars, subVars, chanVars, pubVars, sendVars
  <2> QED BY <2>1, <2>2, <2>3, <2>4, <2>5, <2>6, <2>7 DEF IInv
<1>12. ASSUME NEW c \in Closers, CloseCheck(c) PROVE IInv'
  <2>1. TypeOK'
    BY <1>12 DEF IInv, TypeOK, PathInv, CloseCheck, vars, subVars, chanVars, pubVars, sendVars, Closer
  <2>2. SubInv'
    BY <1>12 DEF IInv, TypeOK, SubInv, CloseCheck, vars, subVars, chanVars, pubVars, sendVars, Closer
  <2>3. PathInv'
    BY <1>12 DEF IInv, TypeOK, PathInv, CloseCheck, vars, subVars, chanVars, pubVars, sendVars, Closer
  <2>4. PendInv'
    BY <1>12 DEF IInv, TypeOK, PendInv, CloseCheck, vars, subVars, chanVars, pubVars, sendVars, Closer
  <2>5. OnceInv'
    BY <1>12 DEF IInv, TypeOK, OnceInv, CloseCheck, vars, subVars, chanVars, pubVars, sendVars, Closer
  <2>6. FailInv'
    BY <1>12 DEF IInv, TypeOK, FailInv, CloseCheck, vars, subVars, chanVars, pubVars, sendVars, Closer
  <2>7. CloseInv'
    BY <1>12 DEF IInv, TypeOK, CloseInv, CloseCheck, vars, subVars, chanVars, pubVars, sendVars, Closer
  <2> QED BY <2>1, <2>2, <2>3, <2>4, <2>5, <2>6, <2>7 DEF IInv
<1>13. ASSUME NEW c \in Closers, CloseSet(c) PROVE IInv'
  <2>1. TypeOK'
    BY <1>13 DEF IInv, TypeOK, PathInv, CloseSet, vars, subVars, chanVars, pubVars, sendVars, Closer
  <2>2. SubInv'
    BY <1>13 DEF IInv, TypeOK, SubInv, CloseSet, vars, subVars, chanVars, pubVars, sendVars, Closer
  <2>3. PathInv'
    BY <1>13 DEF IInv, TypeOK, PathInv, CloseSet, vars, subVars, chanVars, pubVars, sendVars, Closer
  <2>4. PendInv'
    BY <1>13 DEF IInv, TypeOK, PendInv, CloseSet, vars, subVars, chanVars, pubVars, sendVars, Closer
  <2>5. OnceInv'
    BY <1>13 DEF IInv, TypeOK, OnceInv, CloseSet, vars, subVars, chanVars, pubVars, sendVars, Closer
  <2>6. FailInv'
    BY <1>13 DEF IInv, TypeOK, FailInv, CloseSet, vars, subVars, chanVars, pubVars, sendVars, Closer
  <2>7. CloseInv'
    BY <1>13 DEF IInv, TypeOK, CloseInv, CloseSet, vars, subVars, chanVars, pubVars, sendVars, Closer
  <2> QED BY <2>1, <2>2, <2>3, <2>4, <2>5, <2>6, <2>7 DEF IInv
<1>14. ASSUME NEW c \in Closers, CloseStop(c) PROVE IInv'
  <2>1. TypeOK'
    BY <1>14 DEF IInv, TypeOK, PathInv, CloseStop, vars, subVars, chanVars, pubVars, sendVars, Closer
  <2>2. SubInv'
    BY <1>14 DEF IInv, TypeOK, SubInv, CloseStop, vars, subVars, chanVars, pubVars, sendVars, Closer
  <2>3. PathInv'
    BY <1>14 DEF IInv, TypeOK, PathInv, CloseStop, vars, subVars, chanVars, pubVars, sendVars, Closer
  <2>4. PendInv'
    BY <1>14 DEF IInv, TypeOK, PendInv, CloseStop, vars, subVars, chanVars, pubVars, sendVars, Closer
  <2>5. OnceInv'
    BY <1>14 DEF IInv, TypeOK, OnceInv, CloseStop, vars, subVars, chanVars, pubVars, sendVars, Closer
  <2>6. FailInv'
    BY <1>14 DEF IInv, TypeOK, FailInv, CloseStop, vars, subVars, chanVars, pubVars, sendVars, Closer
  <2>7. CloseInv'
    BY <1>14 DEF IInv, TypeOK, CloseInv, CloseStop, vars, subVars, chanVars, pubVars, sendVars, Closer
  <2> QED BY <2>1, <2>2, <2>3, <2>4, <2>5, <2>6, <2>7 DEF IInv
<1>15. ASSUME NEW c \in Closers, CloseStopPanics(c) PROVE IInv'
  <2>1. TypeOK'
    BY <1>15 DEF IInv, TypeOK, PathInv, CloseStopPanics, vars, subVars, chanVars, pubVars, sendVars, Closer
  <2>2. SubInv'
    BY <1>15 DEF IInv, TypeOK, SubInv, CloseStopPanics, vars, subVars, chanVars, pubVars, sendVars, Closer
  <2>3. PathInv'
    BY <1>15 DEF IInv, TypeOK, PathInv, CloseStopPanics, vars, subVars, chanVars, pubVars, sendVars, Closer
  <2>4. PendInv'
    BY <1>15 DEF IInv, TypeOK, PendInv, CloseStopPanics, vars, subVars, chanVars, pubVars, sendVars, Closer
  <2>5. OnceInv'
    BY <1>15 DEF IInv, TypeOK, OnceInv, CloseStopPanics, vars, subVars, chanVars, pubVars, sendVars, Closer
  <2>6. FailInv'
    BY <1>15 DEF IInv, TypeOK, FailInv, CloseStopPanics, vars, subVars, chanVars, pubVars, sendVars, Closer
  <2>7. CloseInv'
    BY <1>15 DEF IInv, TypeOK, CloseInv, CloseStopPanics, vars, subVars, chanVars, pubVars, sendVars, Closer
  <2> QED BY <2>1, <2>2, <2>3, <2>4, <2>5, <2>6, <2>7 DEF IInv
<1>16. ASSUME NEW c \in Closers, ClosePubPath(c) PROVE IInv'
  <2>1. TypeOK'
    BY <1>16 DEF IInv, TypeOK, PathInv, ClosePubPath, vars, subVars, chanVars, pubVars, sendVars, Closer
  <2>2. SubInv'
    BY <1>16 DEF IInv, TypeOK, SubInv, ClosePubPath, vars, subVars, chanVars, pubVars, sendVars, Closer
  <2>3. PathInv'
    BY <1>16 DEF IInv, TypeOK, PathInv, ClosePubPath, vars, subVars, chanVars, pubVars, sendVars, Closer
  <2>4. PendInv'
    BY <1>16 DEF IInv, TypeOK, PendInv, ClosePubPath, vars, subVars, chanVars, pubVars, sendVars, Closer
  <2>5. OnceInv'
    BY <1>16 DEF IInv, TypeOK, OnceInv, ClosePubPath, vars, subVars, chanVars, pubVars, sendVars, Closer
  <2>6. FailInv'
    BY <1>16 DEF IInv, TypeOK, FailInv, ClosePubPath, vars, subVars, chanVars, pubVars, sendVars, Closer
  <2>7. CloseInv'
    BY <1>16 DEF IInv, TypeOK, CloseInv, ClosePubPath, vars, subVars, chanVars, pubVars, sendVars, Closer
  <2> QED BY <2>1, <2>2, <2>3, <2>4, <2>5, <2>6, <2>7 DEF IInv
<1>17. ASSUME NEW c \in Closers, CloseStopChan(c) PROVE IInv'
  <2>1. TypeOK'
    BY <1>17 DEF IInv, TypeOK, PathInv, CloseStopChan, vars, subVars, chanVars, pubVars, sendVars, Closer
  <2>2. SubInv'
    BY <1>17 DEF IInv, TypeOK, SubInv, CloseStopChan, vars, subVars, chanVars, pubVars, sendVars, Closer
  <2>3. PathInv'
    BY <1>17 DEF IInv, TypeOK, PathInv, CloseStopChan, vars, subVars, chanVars, pubVars, sendVars, Closer
  <2>4. PendInv'
    BY <1>17 DEF IInv, TypeOK, PendInv, CloseStopChan, vars, subVars, chanVars, pubVars, sendVars, Closer
  <2>5. OnceInv'
    BY <1>17 DEF IInv, TypeOK, OnceInv, CloseStopChan, vars, subVars, chanVars, pubVars, sendVars, Closer
  <2>6. FailInv'
    BY <1>17 DEF IInv, TypeOK, FailInv, CloseStopChan, vars, subVars, chanVars, pubVars, sendVars, Closer
  <2>7. CloseInv'
    BY <1>17 DEF IInv, TypeOK, CloseInv, CloseStopChan, vars, subVars, chanVars, pubVars, sendVars, Closer
  <2> QED BY <2>1, <2>2, <2>3, <2>4, <2>5, <2>6, <2>7 DEF IInv
<1>18. ASSUME NEW c \in Closers, CloseAnswer(c) PROVE IInv'
  <2>1. TypeOK'
    BY <1>18 DEF IInv, TypeOK, PathInv, CloseAnswer, vars, subVars, chanVars, pubVars, sendVars, Closer
  <2>2. SubInv'
    BY <1>18 DEF IInv, TypeOK, SubInv, CloseAnswer, vars, subVars, chanVars, pubVars, sendVars, Closer
  <2>3. PathInv'
    BY <1>18 DEF IInv, TypeOK, PathInv, CloseAnswer, vars, subVars, chanVars, pubVars, sendVars, Closer
  <2>4. PendInv'
    BY <1>18 DEF IInv, TypeOK, PendInv, CloseAnswer, vars, subVars, chanVars, pubVars, sendVars, Closer
  <2>5. OnceInv'
    BY <1>18 DEF IInv, TypeOK, OnceInv, CloseAnswer, vars, subVars, chanVars, pubVars, sendVars, Closer
  <2>6. FailInv'
    BY <1>18 DEF IInv, TypeOK, FailInv, CloseAnswer, vars, subVars, chanVars, pubVars, sendVars, Closer
  <2>7. CloseInv'
    BY <1>18 DEF IInv, TypeOK, CloseInv, CloseAnswer, vars, subVars, chanVars, pubVars, sendVars, Closer
  <2> QED BY <2>1, <2>2, <2>3, <2>4, <2>5, <2>6, <2>7 DEF IInv
<1>19. ASSUME NEW c \in Closers, CloseReturn(c) PROVE IInv'
  <2>1. TypeOK'
    BY <1>19 DEF IInv, TypeOK, PathInv, CloseReturn, vars, subVars, chanVars, pubVars, sendVars, Closer
  <2>2. SubInv'
    BY <1>19 DEF IInv, TypeOK, SubInv, CloseReturn, vars, subVars, chanVars, pubVars, sendVars, Closer
  <2>3. PathInv'
    BY <1>19 DEF IInv, TypeOK, PathInv, CloseReturn, vars, subVars, chanVars, pubVars, sendVars, Closer
  <2>4. PendInv'
    BY <1>19 DEF IInv, TypeOK, PendInv, CloseReturn, vars, subVars, chanVars, pubVars, sendVars, Closer
  <2>5. OnceInv'
    BY <1>19 DEF IInv, TypeOK, OnceInv, CloseReturn, vars, subVars, chanVars, pubVars, sendVars, Closer
  <2>6. FailInv'
    BY <1>19 DEF IInv, TypeOK, FailInv, CloseReturn, vars, subVars, chanVars, pubVars, sendVars, Closer
  <2>7. CloseInv'
    BY <1>19 DEF IInv, TypeOK, CloseInv, CloseReturn, vars, subVars, chanVars, pubVars, sendVars, Closer
  <2> QED BY <2>1, <2>2, <2>3, <2>4, <2>5, <2>6, <2>7 DEF IInv
<1>20. ASSUME UNCHANGED vars PROVE IInv'
  <2>1. TypeOK'
    BY <1>20 DEF IInv, TypeOK, vars, subVars, chanVars, pubVars, sendVars
  <2>2. SubInv'
    BY <1>20 DEF IInv, SubInv, vars, subVars, chanVars, pubVars, sendVars
  <2>3. PathInv'
    BY <1>20 DEF IInv, PathInv, vars, subVars, chanVars, pubVars, sendVars
  <2>4. PendInv'
    BY <1>20 DEF IInv, PendInv, vars, subVars, chanVars, pubVars, sendVars
  <2>5. OnceInv'
    BY <1>20 DEF IInv, OnceInv, vars, subVars, chanVars, pubVars, sendVars
  <2>6. FailInv'
    BY <1>20 DEF IInv, FailInv, vars, subVars, chanVars, pubVars, sendVars
  <2>7. CloseInv'
    BY <1>20 DEF IInv, CloseInv, vars, subVars, chanVars, pubVars, sendVars
  <2> QED BY <2>1, <2>2, <2>3, <2>4, <2>5, <2>6, <2>7 DEF IInv
<1> QED BY <1>1, <1>2, <1>3, <1>4, <1>5, <1>6, <1>7, <1>8, <1>9, <1>10, <1>11, <1>12, <1>13, <1>14, <1>15, <1>16, <1>17, <1>18, <1>19, <1>20 DEF Next, Publisher, CloseStep
-----------------------------------------------------------------------------
(* The invariant holds in every reachable state.                            *)
THEOREM Invariance == Spec => []IInv
<1>1. Init => IInv
  BY InitInv
<1>2. IInv /\ [Next]_vars => IInv'
  BY NextInv
<1> QED BY <1>1, <1>2, PTL DEF Spec

(* Type correctness of the publisher, its channels and its subscriptions.   *)
THEOREM TypeCorrect == Spec => []TypeOK
<1>1. IInv => TypeOK
  BY DEF IInv
<1> QED BY <1>1, Invariance, PTL

(* When Close has returned nil, the publisher goroutine has ended.          *)
THEOREM ClosedIsQuiet == Spec => []QuietAfterClose
<1>1. IInv => QuietAfterClose
  BY DEF IInv, CloseInv, QuietAfterClose
<1> QED BY <1>1, Invariance, PTL

(* Whom a step calls, it calls from the pending ones of a level.            *)
LEMMA CallsArePending ==
  ASSUME IInv, [Next]_vars, NEW i \in CalledNow
  PROVE  i \in pending /\ ppc = "calling" /\ <<nMsgs, i>> \notin called
<1>1. i \in SubIds /\ <<nMsgs, i>> \in called' /\ <<nMsgs, i>> \notin called
  BY DEF CalledNow
<1>2. PICK j \in SubIds : (\E ok \in BOOLEAN : CallSubscriber(j, ok)) \/ CallReenters(j)
  BY <1>1 DEF Next, Publisher, CloseStep, vars, subVars, chanVars, pubVars, sendVars, Subscribe, Unsubscribe,
     SendCheck, SendPanics, PublishReceive, ReadMap, LevelDone, Evict, ClosingPanics, Closer, CloseCheck,
     CloseSet, CloseStop, CloseStopPanics, ClosePubPath, CloseStopChan, CloseAnswer, CloseReturn
<1>3. j \in pending /\ ppc = "calling" /\ called' = called \cup {<<nMsgs, j>>}
  BY <1>2 DEF CallSubscriber, CallReenters
<1> QED BY <1>1, <1>3

(* A subscriber is not called after Unsubscribe for it has returned, and    *)
(* not again after it has failed.                                           *)
THEOREM RemovedIsNotCalled == Spec => NoCallAfterRemoval
<1>1. IInv /\ [Next]_vars => [CalledNow \cap (gone \cup failed) = {}]_vars
  <2> SUFFICES ASSUME IInv, [Next]_vars, NEW i \in CalledNow, i \in gone \cup failed PROVE FALSE
    OBVIOUS
  <2>1. i \in pending /\ ppc = "calling" /\ i \in SubIds /\ <<nMsgs, i>> \notin called
    BY CallsArePending DEF CalledNow
  <2>2. topic[i] = Level(cur, Levels[level]) /\ cur \in Paths /\ level \in 1..5
    BY <2>1 DEF IInv, PendInv, PathInv, TypeOK
  <2>3. CASE i \in gone
    <3>1. topic[i] = <<>>
      BY <2>1, <2>3 DEF IInv, SubInv
    <3> QED BY <2>2, <3>1, LevelsNotEmpty
  <2>4. CASE i \in failed
    <3>1. topic[i] = <<>>
      BY <2>1, <2>4 DEF IInv, FailInv
    <3> QED BY <2>2, <3>1, LevelsNotEmpty
  <2> QED BY <2>3, <2>4
<1> QED BY <1>1, Invariance, PTL DEF Spec, NoCallAfterRemoval

(* A subscriber is called at most once for one message.                     *)
THEOREM CalledOncePerMessage == Spec => AtMostOncePerMessage
<1>1. IInv /\ [Next]_vars
        => [\A i \in SubIds : i \in pending /\ i \notin pending' => i \in CalledNow]_vars
  <2> SUFFICES ASSUME IInv, [Next]_vars, NEW i \in SubIds, i \in pending, i \notin pending'
               PROVE  i \in CalledNow
    OBVIOUS
  <2>1. CASE \E j \in SubIds, ok \in BOOLEAN : CallSubscriber(j, ok)
    <3>1. i \in pending /\ ppc = "calling" /\ called' = called \cup {<<nMsgs, i>>}
      BY <2>1 DEF CallSubscriber
    <3>2. topic[i] = Level(cur, Levels[level]) /\ cur \in Paths /\ level \in 1..5
      BY <3>1 DEF IInv, PendInv, PathInv, TypeOK
    <3>3. topic[i] # <<>>
      BY <3>2, LevelsNotEmpty
    <3>4. <<nMsgs, i>> \notin called
      BY <3>1, <3>3 DEF IInv, OnceInv
    <3> QED BY <3>1, <3>4 DEF CalledNow
  <2>2. CASE ReadMap
    BY <2>2 DEF IInv, PendInv, ReadMap
  <2> QED
    BY <2>1, <2>2 DEF Next, Publisher, CloseStep, vars, subVars, chanVars, pubVars, sendVars, Subscribe, Unsubscribe,
       SendCheck, SendPanics, PublishReceive, CallReenters, LevelDone, Evict, ClosingPanics, Closer, CloseCheck,
       CloseSet, CloseStop, CloseStopPanics, ClosePubPath, CloseStopChan, CloseAnswer, CloseReturn
<1> QED BY <1>1, Invariance, PTL DEF Spec, AtMostOncePerMessage
-----------------------------------------------------------------------------
(* Two closers have got past the check of the flag.                         *)
Past(c) == cpc[c] \in {"stopping", "stopped", "closepub", "waiting", "answered", "closed", "panicked"}
TwoPast == \E c, d \in Closers : c # d /\ Past(c) /\ Past(d)

(* Why a channel is closed.  A closed stop has a closer who closed it, and  *)
(* who does not come back to the send on stop.  closeErr is closed by a     *)
(* Close that returns nil, or else two closers are past the flag.           *)
PanicInv ==
  /\ "stop" \in closedChans => \E c \in Closers : cpc[c] \in {"waiting", "answered", "closed", "panicked"}
  /\ "closeErr" \in closedChans => TwoPast \/ \E c \in Closers : cpc[c] = "closed"
  /\ (ppc = "crashed" /\ HasLog) \/ (\E c \in Closers : cpc[c] = "panicked") => TwoPast

(* A step that is not one of Close leaves the closers and the channels      *)
(* alone, and ends the process only for want of a logger or when closeErr   *)
(* is closed under the publisher.                                           *)
LEMMA OtherSteps ==
  ASSUME [Next]_vars, ~ \E c \in Closers : CloseCheck(c) \/ CloseStep(c)
  PROVE  /\ UNCHANGED <<cpc, closedChans>>
         /\ ppc' = "crashed" /\ HasLog => ppc = "crashed" \/ (ppc = "closing" /\ "closeErr" \in closedChans)
BY DEF Next, Publisher, CloseStep, vars, subVars, chanVars, pubVars, sendVars, Subscribe, Unsubscribe, Remove,
   SendCheck, SendPanics, PublishReceive, ReadMap, CallSubscriber, CallReenters, LevelDone, Evict, ClosingPanics

(* Who is past the flag stays past it, and only moves forward.              *)
LEMMA ForwardSteps ==
  ASSUME TypeOK, NEW c \in Closers, CloseCheck(c) \/ CloseStep(c)
  PROVE  /\ ppc' = "crashed" => ppc = "crashed"
         /\ \A d \in Closers : d # c => cpc'[d] = cpc[d]
         /\ \A d \in Closers : Past(d) => Past(d)'
         /\ \A d \in Closers : cpc[d] = "closed" => cpc'[d] = "closed"
BY SMTT(60), Z3T(60) DEF TypeOK, Past, CloseStep, Closer, CloseCheck, CloseSet, CloseStop, CloseStopPanics, ClosePubPath,
   CloseStopChan, CloseAnswer, CloseReturn

(* The invariant of the channels is kept by every step.                     *)
LEMMA NextPanicInv == IInv /\ PanicInv /\ [Next]_vars => PanicInv'
<1> SUFFICES ASSUME IInv, PanicInv, [Next]_vars PROVE PanicInv'
  OBVIOUS
<1> USE DEF Past
<1>1. CASE ~ \E c \in Closers : CloseCheck(c) \/ CloseStep(c)
  <2>1. UNCHANGED <<cpc, closedChans>>
    BY <1>1, OtherSteps
  <2>2. CASE ppc = "closing" /\ "closeErr" \in closedChans
    <3>1. ~ \E c \in Closers : cpc[c] = "closed"
      BY <2>2 DEF IInv, CloseInv
    <3>2. TwoPast
      BY <2>2, <3>1 DEF PanicInv
    <3> QED BY <2>1, <3>2 DEF PanicInv, TwoPast
  <2>3. CASE ~(ppc = "closing" /\ "closeErr" \in closedChans)
    <3>1. ppc' = "crashed" /\ HasLog => ppc = "crashed"
      BY <1>1, <2>3, OtherSteps
    <3> QED BY SMTT(60), Z3T(60), <2>1, <3>1 DEF PanicInv, TwoPast
  <2> QED BY <2>2, <2>3
<1>2. ASSUME NEW c \in Closers, CloseCheck(c) \/ CloseStep(c) PROVE PanicInv'
  <2>1. /\ ppc' = "crashed" => ppc = "crashed"
        /\ \A d \in Closers : d # c => cpc'[d] = cpc[d]
        /\ \A d \in Closers : Past(d) => Past(d)'
        /\ \A d \in Closers : cpc[d] = "closed" => cpc'[d] = "closed"
    BY <1>2, ForwardSteps DEF IInv
  <2>2. TwoPast => TwoPast'
    BY <2>1 DEF TwoPast
  <2>3. cpc \in [Closers -> {"idle", "already", "checked", "stopping", "stopped", "closepub",
                            "waiting", "answered", "closed", "panicked"}]
    BY DEF IInv, TypeOK
  <2>4. CASE CloseStopPanics(c)
    <3>1. cpc[c] = "stopping" /\ "stop" \in closedChans
      BY <2>4 DEF CloseStopPanics, Closer
    <3>2. PICK d \in Closers : cpc[d] \in {"waiting", "answered", "closed", "panicked"}
      BY <3>1 DEF PanicInv
    <3>3. c # d /\ cpc'[d] = cpc[d] /\ cpc'[c] = "panicked"
      BY <2>1, <2>3, <2>4, <3>1, <3>2 DEF CloseStopPanics, Closer
    <3>4. TwoPast'
      BY <3>2, <3>3 DEF TwoPast
    <3> QED BY <3>2, <3>3, <3>4 DEF PanicInv
  <2>5. CASE CloseReturn(c)
    <3>1. cpc[c] = "answered" /\ cpc' = [cpc EXCEPT ![c] = IF "closeErr" \in closedChans THEN "panicked" ELSE "closed"]
      BY <2>5 DEF CloseReturn, Closer
    <3>2. CASE "closeErr" \in closedChans
      <4>1. TwoPast'
        <5>1. CASE TwoPast
          BY <5>1, <2>2
        <5>2. ASSUME NEW d \in Closers, cpc[d] = "closed" PROVE TwoPast'
          <6>1. c # d /\ Past(d) /\ Past(c)
            BY <5>2, <3>1
          <6> QED BY <6>1, <2>1 DEF TwoPast
        <5> QED BY <3>2, <5>1, <5>2 DEF PanicInv
      <4>2. cpc'[c] = "panicked"
        BY <3>1, <3>2, <2>3
      <4> QED BY <4>1, <4>2 DEF PanicInv
    <3>3. CASE "closeErr" \notin closedChans
      <4>1. cpc'[c] = "closed"
        BY <3>1, <3>3, <2>3
      <4>2. (\E d \in Closers : cpc'[d] = "panicked") => \E d \in Closers : cpc[d] = "panicked"
        BY <2>1, <4>1
      <4> QED BY <4>1, <4>2, <2>1, <2>2 DEF PanicInv
    <3> QED BY <3>2, <3>3
  <2>6. CASE CloseCheck(c) \/ CloseSet(c) \/ CloseStop(c) \/ ClosePubPath(c) \/ CloseStopChan(c) \/ CloseAnswer(c)
    <3>1. cpc'[c] # "panicked" /\ ("closeErr" \in closedChans' => "closeErr" \in closedChans)
      BY <2>3, <2>6 DEF CloseCheck, CloseSet, CloseStop, ClosePubPath, CloseStopChan, CloseAnswer, Closer, chanVars
    <3>2. cpc[c] \in {"waiting", "answered", "closed", "panicked"} => cpc'[c] \in {"waiting", "answered", "closed", "panicked"}
      BY <2>3, <2>6 DEF CloseCheck, CloseSet, CloseStop, ClosePubPath, CloseStopChan, CloseAnswer, Closer
    <3>3. "stop" \in closedChans' => "stop" \in closedChans \/ cpc'[c] = "waiting"
      BY SMTT(60), Z3T(60), <2>3, <2>6 DEF CloseCheck, CloseSet, CloseStop, ClosePubPath, CloseStopChan, CloseAnswer, Closer, chanVars
    <3>4. "stop" \in closedChans' => \E d \in Closers : cpc'[d] \in {"waiting", "answered", "closed", "panicked"}
      BY <2>1, <3>2, <3>3 DEF PanicInv
    <3>5. "closeErr" \in closedChans' => TwoPast' \/ \E d \in Closers : cpc'[d] = "closed"
      BY <2>1, <2>2, <3>1 DEF PanicInv
    <3>6. (\E d \in Closers : cpc'[d] = "panicked") => \E d \in Closers : cpc[d] = "panicked"
      BY <2>1, <3>1
    <3> QED BY <2>1, <2>2, <3>4, <3>5, <3>6 DEF PanicInv
  <2> QED BY <1>2, <2>4, <2>5, <2>6 DEF CloseStep
<1> QED BY <1>1, <1>2

(* Close and the publisher panic only if two goroutines have got past the   *)
(* unlocked check of the closed flag; with one Close there is no panic.     *)
THEOREM PanicsHaveTwoClosers == Spec => []PanicNeedsTwoClosers
<1>1. Init => PanicInv
  BY DEF Init, PanicInv
<1>2. IInv /\ PanicInv /\ [Next]_vars => PanicInv'
  BY NextPanicInv
<1>3. IInv /\ PanicInv => PanicNeedsTwoClosers
  <2> SUFFICES ASSUME IInv, PanicInv, (ppc = "crashed" /\ HasLog) \/ \E c \in Closers : cpc[c] = "panicked"
               PROVE  \E c, d \in Closers : c # d /\ {cpc[c], cpc[d]} \cap {"idle", "already", "checked"} = {}
    BY DEF PanicNeedsTwoClosers
  <2>1. PICK c \in Closers, d \in Closers : c # d /\ Past(c) /\ Past(d)
    BY DEF PanicInv, TwoPast
  <2> QED BY <2>1 DEF Past
<1> QED BY <1>1, <1>2, <1>3, Invariance, PTL DEF Spec
=============================================================================
