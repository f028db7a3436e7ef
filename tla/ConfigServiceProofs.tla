------------------------ MODULE ConfigServiceProofs ------------------------
(***************************************************************************)
(* Proofs about ConfigService, for any goroutines, values and settings of  *)
(* the route, with and without a level 1, with and without failures, and   *)
(* for any number of reads, writes, flushes and changes of observers.      *)
(***************************************************************************)
EXTENDS ConfigService, TLAPS

(* Zenon first: most leaves are first-order and fast; SMT has the rest.     *)
USE ZenonT(20), SMTT(60), Z3T(60)

(* What Set makes of a value: the encoding observer has seen it, or not.    *)
Written == Values \X (0..1)

(* Where a goroutine is inside a read.                                      *)
Reading(p) == pc[p] \in {"get", "level1", "level2", "fill", "after_get", "answer"}

(* What is decoded is still data, and not nil.                              *)
LEMMA DecodeWritten ==
  ASSUME NEW d \in Written
  PROVE  /\ d \in Data /\ d # None
         /\ Decode(d) = <<d[1], d[2] - 1>> /\ Decode(d) \in Data
<1>1. d \in Data /\ d # None
  BY SMTT(60), ServiceAssumption DEF Written, Data
<1>2. Decode(d) = <<d[1], d[2] - 1>>
  BY <1>1 DEF Decode
<1>3. d[1] \in Values /\ d[2] - 1 \in -1..2
  BY DEF Written
<1> QED BY <1>1, <1>2, <1>3 DEF Data

(* A value given to Set, encoded or not, is what may be written.            *)
LEMMA EncodeValue ==
  ASSUME NEW v \in Values
  PROVE  <<v, 0>> \in Written /\ Encode(<<v, 0>>) = <<v, 1>> /\ Encode(<<v, 0>>) \in Written
BY DEF Encode, Written

(* A default value, if there is one, is a value.                            *)
LEMMA DefaultIsValue ==
  ASSUME TypeOK, NEW s \in Scopes
  PROVE  DefaultOf(s) \in Values \cup {None}
<1>1. meta \in MetaType
  BY SMTT(60), ServiceAssumption DEF TypeOK
<1>2. s # "default" => meta.child[s] \in Values \cup {None}
  BY <1>1 DEF MetaType, Scopes
<1>3. meta.def \in Values \cup {None}
  BY <1>1 DEF MetaType
<1> QED BY <1>2, <1>3 DEF DefaultOf

(* t are the last ones of the scopes a, and those before t.                 *)
Suffix(t, a) ==
  /\ t # <<>> /\ Len(t) <= Len(a)
  /\ \A i \in 1..Len(t) : t[i] = a[Len(a) - Len(t) + i]
Before(t, a) == {a[i] : i \in 1..(Len(a) - Len(t))}

(* At first all scopes are still to be asked.                               *)
LEMMA SuffixOfItself ==
  ASSUME NEW q \in Seq(Scopes), q # <<>>
  PROVE  Suffix(q, q) /\ Before(q, q) = {}
<1>1. Len(q) \in Nat /\ Len(q) - Len(q) = 0 /\ \A i \in 1..Len(q) : Len(q) - Len(q) + i = i
  OBVIOUS
<1> QED BY <1>1 DEF Suffix, Before

(* The scope that is asked next.                                            *)
LEMMA HeadIsScope ==
  ASSUME NEW t \in Seq(Scopes), t # <<>>
  PROVE  Head(t) \in Scopes
OBVIOUS

(* Going on to the next one leaves one more behind.                         *)
LEMMA SuffixTail ==
  ASSUME NEW t \in Seq(Scopes), NEW a \in Seq(Scopes), Suffix(t, a), Len(t) # 1
  PROVE  /\ Tail(t) \in Seq(Scopes) /\ Suffix(Tail(t), a)
         /\ Before(Tail(t), a) \subseteq Before(t, a) \cup {Head(t)}
<1>1. /\ Len(t) \in Nat /\ Len(a) \in Nat /\ Len(t) > 1 /\ Len(t) <= Len(a) /\ Head(t) = t[1]
      /\ Tail(t) \in Seq(Scopes) /\ Len(Tail(t)) = Len(t) - 1
  <2>1. t # <<>> /\ Len(t) <= Len(a)
    BY DEF Suffix
  <2>2. Len(t) \in Nat /\ Len(a) \in Nat /\ Len(t) # 0
    BY <2>1
  <2>3. Head(t) = t[1] /\ Tail(t) \in Seq(Scopes) /\ Len(Tail(t)) = Len(t) - 1
    BY <2>1
  <2> QED BY <2>1, <2>2, <2>3
<1>2. ASSUME NEW i \in 1..(Len(t) - 1) PROVE Tail(t)[i] = a[Len(a) - (Len(t) - 1) + i]
  <2>1. Tail(t)[i] = t[i + 1] /\ i + 1 \in 1..Len(t)
    BY <1>1
  <2>2. t[i + 1] = a[Len(a) - Len(t) + (i + 1)]
    BY <2>1 DEF Suffix
  <2>3. Len(a) - Len(t) + (i + 1) = Len(a) - (Len(t) - 1) + i
    BY <1>1
  <2> QED BY <2>1, <2>2, <2>3
<1>3. Suffix(Tail(t), a)
  BY SMTT(60), Z3T(60), <1>1, <1>2 DEF Suffix
<1>4. ASSUME NEW i \in 1..(Len(a) - (Len(t) - 1)) PROVE a[i] \in Before(t, a) \cup {Head(t)}
  <2>1. CASE i \in 1..(Len(a) - Len(t))
    BY <2>1 DEF Before
  <2>2. CASE i = Len(a) - Len(t) + 1
    <3>1. 1 \in 1..Len(t) /\ t[1] = a[i]
      BY SMTT(60), Z3T(60), <1>1, <2>2 DEF Suffix
    <3> QED BY <1>1, <3>1
  <2> QED BY <1>1, <2>1, <2>2
<1>5. Before(Tail(t), a) \subseteq Before(t, a) \cup {Head(t)}
  BY <1>1, <1>4 DEF Before
<1> QED BY <1>1, <1>3, <1>5

(* A scoped reader asks at least the default scope.                         *)
LEMMA LookupsAsk ==
  ASSUME NEW ss \in Scopes, NEW r \in Scopes \cup {None}
  PROVE  Lookups(ss, r) \in Seq(Scopes) /\ Lookups(ss, r) # <<>>
<1> DEFINE a == IF isAllowedStore(ss, r) THEN <<"store">> ELSE <<>>
           b == IF isAllowedWebsite(ss, r) THEN <<"website">> ELSE <<>>
<1>1. /\ a \in Seq(Scopes) /\ b \in Seq(Scopes)
      /\ <<"default">> \in Seq(Scopes) /\ Len(<<"default">>) = 1
  <2>1. <<>> \in Seq(Scopes) /\ <<"store">> \in Seq(Scopes) /\ <<"website">> \in Seq(Scopes)
    BY DEF Scopes
  <2>2. <<"default">> \in Seq(Scopes) /\ Len(<<"default">>) = 1
    BY DEF Scopes
  <2> QED BY <2>1, <2>2
<1>2. Lookups(ss, r) = a \o b \o <<"default">>
  BY DEF Lookups
<1> HIDE DEF a, b
<1>3. a \o b \in Seq(Scopes)
  BY <1>1
<1>4. (a \o b) \o <<"default">> \in Seq(Scopes) /\ Len((a \o b) \o <<"default">>) = Len(a \o b) + 1
  BY <1>1, <1>3
<1> QED BY <1>2, <1>3, <1>4
-----------------------------------------------------------------------------
(* The inductive invariant.  A read has still scopes to ask, and they are   *)
(* the last ones of those it set out with; a write has its one scope.       *)
TodoInv ==
  \A p \in Procs :
    /\ pc[p] \in {"store", "send"} => todo[p] # <<>>
    /\ Reading(p) => Suffix(todo[p], asked[p])

(* Both levels hold what has been stored, and so it was published.          *)
LevelInv ==
  /\ \A s \in Scopes : /\ stored[s] \subseteq Written
                       /\ level1[s] \in stored[s] \cup {None}
                       /\ level2[s] \in stored[s] \cup {None}
  /\ \A m \in published : m[2] \in stored[m[1]]

(* What is in the hands of a goroutine.                                     *)
HandInv ==
  \A p \in Procs :
    /\ pc[p] = "store" => data[p] \in Written
    /\ pc[p] = "send" => data[p] \in stored[Scope(p)]
    /\ pc[p] = "fill" => found[p] = "L2" /\ data[p] \in stored[Scope(p)]
    /\ pc[p] = "after_get" => \/ found[p] = "no" /\ data[p] = None
                              \/ found[p] \in {"L1", "L2"} /\ data[p] \in stored[Scope(p)]

(* What had a value when a read began has one still; what the read has      *)
(* passed over had none, and neither had the scope it finds empty.          *)
NearestInv ==
  \A p \in Procs :
    /\ \A s \in nearest[p] : level2[s] # None
    /\ Reading(p) => PassedOver(p) \cap nearest[p] = {}
    /\ pc[p] \in {"after_get", "answer"} /\ ~err[p] /\ found[p] = "no" => Scope(p) \notin nearest[p]

(* The scopes that a read has passed over have no default value either; the *)
(* answer is the default value of a scope for which nothing was stored, or  *)
(* there is none.                                                           *)
DefaultFor(p) ==
  /\ Reading(p) => \A s \in PassedOver(p) : DefaultOf(s) = None
  /\ Answered(p) /\ found[p] = "no" => DefaultOf(Scope(p)) = None
  /\ Answered(p) /\ found[p] = "defaults" => /\ Scope(p) \notin nearest[p]
                                             /\ data[p] = <<DefaultOf(Scope(p)), 0>>
DefaultInv == \A p \in Procs : DefaultFor(p)

(* While both observers have been there from the start, all that is stored  *)
(* is encoded once; under the lock the observers do not change.             *)
ObsInv ==
  /\ \A p \in Procs : Inside(p) => obs = obsAt[p]
  /\ obs = Events /\ nToggles = 0 =>
       /\ \A s \in Scopes : \A d \in stored[s] : d[2] = 1
       /\ \A p \in Procs : pc[p] = "store" => data[p][2] = 1
       /\ \A p \in Procs : Answered(p) /\ found[p] # "no" => data[p][2] = 0

(* As long as no Set begins, nobody writes level 2, and who fills level 1   *)
(* has what level 2 holds.                                                  *)
FreshInv ==
  fresh => /\ \A p \in Procs : /\ pc[p] # "store"
                               /\ pc[p] = "fill" => data[p] = level2[Scope(p)]
           /\ \A s \in Scopes : level1[s] \in {None, level2[s]}

IInv == TypeOK /\ TodoInv /\ LevelInv /\ HandInv /\ NearestInv /\ DefaultInv /\ ObsInv /\ FreshInv
-----------------------------------------------------------------------------
(* A failure, or none.                                                      *)
LEMMA MayFailBool == \A f \in MayFail : f \in BOOLEAN
BY DEF MayFail

(* What is the same for a goroutine before and after a step of another.     *)
Same(q) ==
  /\ pc'[q] = pc[q] /\ todo'[q] = todo[q] /\ asked'[q] = asked[q] /\ nearest'[q] = nearest[q]
  /\ found'[q] = found[q] /\ err'[q] = err[q] /\ data'[q] = data[q]

(* The defaults of the others are as before.                                *)
LEMMA DefaultFrame ==
  ASSUME DefaultInv, meta' = meta, NEW q \in Procs, Same(q)
  PROVE  DefaultFor(q)'
<1>1. \A s : DefaultOf(s)' = DefaultOf(s)
  BY DEF DefaultOf, HasChildren
<1>2. PassedOver(q)' = PassedOver(q) /\ Scope(q)' = Scope(q)
  BY DEF Same, PassedOver, Scope
<1>3. Reading(q)' = Reading(q) /\ Answered(q)' = Answered(q)
  BY DEF Same, Reading, Answered
<1> QED BY <1>1, <1>2, <1>3 DEF DefaultInv, DefaultFor, Same

(* A goroutine that has no answer yet asks the same scopes as before.       *)
LEMMA DefaultUnanswered ==
  ASSUME DefaultInv, meta' = meta, NEW q \in Procs, ~Answered(q)',
         \/ ~Reading(q)'
         \/ Reading(q) /\ todo'[q] = todo[q] /\ asked'[q] = asked[q]
  PROVE  DefaultFor(q)'
<1>1. \A s : DefaultOf(s)' = DefaultOf(s)
  BY DEF DefaultOf, HasChildren
<1>2. Reading(q)' => Reading(q) /\ PassedOver(q)' = PassedOver(q)
  BY DEF PassedOver
<1> QED BY <1>1, <1>2 DEF DefaultInv, DefaultFor

(* The observers are remembered under the read lock.                        *)
LEMMA GetBeginInv ==
  ASSUME IInv, NEW p \in Procs, GetBegin(p)
  PROVE  IInv'
<1>1. TypeOK'
  BY SMTT(60), Z3T(60), MayFailBool DEF IInv, TypeOK, GetBegin, Go
<1>2. TodoInv'
  BY SMTT(60), Z3T(60), MayFailBool DEF IInv, TypeOK, TodoInv, Reading, GetBegin, Go
<1>3. LevelInv'
  BY MayFailBool DEF IInv, TypeOK, LevelInv, GetBegin, Go
<1>4. HandInv'
  BY SMTT(60), Z3T(60), MayFailBool DEF IInv, TypeOK, TodoInv, LevelInv, HandInv, Scope, Reading, GetBegin, Go
<1>5. NearestInv'
  BY SMTT(60), Z3T(60), MayFailBool DEF IInv, TypeOK, TodoInv, LevelInv, HandInv, NearestInv, Scope, Reading, PassedOver, GetBegin, Go
<1>6. ObsInv'
  BY SMTT(60), Z3T(60), MayFailBool DEF IInv, TypeOK, TodoInv, LevelInv, HandInv, ObsInv, Scope, Inside, Answered, Reading, GetBegin, Go
<1>7. FreshInv'
  BY SMTT(60), Z3T(60), MayFailBool DEF IInv, TypeOK, TodoInv, HandInv, FreshInv, Scope, Reading, GetBegin, Go
<1>8. DefaultInv'
  <2>1. ASSUME NEW q \in Procs, q # p PROVE Same(q)
    BY <2>1 DEF Same, IInv, TypeOK, GetBegin, Go
  <2>2. ~Answered(p)' /\ Reading(p) /\ todo'[p] = todo[p] /\ asked'[p] = asked[p]
    BY MayFailBool DEF Answered, Reading, IInv, TypeOK, GetBegin, Go
  <2>3. meta' = meta
    BY DEF GetBegin
  <2> QED BY <2>1, <2>2, <2>3, DefaultFrame, DefaultUnanswered DEF IInv, DefaultInv
<1> QED BY <1>1, <1>2, <1>3, <1>4, <1>5, <1>6, <1>7, <1>8 DEF IInv

(* What level 1 holds has been stored.                                      *)
LEMMA GetLevel1Inv ==
  ASSUME IInv, NEW p \in Procs, GetLevel1(p)
  PROVE  IInv'
<1>0. Scope(p) \in Scopes
  BY HeadIsScope DEF IInv, TypeOK, TodoInv, Suffix, Reading, Scope, GetLevel1
<1>1. TypeOK'
  BY SMTT(60), Z3T(60), <1>0, MayFailBool DEF IInv, TypeOK, GetLevel1, Go, histVars
<1>2. TodoInv'
  BY SMTT(60), Z3T(60), MayFailBool DEF IInv, TypeOK, TodoInv, Reading, GetLevel1, Go, histVars
<1>3. LevelInv'
  BY MayFailBool DEF IInv, TypeOK, LevelInv, GetLevel1, Go, histVars
<1>4. HandInv'
  <2>1. level1[Scope(p)] \in stored[Scope(p)] \cup {None}
    BY <1>0 DEF IInv, LevelInv
  <2> QED BY SMTT(60), Z3T(60), <2>1 DEF IInv, TypeOK, HandInv, Scope, GetLevel1, Go, histVars
<1>5. NearestInv'
  BY SMTT(60), Z3T(60), MayFailBool DEF IInv, TypeOK, TodoInv, LevelInv, HandInv, NearestInv, Scope, Reading, PassedOver, GetLevel1, Go, histVars
<1>6. ObsInv'
  BY SMTT(60), Z3T(60), MayFailBool DEF IInv, TypeOK, TodoInv, LevelInv, HandInv, ObsInv, Scope, Inside, Answered, Reading, GetLevel1, Go, histVars
<1>7. FreshInv'
  BY SMTT(60), Z3T(60), MayFailBool DEF IInv, TypeOK, TodoInv, HandInv, FreshInv, Scope, Reading, GetLevel1, Go, histVars
<1>8. DefaultInv'
  <2>1. ASSUME NEW q \in Procs, q # p PROVE Same(q)
    BY <2>1 DEF Same, IInv, TypeOK, GetLevel1, Go, histVars
  <2>2. ~Answered(p)' /\ Reading(p) /\ todo'[p] = todo[p] /\ asked'[p] = asked[p]
    BY MayFailBool DEF Answered, Reading, IInv, TypeOK, GetLevel1, Go, histVars
  <2>3. meta' = meta
    BY DEF GetLevel1
  <2> QED BY <2>1, <2>2, <2>3, DefaultFrame, DefaultUnanswered DEF IInv, DefaultInv
<1> QED BY <1>1, <1>2, <1>3, <1>4, <1>5, <1>6, <1>7, <1>8 DEF IInv

(* Level 2 is empty only for a scope that had no value at the start.        *)
LEMMA GetLevel2Inv ==
  ASSUME IInv, NEW p \in Procs, GetLevel2(p)
  PROVE  IInv'
<1>0. Scope(p) \in Scopes
  BY HeadIsScope DEF IInv, TypeOK, TodoInv, Suffix, Reading, Scope, GetLevel2
<1>1. TypeOK'
  BY SMTT(60), Z3T(60), <1>0, MayFailBool DEF IInv, TypeOK, GetLevel2, Go, histVars
<1>2. TodoInv'
  BY SMTT(60), Z3T(60), MayFailBool DEF IInv, TypeOK, TodoInv, Reading, GetLevel2, Go, histVars
<1>3. LevelInv'
  BY MayFailBool DEF IInv, TypeOK, LevelInv, GetLevel2, Go, histVars
<1>4. HandInv'
  <2>1. level2[Scope(p)] \in stored[Scope(p)] \cup {None}
    BY <1>0 DEF IInv, LevelInv
  <2> QED BY SMTT(60), Z3T(60), <2>1 DEF IInv, TypeOK, HandInv, Scope, GetLevel2, Go, histVars
<1>5. NearestInv'
  BY SMTT(60), Z3T(60), MayFailBool DEF IInv, TypeOK, TodoInv, LevelInv, HandInv, NearestInv, Scope, Reading, PassedOver, GetLevel2, Go, histVars
<1>6. ObsInv'
  BY SMTT(60), Z3T(60), MayFailBool DEF IInv, TypeOK, TodoInv, LevelInv, HandInv, ObsInv, Scope, Inside, Answered, Reading, GetLevel2, Go, histVars
<1>7. FreshInv'
  BY SMTT(60), Z3T(60), MayFailBool DEF IInv, TypeOK, TodoInv, HandInv, FreshInv, Scope, Reading, GetLevel2, Go, histVars
<1>8. DefaultInv'
  <2>1. ASSUME NEW q \in Procs, q # p PROVE Same(q)
    BY <2>1 DEF Same, IInv, TypeOK, GetLevel2, Go, histVars
  <2>2. ~Answered(p)' /\ Reading(p) /\ todo'[p] = todo[p] /\ asked'[p] = asked[p]
    BY MayFailBool DEF Answered, Reading, IInv, TypeOK, GetLevel2, Go, histVars
  <2>3. meta' = meta
    BY DEF GetLevel2
  <2> QED BY <2>1, <2>2, <2>3, DefaultFrame, DefaultUnanswered DEF IInv, DefaultInv
<1> QED BY <1>1, <1>2, <1>3, <1>4, <1>5, <1>6, <1>7, <1>8 DEF IInv

(* Level 1 gets what level 2 returned.                                      *)
LEMMA GetFillInv ==
  ASSUME IInv, NEW p \in Procs, GetFill(p)
  PROVE  IInv'
<1>0. Scope(p) \in Scopes
  BY HeadIsScope DEF IInv, TypeOK, TodoInv, Suffix, Reading, Scope, GetFill
<1>a. data[p] \in stored[Scope(p)] /\ data[p] \in Data
  BY <1>0, DecodeWritten DEF IInv, HandInv, LevelInv, GetFill
<1>1. TypeOK'
  BY <1>0, <1>a, MayFailBool DEF IInv, TypeOK, GetFill, Go, histVars
<1>2. TodoInv'
  BY MayFailBool DEF IInv, TypeOK, TodoInv, Reading, GetFill, Go, histVars
<1>3. LevelInv'
  BY <1>0, <1>a DEF IInv, TypeOK, LevelInv, GetFill, histVars
<1>4. HandInv'
  BY MayFailBool DEF IInv, TypeOK, TodoInv, LevelInv, HandInv, Scope, Reading, GetFill, Go, histVars
<1>5. NearestInv'
  BY SMTT(60), Z3T(60), MayFailBool DEF IInv, TypeOK, TodoInv, LevelInv, HandInv, NearestInv, Scope, Reading, PassedOver, GetFill, Go, histVars
<1>6. ObsInv'
  BY MayFailBool DEF IInv, TypeOK, TodoInv, LevelInv, HandInv, ObsInv, Scope, Inside, Answered, Reading, GetFill, Go, histVars
<1>7. FreshInv'
  BY SMTT(60), Z3T(60), MayFailBool DEF IInv, TypeOK, TodoInv, HandInv, FreshInv, Scope, Reading, GetFill, Go, histVars
<1>8. DefaultInv'
  <2>1. ASSUME NEW q \in Procs, q # p PROVE Same(q)
    BY <2>1 DEF Same, IInv, TypeOK, GetFill, Go, histVars
  <2>2. ~Answered(p)' /\ Reading(p) /\ todo'[p] = todo[p] /\ asked'[p] = asked[p]
    BY MayFailBool DEF Answered, Reading, IInv, TypeOK, GetFill, Go, histVars
  <2>3. meta' = meta
    BY DEF GetFill
  <2> QED BY <2>1, <2>2, <2>3, DefaultFrame, DefaultUnanswered DEF IInv, DefaultInv
<1> QED BY <1>1, <1>2, <1>3, <1>4, <1>5, <1>6, <1>7, <1>8 DEF IInv

(* The deferred function decodes, or takes the default value.               *)
LEMMA GetAfterInv ==
  ASSUME IInv, NEW p \in Procs, GetAfter(p)
  PROVE  IInv'
<1>0. Scope(p) \in Scopes
  BY HeadIsScope DEF IInv, TypeOK, TodoInv, Suffix, Reading, Scope, GetAfter
<1>a. \/ found[p] = "no" /\ data[p] = None
      \/ found[p] \in {"L1", "L2"} /\ data[p] \in Written
  BY <1>0 DEF IInv, HandInv, LevelInv, GetAfter
<1>b. /\ Decode(data[p]) \in Data \cup {None} /\ data[p] \in Data \cup {None}
      /\ data[p] = None => Decode(data[p]) = None
  BY <1>a, DecodeWritten DEF Decode
<1>c. DefaultOf(Scope(p)) \in Values \cup {None}
  BY <1>0, DefaultIsValue DEF IInv
<1>d. ASSUME NEW v \in Values PROVE <<v, 0>> \in Data
  BY DEF Data
<1>1. TypeOK'
  <2>1. data' \in [Procs -> Data \cup {None}]
    BY SMTT(60), Z3T(60), <1>b, <1>c, <1>d DEF IInv, TypeOK, GetAfter
  <2>2. found' \in [Procs -> {"no", "L1", "L2", "defaults"}] /\ err' \in [Procs -> BOOLEAN]
    BY MayFailBool DEF IInv, TypeOK, GetAfter
  <2> QED BY <2>1, <2>2 DEF IInv, TypeOK, GetAfter, Go, histVars
<1>2. TodoInv'
  BY MayFailBool DEF IInv, TypeOK, TodoInv, Reading, GetAfter, Go, histVars
<1>3. LevelInv'
  BY MayFailBool DEF IInv, TypeOK, LevelInv, GetAfter, Go, histVars
<1>4. HandInv'
  BY SMTT(60), Z3T(60), MayFailBool DEF IInv, TypeOK, TodoInv, LevelInv, HandInv, Scope, Reading, GetAfter, Go, histVars
<1>5. NearestInv'
  BY SMTT(60), Z3T(60), MayFailBool DEF IInv, TypeOK, TodoInv, LevelInv, HandInv, NearestInv, Scope, Reading, PassedOver, GetAfter, Go, histVars
<1>6. ObsInv'
  <2>1. \A q \in Procs : Inside(q)' => obs' = obsAt'[q]
    BY DEF IInv, TypeOK, ObsInv, Inside, GetAfter, Go, histVars
  <2>2. ASSUME obs = Events, nToggles = 0, Answered(p)', found'[p] # "no" PROVE data'[p][2] = 0
    <3>1. "after_get" \in obs
      BY <2>2 DEF Events
    <3>2. ~err'[p] /\ p \in DOMAIN data /\ p \in DOMAIN found /\ p \in DOMAIN err
      BY <2>2 DEF IInv, TypeOK, Answered
    <3>3. CASE data[p] = None
      <4>1. found[p] = "no" /\ Decode(data[p]) = None
        BY <1>a, <1>b, <3>3, DecodeWritten
      <4>2. found'[p] = "defaults"
        BY <2>2, <3>2, <4>1 DEF GetAfter
      <4>3. data'[p] = <<DefaultOf(Scope(p)), 0>>
        BY <3>1, <3>2, <4>1, <4>2 DEF GetAfter
      <4> QED BY <4>3
    <3>4. CASE data[p] # None
      <4>1. data[p] \in Written /\ data[p][2] = 1 /\ found[p] # "no"
        BY <1>0, <1>a, <2>2, <3>4 DEF IInv, HandInv, ObsInv, GetAfter
      <4>2. data'[p] = Decode(data[p])
        BY <3>1, <3>2, <4>1, MayFailBool DEF GetAfter
      <4> QED BY <4>1, <4>2, DecodeWritten
    <3> QED BY <3>3, <3>4
  <2>3. ASSUME NEW q \in Procs, q # p
        PROVE  pc'[q] = pc[q] /\ data'[q] = data[q] /\ found'[q] = found[q] /\ err'[q] = err[q]
    BY <2>3 DEF IInv, TypeOK, GetAfter, Go
  <2>4. pc'[p] = "answer" /\ UNCHANGED <<obs, nToggles, stored>>
    BY DEF IInv, TypeOK, GetAfter, Go, histVars
  <2> QED BY SMTT(60), Z3T(60), <2>1, <2>2, <2>3, <2>4 DEF IInv, ObsInv, Answered
<1>7. FreshInv'
  BY SMTT(60), Z3T(60), MayFailBool DEF IInv, TypeOK, TodoInv, HandInv, FreshInv, Scope, Reading, GetAfter, Go, histVars
<1>8. DefaultInv'
  <2>1. ASSUME NEW q \in Procs, q # p PROVE Same(q)
    BY <2>1 DEF Same, IInv, TypeOK, GetAfter, Go, histVars
  <2>2. meta' = meta /\ \A s : DefaultOf(s)' = DefaultOf(s)
    BY DEF GetAfter, DefaultOf, HasChildren
  <2>3. PassedOver(p)' = PassedOver(p) /\ Scope(p)' = Scope(p) /\ nearest' = nearest /\ Reading(p)
    BY DEF GetAfter, histVars, PassedOver, Scope, Reading
  <2>4. ASSUME Answered(p)'
        PROVE  /\ found'[p] = "no" => DefaultOf(Scope(p)) = None
               /\ found'[p] = "defaults" => Scope(p) \notin nearest[p] /\ data'[p] = <<DefaultOf(Scope(p)), 0>>
    <3>1. p \in DOMAIN data /\ p \in DOMAIN found /\ p \in DOMAIN err
      BY DEF IInv, TypeOK
    <3>2. ~err'[p]
      BY <2>4 DEF Answered
    <3>3. ~err[p]
      BY <3>1, <3>2, MayFailBool DEF IInv, TypeOK, GetAfter
    <3>4. CASE found[p] = "no"
      <4>1. data[p] = None /\ Decode(data[p]) = None /\ Scope(p) \notin nearest[p]
        BY <1>a, <1>b, <3>3, <3>4 DEF IInv, NearestInv, GetAfter
      <4>2. CASE DefaultOf(Scope(p)) = None
        <5>1. found'[p] = "no"
          BY <3>1, <3>4, <4>2 DEF GetAfter
        <5> QED BY <4>2, <5>1
      <4>3. CASE DefaultOf(Scope(p)) # None
        <5>1. found'[p] = "defaults" /\ data'[p] = <<DefaultOf(Scope(p)), 0>>
          BY <3>1, <3>2, <3>3, <3>4, <4>1, <4>3, MayFailBool DEF GetAfter
        <5> QED BY <4>1, <5>1
      <4> QED BY <4>2, <4>3
    <3>5. CASE found[p] # "no"
      <4>1. found'[p] = found[p] /\ found[p] \in {"L1", "L2"}
        BY <1>a, <3>1, <3>5 DEF GetAfter
      <4> QED BY <4>1
    <3> QED BY <3>4, <3>5
  <2>5. DefaultFor(p)'
    BY <2>2, <2>3, <2>4 DEF DefaultFor, IInv, DefaultInv
  <2> QED BY <2>1, <2>2, <2>5, DefaultFrame DEF IInv, DefaultInv
<1> QED BY <1>1, <1>2, <1>3, <1>4, <1>5, <1>6, <1>7, <1>8 DEF IInv

(* Return, from a read or a write, whose local state is gone.               *)
LEMMA ReturnInv ==
  ASSUME IInv, NEW p \in Procs, Return(p),
         UNCHANGED <<meta, obs, level1, level2, nOps, nToggles, nFlushes, published, stored, fresh>>
  PROVE  IInv'
<1>1. TypeOK'
  BY SMTT(60), Z3T(60) DEF IInv, TypeOK, Return, Go
<1>2. TodoInv'
  BY DEF IInv, TypeOK, TodoInv, Reading, Return, Go
<1>3. LevelInv'
  BY DEF IInv, TypeOK, LevelInv, Return, Go
<1>4. HandInv'
  BY DEF IInv, TypeOK, TodoInv, LevelInv, HandInv, Scope, Reading, Return, Go
<1>5. NearestInv'
  BY SMTT(60), Z3T(60) DEF IInv, TypeOK, TodoInv, LevelInv, HandInv, NearestInv, Scope, Reading, PassedOver, Return, Go
<1>6. ObsInv'
  BY DEF IInv, TypeOK, TodoInv, LevelInv, HandInv, ObsInv, Scope, Inside, Answered, Reading, Return, Go
<1>7. FreshInv'
  BY DEF IInv, TypeOK, TodoInv, HandInv, FreshInv, Scope, Reading, Return, Go
<1>8. DefaultInv'
  <2>1. ASSUME NEW q \in Procs, q # p PROVE Same(q)
    BY <2>1 DEF Same, IInv, TypeOK, Return, Go, histVars
  <2>2. ~Answered(p)' /\ ~Reading(p)'
    BY MayFailBool DEF Answered, Reading, IInv, TypeOK, Return, Go, histVars
  <2>3. meta' = meta
    OBVIOUS
  <2> QED BY <2>1, <2>2, <2>3, DefaultFrame, DefaultUnanswered DEF IInv, DefaultInv
<1> QED BY <1>1, <1>2, <1>3, <1>4, <1>5, <1>6, <1>7, <1>8 DEF IInv

(* Scoped.Get goes on to the parent scope only when the scope it leaves     *)
(* held nothing at the start.                                               *)
LEMMA GetNextInv ==
  ASSUME IInv, NEW p \in Procs, GetNext(p)
  PROVE  IInv'
<1>a. pc[p] = "answer" /\ Suffix(todo[p], asked[p]) /\ todo[p] \in Seq(Scopes) /\ asked[p] \in Seq(Scopes)
  BY DEF IInv, TypeOK, TodoInv, Reading, GetNext
<1>b. CASE found[p] # "no" \/ err[p] \/ Len(todo[p]) = 1
  <2>0. Return(p) /\ UNCHANGED <<meta, obs, level1, level2, nOps, nToggles, nFlushes, published, stored, fresh>>
    BY <1>b DEF GetNext
  <2> QED BY <2>0, ReturnInv
<1>c. CASE ~(found[p] # "no" \/ err[p] \/ Len(todo[p]) = 1)
  <2>a. /\ Go(p, "get") /\ todo' = [todo EXCEPT ![p] = Tail(@)]
        /\ UNCHANGED <<data, found, err, obsAt, nearest, asked>>
        /\ UNCHANGED <<meta, obs, level1, level2, nOps, nToggles, nFlushes, published, stored, fresh>>
    BY <1>c DEF GetNext
  <2>b. /\ Tail(todo[p]) \in Seq(Scopes) /\ Suffix(Tail(todo[p]), asked[p])
        /\ Before(Tail(todo[p]), asked[p]) \subseteq Before(todo[p], asked[p]) \cup {Scope(p)}
    BY <1>a, <1>c, SuffixTail DEF Scope
  <2>c. pc'[p] = "get" /\ todo'[p] = Tail(todo[p])
    BY <2>a DEF IInv, TypeOK, Go
  <2>d. ASSUME NEW q \in Procs, q # p PROVE pc'[q] = pc[q] /\ todo'[q] = todo[q]
    BY <2>a, <2>d DEF IInv, TypeOK, Go
  <2>1. TypeOK'
    BY <2>a, <2>b DEF IInv, TypeOK, Go
  <2>2. TodoInv'
    BY <2>a, <2>b, <2>c, <2>d DEF IInv, TodoInv, Reading
  <2>3. LevelInv'
    BY <2>a DEF IInv, LevelInv
  <2>4. HandInv'
    BY <2>a, <2>c, <2>d DEF IInv, HandInv, Scope
  <2>5. NearestInv'
    <3>1. Scope(p) \notin nearest[p] /\ PassedOver(p) \cap nearest[p] = {}
      BY <1>a, <1>c DEF IInv, NearestInv, Reading
    <3>2. PassedOver(p) = Before(todo[p], asked[p]) /\ PassedOver(p)' = Before(Tail(todo[p]), asked[p])
      BY <2>a, <2>c DEF PassedOver, Before
    <3>3. PassedOver(p)' \cap nearest[p] = {}
      BY <2>b, <3>1, <3>2
    <3>4. ASSUME NEW q \in Procs, q # p PROVE PassedOver(q)' = PassedOver(q)
      BY <2>a, <2>d, <3>4 DEF PassedOver
    <3> QED BY <2>a, <2>c, <2>d, <3>3, <3>4 DEF IInv, NearestInv, Reading, Scope
  <2>6. ObsInv'
    BY <2>a, <2>c, <2>d DEF IInv, ObsInv, Inside, Answered
  <2>7. FreshInv'
    BY <2>a, <2>c, <2>d DEF IInv, FreshInv, Scope
  <2>8. DefaultInv'
    <3>1. ASSUME NEW q \in Procs, q # p PROVE Same(q)
      BY <2>a, <2>d, <3>1 DEF Same
    <3>2. \A s : DefaultOf(s)' = DefaultOf(s)
      BY <2>a DEF DefaultOf, HasChildren
    <3>3. Answered(p) /\ Reading(p) /\ found[p] = "no"
      BY <1>a, <1>c DEF Answered, Reading
    <3>4. DefaultOf(Scope(p)) = None /\ \A s \in PassedOver(p) : DefaultOf(s) = None
      BY <3>3 DEF IInv, DefaultInv, DefaultFor
    <3>5. PassedOver(p)' \subseteq PassedOver(p) \cup {Scope(p)}
      BY <2>a, <2>b, <2>c DEF PassedOver, Before
    <3>6. ~Answered(p)'
      BY <2>c DEF Answered
    <3>7. DefaultFor(p)'
      BY <3>2, <3>4, <3>5, <3>6 DEF DefaultFor
    <3> QED BY <2>a, <3>1, <3>7, DefaultFrame DEF IInv, DefaultInv
  <2> QED BY <2>1, <2>2, <2>3, <2>4, <2>5, <2>6, <2>7, <2>8 DEF IInv
<1> QED BY <1>b, <1>c

(* What is stored stays on record.                                          *)
LEMMA SetStoreInv ==
  ASSUME IInv, NEW p \in Procs, SetStore(p)
  PROVE  IInv'
<1>0. Scope(p) \in Scopes
  BY HeadIsScope DEF IInv, TypeOK, TodoInv, Scope, SetStore
<1>a. data[p] \in Written /\ data[p] \in Data /\ data[p] # None
  BY DecodeWritten DEF IInv, HandInv, SetStore
<1>b. ASSUME NEW s \in Scopes
      PROVE  /\ stored[s] \subseteq stored'[s] /\ stored'[s] \subseteq stored[s] \cup {data[p]}
             /\ level2'[s] \in {level2[s], data[p]}
             /\ level2'[s] # level2[s] => data[p] \in stored'[s]
  <2>1. CASE UNCHANGED <<level2, stored>>
    BY <2>1
  <2>2. CASE /\ level2' = [level2 EXCEPT ![Scope(p)] = data[p]]
             /\ stored' = [stored EXCEPT ![Scope(p)] = @ \cup {data[p]}]
    BY <1>0, <2>2 DEF IInv, TypeOK
  <2> QED BY <2>1, <2>2 DEF SetStore
<1>c. UNCHANGED <<meta, obs, level1, todo, data, found, nOps, nToggles, nFlushes, published, obsAt, nearest, asked, fresh>>
  BY DEF SetStore
<1>d. pc'[p] \in {"send", "after_set"} /\ (pc'[p] = "send" => data[p] \in stored'[Scope(p)])
  BY SMTT(60), Z3T(60), <1>0 DEF IInv, TypeOK, SetStore, Go
<1>e. ASSUME NEW q \in Procs, q # p PROVE pc'[q] = pc[q] /\ err'[q] = err[q]
  BY <1>e DEF IInv, TypeOK, SetStore, Go
<1>1. TypeOK'
  <2>1. level2' \in [Scopes -> Data \cup {None}] /\ stored' \in [Scopes -> SUBSET Data]
    <3>1. CASE UNCHANGED <<level2, stored>>
      BY <3>1 DEF IInv, TypeOK
    <3>2. CASE /\ level2' = [level2 EXCEPT ![Scope(p)] = data[p]]
               /\ stored' = [stored EXCEPT ![Scope(p)] = @ \cup {data[p]}]
      BY <1>0, <1>a, <3>2 DEF IInv, TypeOK
    <3> QED BY <3>1, <3>2 DEF SetStore
  <2>2. err' \in [Procs -> BOOLEAN]
    BY DEF IInv, TypeOK, SetStore
  <2>3. pc' \in [Procs -> {"idle", "get", "level1", "level2", "fill", "after_get", "answer", "store", "send", "after_set"}]
    <3>1. pc' = [pc EXCEPT ![p] = "send"] \/ pc' = [pc EXCEPT ![p] = "after_set"]
      BY DEF SetStore, Go
    <3> QED BY <3>1 DEF IInv, TypeOK
  <2> QED BY <1>c, <2>1, <2>2, <2>3 DEF IInv, TypeOK
<1>2. TodoInv'
  BY SMTT(60), Z3T(60), MayFailBool DEF IInv, TypeOK, TodoInv, Reading, SetStore, Go
<1>3. LevelInv'
  <2>1. ASSUME NEW s \in Scopes
        PROVE  stored'[s] \subseteq Written /\ level1'[s] \in stored'[s] \cup {None} /\ level2'[s] \in stored'[s] \cup {None}
    BY <1>a, <1>b, <1>c DEF IInv, LevelInv
  <2>2. ASSUME NEW m \in published' PROVE m[2] \in stored'[m[1]]
    <3>1. m \in published /\ m[1] \in Scopes
      BY <1>c DEF IInv, TypeOK
    <3> QED BY <1>b, <3>1 DEF IInv, LevelInv
  <2> QED BY <2>1, <2>2 DEF LevelInv
<1>4. HandInv'
  <2>1. ASSUME NEW q \in Procs, pc[q] \in {"send", "fill", "after_get"} PROVE Scope(q) \in Scopes
    BY <2>1, HeadIsScope DEF IInv, TypeOK, TodoInv, Suffix, Reading, Scope
  <2>2. ASSUME NEW q \in Procs PROVE Scope(q)' = Scope(q)
    BY <1>c DEF Scope
  <2> QED BY SMTT(60), Z3T(60), <1>b, <1>c, <1>d, <1>e, <2>1, <2>2 DEF IInv, HandInv
<1>5. NearestInv'
  <2>1. ASSUME NEW q \in Procs, NEW s \in nearest[q] PROVE level2'[s] # None
    <3>1. s \in Scopes /\ level2[s] # None
      BY DEF IInv, TypeOK, NearestInv
    <3> QED BY <1>a, <1>b, <3>1
  <2>2. ASSUME NEW q \in Procs PROVE PassedOver(q)' = PassedOver(q) /\ Scope(q)' = Scope(q)
    BY <1>c DEF PassedOver, Scope
  <2> QED BY <1>c, <1>d, <1>e, <2>1, <2>2 DEF IInv, NearestInv, Reading
<1>6. ObsInv'
  <2>1. \A q \in Procs : Inside(q)' => obs' = obsAt'[q]
    BY <1>c, <1>d, <1>e DEF IInv, ObsInv, Inside, SetStore
  <2>2. ASSUME obs = Events, nToggles = 0, NEW s \in Scopes, NEW d \in stored'[s] PROVE d[2] = 1
    BY <1>b, <2>2 DEF IInv, ObsInv, SetStore
  <2> QED BY <1>c, <1>d, <1>e, <2>1, <2>2 DEF IInv, ObsInv, Answered
<1>7. FreshInv'
  BY MayFailBool DEF IInv, TypeOK, TodoInv, HandInv, FreshInv, Scope, Reading, SetStore, Go
<1>8. DefaultInv'
  <2>1. ASSUME NEW q \in Procs, q # p PROVE Same(q)
    BY <2>1 DEF Same, IInv, TypeOK, SetStore, Go, histVars
  <2>2. ~Answered(p)' /\ ~Reading(p)'
    BY MayFailBool DEF Answered, Reading, IInv, TypeOK, SetStore, Go, histVars
  <2>3. meta' = meta
    BY DEF SetStore
  <2> QED BY <2>1, <2>2, <2>3, DefaultFrame, DefaultUnanswered DEF IInv, DefaultInv
<1> QED BY <1>1, <1>2, <1>3, <1>4, <1>5, <1>6, <1>7, <1>8 DEF IInv

(* Subscribers are told of what has just been stored.                       *)
LEMMA SetSendInv ==
  ASSUME IInv, NEW p \in Procs, SetSend(p)
  PROVE  IInv'
<1>0. Scope(p) \in Scopes
  BY HeadIsScope DEF IInv, TypeOK, TodoInv, Scope, SetSend
<1>a. data[p] \in stored[Scope(p)] /\ data[p] \in Data
  BY <1>0, DecodeWritten DEF IInv, HandInv, LevelInv, SetSend
<1>1. TypeOK'
  BY SMTT(60), Z3T(60), <1>0, <1>a DEF IInv, TypeOK, SetSend, Go
<1>2. TodoInv'
  BY MayFailBool DEF IInv, TypeOK, TodoInv, Reading, SetSend, Go
<1>3. LevelInv'
  <2>1. ASSUME NEW m \in published' PROVE m[2] \in stored[m[1]]
    <3>1. CASE m \in published
      BY <3>1 DEF IInv, LevelInv
    <3>2. CASE m = <<Scope(p), data[p]>>
      BY <1>a, <3>2
    <3> QED BY <3>1, <3>2 DEF SetSend
  <2> QED BY <2>1 DEF IInv, LevelInv, SetSend
<1>4. HandInv'
  BY MayFailBool DEF IInv, TypeOK, TodoInv, LevelInv, HandInv, Scope, Reading, SetSend, Go
<1>5. NearestInv'
  BY SMTT(60), Z3T(60), MayFailBool DEF IInv, TypeOK, TodoInv, LevelInv, HandInv, NearestInv, Scope, Reading, PassedOver, SetSend, Go
<1>6. ObsInv'
  BY MayFailBool DEF IInv, TypeOK, TodoInv, LevelInv, HandInv, ObsInv, Scope, Inside, Answered, Reading, SetSend, Go
<1>7. FreshInv'
  BY MayFailBool DEF IInv, TypeOK, TodoInv, HandInv, FreshInv, Scope, Reading, SetSend, Go
<1>8. DefaultInv'
  <2>1. ASSUME NEW q \in Procs, q # p PROVE Same(q)
    BY <2>1 DEF Same, IInv, TypeOK, SetSend, Go, histVars
  <2>2. ~Answered(p)' /\ ~Reading(p)'
    BY MayFailBool DEF Answered, Reading, IInv, TypeOK, SetSend, Go, histVars
  <2>3. meta' = meta
    BY DEF SetSend
  <2> QED BY <2>1, <2>2, <2>3, DefaultFrame, DefaultUnanswered DEF IInv, DefaultInv
<1> QED BY <1>1, <1>2, <1>3, <1>4, <1>5, <1>6, <1>7, <1>8 DEF IInv

(* A read starts with what has a value now.                                 *)
LEMMA StartReadInv ==
  ASSUME IInv, NEW p \in Procs, NEW q \in Seq(Scopes), q # <<>>, StartRead(p, q)
  PROVE  IInv'
<1>a. /\ pc'[p] = "get" /\ todo'[p] = q /\ asked'[p] = q /\ nearest'[p] = {s \in Scopes : level2[s] # None}
      /\ UNCHANGED <<level2, data, found, err>>
  BY DEF IInv, TypeOK, StartRead, Go
<1>b. ASSUME NEW o \in Procs, o # p
      PROVE  pc'[o] = pc[o] /\ todo'[o] = todo[o] /\ asked'[o] = asked[o] /\ nearest'[o] = nearest[o]
  BY <1>b DEF IInv, TypeOK, StartRead, Go
<1>c. Suffix(q, q) /\ Before(q, q) = {}
  BY SuffixOfItself
<1>1. TypeOK'
  BY SMTT(60), ServiceAssumption DEF IInv, TypeOK, StartRead, Go
<1>2. TodoInv'
  BY <1>a, <1>b, <1>c DEF IInv, TodoInv, Reading
<1>3. LevelInv'
  BY MayFailBool DEF IInv, TypeOK, LevelInv, StartRead, Go
<1>4. HandInv'
  BY MayFailBool DEF IInv, TypeOK, TodoInv, LevelInv, HandInv, Scope, Reading, StartRead, Go
<1>5. NearestInv'
  <2>1. PassedOver(p)' = {}
    BY <1>a, <1>c DEF PassedOver, Before
  <2>2. ASSUME NEW o \in Procs, o # p PROVE PassedOver(o)' = PassedOver(o) /\ Scope(o)' = Scope(o)
    BY <1>b, <2>2 DEF PassedOver, Scope
  <2> QED BY <1>a, <1>b, <2>1, <2>2 DEF IInv, NearestInv, Reading
<1>6. ObsInv'
  BY MayFailBool DEF IInv, TypeOK, TodoInv, LevelInv, HandInv, ObsInv, Scope, Inside, Answered, Reading, StartRead, Go
<1>7. FreshInv'
  BY MayFailBool DEF IInv, TypeOK, TodoInv, HandInv, FreshInv, Scope, Reading, StartRead, Go
<1>8. DefaultInv'
  <2>1. ASSUME NEW o \in Procs, o # p PROVE Same(o)
    BY <1>a, <1>b, <2>1 DEF Same
  <2>2. meta' = meta
    BY DEF StartRead
  <2>3. PassedOver(p)' = {} /\ ~Answered(p)'
    BY <1>a, <1>c DEF PassedOver, Before, Answered
  <2>4. DefaultFor(p)'
    BY <2>3 DEF DefaultFor
  <2> QED BY <2>1, <2>2, <2>4, DefaultFrame DEF IInv, DefaultInv
<1> QED BY <1>1, <1>2, <1>3, <1>4, <1>5, <1>6, <1>7, <1>8 DEF IInv

(* A write begins, or is refused; levels are no longer known to agree.      *)
LEMMA SetBeginInv ==
  ASSUME IInv, NEW p \in Procs, NEW s \in Scopes, NEW v \in Values, SetBegin(p, s, v)
  PROVE  IInv'
<1>a. nOps' \in 0..MaxOps /\ fresh' = FALSE
  BY SMTT(60), ServiceAssumption DEF IInv, TypeOK, SetBegin
<1>b. UNCHANGED <<meta, obs, level1, level2, nToggles, nFlushes, published, nearest, asked, stored>>
  BY DEF SetBegin
<1>c. CASE UNCHANGED <<procVars, obsAt>>
  <2>1. UNCHANGED <<pc, todo, data, found, err, obsAt>>
    BY <1>c DEF procVars
  <2>2. TypeOK' /\ TodoInv'
    BY <1>a, <1>b, <2>1 DEF IInv, TypeOK, TodoInv, Reading
  <2>3. LevelInv' /\ HandInv'
    BY <1>b, <2>1 DEF IInv, LevelInv, HandInv, Scope
  <2>4. NearestInv' /\ ObsInv'
    BY SMTT(60), Z3T(60), <1>b, <2>1 DEF IInv, NearestInv, Reading, PassedOver, Scope, ObsInv, Inside, Answered
  <2>5. DefaultInv'
    <3>1. \A q \in Procs : Same(q)
      BY <1>b, <2>1 DEF Same
    <3> QED BY <1>b, <3>1, DefaultFrame DEF IInv, DefaultInv
  <2> QED BY <1>a, <2>2, <2>3, <2>4, <2>5 DEF IInv, FreshInv
<1>d. CASE ~ UNCHANGED <<procVars, obsAt>>
  <2> DEFINE d == IF "before_set" \in obs THEN Encode(<<v, 0>>) ELSE <<v, 0>>
  <2>a. /\ Go(p, "store") /\ todo' = [todo EXCEPT ![p] = <<s>>]
        /\ obsAt' = [obsAt EXCEPT ![p] = obs] /\ data' = [data EXCEPT ![p] = d]
        /\ UNCHANGED <<found, err>>
    BY <1>d DEF SetBegin
  <2>b. d \in Written /\ d \in Data
    BY EncodeValue, DecodeWritten
  <2>c. obs = Events => d[2] = 1
    BY EncodeValue DEF Events
  <2> HIDE DEF d
  <2>d. <<s>> \in Seq(Scopes) /\ <<s>> # <<>>
    OBVIOUS
  <2>e. pc'[p] = "store" /\ todo'[p] = <<s>> /\ obsAt'[p] = obs /\ data'[p] = d
    BY <2>a DEF IInv, TypeOK, Go
  <2>f. ASSUME NEW q \in Procs, q # p
        PROVE  pc'[q] = pc[q] /\ todo'[q] = todo[q] /\ obsAt'[q] = obsAt[q] /\ data'[q] = data[q]
    BY <2>a, <2>f DEF IInv, TypeOK, Go
  <2>1. TypeOK'
    BY <1>a, <1>b, <2>a, <2>b, <2>d DEF IInv, TypeOK, Go
  <2>2. TodoInv'
    <3>1. ASSUME NEW q \in Procs, q # p PROVE Reading(q)' = Reading(q)
      BY <2>f, <3>1 DEF Reading
    <3>2. ~Reading(p)'
      BY <2>e DEF Reading
    <3> QED BY <1>b, <2>d, <2>e, <2>f, <3>1, <3>2 DEF IInv, TodoInv
  <2>3. LevelInv'
    BY <1>b DEF IInv, LevelInv
  <2>4. HandInv'
    BY SMTT(60), Z3T(60), <1>b, <2>a, <2>b, <2>e, <2>f DEF IInv, HandInv, Scope
  <2>5. NearestInv'
    <3>1. ASSUME NEW q \in Procs, q # p PROVE PassedOver(q)' = PassedOver(q)
      BY <1>b, <2>f, <3>1 DEF PassedOver
    <3> QED BY <1>b, <2>a, <2>e, <2>f, <3>1 DEF IInv, NearestInv, Reading, Scope
  <2>6. ObsInv'
    <3>1. \A q \in Procs : Inside(q)' => obs' = obsAt'[q]
      BY <1>b, <2>e, <2>f DEF IInv, ObsInv, Inside
    <3>2. \A q \in Procs : q # p => Answered(q)' = Answered(q)
      BY <2>a, <2>f DEF Answered
    <3>3. ~Answered(p)'
      BY <2>e DEF Answered
    <3> QED BY SMTT(60), Z3T(60), <1>b, <2>a, <2>c, <2>e, <2>f, <3>1, <3>2, <3>3 DEF IInv, ObsInv
  <2>7. FreshInv'
    BY <1>a DEF FreshInv
  <2>8. DefaultInv'
    <3>1. ASSUME NEW q \in Procs, q # p PROVE Same(q)
      BY <1>b, <2>a, <2>f, <3>1 DEF Same
    <3>2. ~Answered(p)' /\ ~Reading(p)'
      BY <2>e DEF Answered, Reading
    <3> QED BY <1>b, <3>1, <3>2, DefaultFrame, DefaultUnanswered DEF IInv, DefaultInv
  <2> QED BY <2>1, <2>2, <2>3, <2>4, <2>5, <2>6, <2>7, <2>8 DEF IInv
<1> QED BY <1>c, <1>d

(* Flush empties level 1, under whoever is inside.                          *)
LEMMA FlushInv ==
  ASSUME IInv, Flush
  PROVE  IInv'
<1>a. UNCHANGED <<meta, obs, level2, pc, todo, data, found, err, nOps, nToggles, published, obsAt, nearest, asked, stored>>
  BY DEF Flush, procVars
<1>b. level1' = [s \in Scopes |-> None] /\ nFlushes' \in 0..MaxOthers /\ fresh' \in BOOLEAN
  BY SMTT(60), ServiceAssumption DEF IInv, TypeOK, Flush, NoValue
<1>1. TypeOK'
  BY <1>a, <1>b DEF IInv, TypeOK
<1>2. TodoInv'
  BY <1>a, <1>b DEF IInv, TodoInv, Reading
<1>3. LevelInv'
  BY <1>a, <1>b DEF IInv, LevelInv
<1>4. HandInv'
  BY <1>a, <1>b DEF IInv, HandInv, Scope
<1>5. NearestInv'
  BY <1>a, <1>b DEF IInv, NearestInv, Reading, PassedOver, Scope
<1>6. ObsInv'
  BY <1>a, <1>b DEF IInv, ObsInv, Inside, Answered
<1>7. FreshInv'
  BY <1>a, <1>b DEF IInv, FreshInv, Scope, Flush
<1>8. DefaultInv'
  <2>1. \A q \in Procs : Same(q)
    BY <1>a, <1>b DEF Same
  <2> QED BY <1>a, <1>b, <2>1, DefaultFrame DEF IInv, DefaultInv
<1> QED BY <1>1, <1>2, <1>3, <1>4, <1>5, <1>6, <1>7, <1>8 DEF IInv

(* The write lock keeps observers away from operations in progress.         *)
LEMMA RegisterObserverInv ==
  ASSUME IInv, NEW e \in Events, RegisterObserver(e)
  PROVE  IInv'
<1>a. /\ nToggles' \in 0..MaxOthers /\ nToggles' # 0 /\ obs' \subseteq Events
      /\ \A q \in Procs : ~Inside(q)
  BY SMTT(60), ServiceAssumption DEF IInv, TypeOK, RegisterObserver, Locked
<1>b. UNCHANGED <<meta, level1, level2, pc, todo, data, found, err, nOps, nFlushes, published, obsAt, nearest, asked, stored, fresh>>
  BY DEF RegisterObserver, procVars, histVars
<1>1. TypeOK'
  BY <1>a, <1>b DEF IInv, TypeOK
<1>2. TodoInv'
  BY <1>a, <1>b DEF IInv, TodoInv, Reading
<1>3. LevelInv'
  BY <1>a, <1>b DEF IInv, LevelInv
<1>4. HandInv'
  BY <1>a, <1>b DEF IInv, HandInv, Scope
<1>5. NearestInv'
  BY <1>a, <1>b DEF IInv, NearestInv, Reading, PassedOver, Scope
<1>6. ObsInv'
  BY <1>a, <1>b DEF IInv, ObsInv, Inside
<1>7. FreshInv'
  BY <1>a, <1>b DEF IInv, FreshInv, Scope
<1>8. DefaultInv'
  <2>1. \A q \in Procs : Same(q)
    BY <1>a, <1>b DEF Same
  <2> QED BY <1>a, <1>b, <2>1, DefaultFrame DEF IInv, DefaultInv
<1> QED BY <1>1, <1>2, <1>3, <1>4, <1>5, <1>6, <1>7, <1>8 DEF IInv

(* So it does when one is removed.                                          *)
LEMMA DeregisterObserverInv ==
  ASSUME IInv, NEW e \in Events, DeregisterObserver(e)
  PROVE  IInv'
<1>a. /\ nToggles' \in 0..MaxOthers /\ nToggles' # 0 /\ obs' \subseteq Events
      /\ \A q \in Procs : ~Inside(q)
  BY SMTT(60), ServiceAssumption DEF IInv, TypeOK, DeregisterObserver, Locked
<1>b. UNCHANGED <<meta, level1, level2, pc, todo, data, found, err, nOps, nFlushes, published, obsAt, nearest, asked, stored, fresh>>
  BY DEF DeregisterObserver, procVars, histVars
<1>1. TypeOK'
  BY <1>a, <1>b DEF IInv, TypeOK
<1>2. TodoInv'
  BY <1>a, <1>b DEF IInv, TodoInv, Reading
<1>3. LevelInv'
  BY <1>a, <1>b DEF IInv, LevelInv
<1>4. HandInv'
  BY <1>a, <1>b DEF IInv, HandInv, Scope
<1>5. NearestInv'
  BY <1>a, <1>b DEF IInv, NearestInv, Reading, PassedOver, Scope
<1>6. ObsInv'
  BY <1>a, <1>b DEF IInv, ObsInv, Inside
<1>7. FreshInv'
  BY <1>a, <1>b DEF IInv, FreshInv, Scope
<1>8. DefaultInv'
  <2>1. \A q \in Procs : Same(q)
    BY <1>a, <1>b DEF Same
  <2> QED BY <1>a, <1>b, <2>1, DefaultFrame DEF IInv, DefaultInv
<1> QED BY <1>1, <1>2, <1>3, <1>4, <1>5, <1>6, <1>7, <1>8 DEF IInv

-----------------------------------------------------------------------------
(* Initially the invariant holds.                                           *)
LEMMA InitInv == Init => IInv
<1> SUFFICES ASSUME Init PROVE IInv
  OBVIOUS
<1>1. TypeOK
  BY SMTT(60), ServiceAssumption DEF Init, TypeOK, NoValue
<1>2. TodoInv /\ LevelInv /\ HandInv
  BY DEF Init, TodoInv, Reading, LevelInv, HandInv, NoValue
<1>3. NearestInv /\ DefaultInv /\ ObsInv /\ FreshInv
  BY DEF Init, NearestInv, DefaultInv, DefaultFor, Reading, ObsInv, Inside, Answered, FreshInv, NoValue
<1> QED BY <1>1, <1>2, <1>3 DEF IInv

(* Every step preserves it.                                                 *)
LEMMA NextInv == IInv /\ [Next]_vars => IInv'
<1> SUFFICES ASSUME IInv, [Next]_vars PROVE IInv'
  OBVIOUS
<1>1. ASSUME NEW p \in Procs, Step(p) PROVE IInv'
  <2>1. CASE SetAfter(p)
    BY <2>1, ReturnInv DEF SetAfter
  <2> QED BY <1>1, <2>1, GetBeginInv, GetLevel1Inv, GetLevel2Inv, GetFillInv, GetAfterInv, GetNextInv,
             SetStoreInv, SetSendInv DEF Step
<1>2. ASSUME NEW p \in Procs, NEW ss \in Scopes, NEW r \in Scopes \cup {None}, ScopedGet(p, ss, r) PROVE IInv'
  <2>1. StartRead(p, Lookups(ss, r))
    BY <1>2 DEF ScopedGet
  <2> QED BY <2>1, LookupsAsk, StartReadInv
<1>3. ASSUME NEW p \in Procs, NEW s \in Scopes, DirectGet(p, s) PROVE IInv'
  <2>1. StartRead(p, <<s>>) /\ <<s>> \in Seq(Scopes) /\ <<s>> # <<>>
    BY <1>3 DEF DirectGet
  <2> QED BY <2>1, StartReadInv
<1>4. ASSUME NEW p \in Procs, NEW s \in Scopes, NEW v \in Values, SetBegin(p, s, v) PROVE IInv'
  BY <1>4, SetBeginInv
<1>5. CASE Flush
  BY <1>5, FlushInv
<1>6. ASSUME NEW e \in Events, RegisterObserver(e) \/ DeregisterObserver(e) PROVE IInv'
  BY <1>6, RegisterObserverInv, DeregisterObserverInv
<1>7. CASE UNCHANGED vars
  <2>1. UNCHANGED <<meta, obs, level1, level2, pc, todo, data, found, err, nOps, nToggles, nFlushes,
                    published, obsAt, nearest, asked, stored, fresh>>
    BY <1>7 DEF vars, procVars, histVars
  <2>2. TypeOK' /\ TodoInv' /\ LevelInv' /\ HandInv'
    BY <2>1 DEF IInv, TypeOK, TodoInv, LevelInv, HandInv, Reading, Scope
  <2>3. NearestInv'
    BY <2>1 DEF IInv, NearestInv, Reading, Scope, PassedOver
  <2>5. DefaultInv'
    <3>1. \A q \in Procs : Same(q)
      BY <2>1 DEF Same
    <3> QED BY <2>1, <3>1, DefaultFrame DEF IInv, DefaultInv
  <2>4. ObsInv' /\ FreshInv'
    BY <2>1 DEF IInv, ObsInv, FreshInv, Scope, Inside, Answered
  <2> QED BY <2>2, <2>3, <2>4, <2>5 DEF IInv
<1> QED BY <1>1, <1>2, <1>3, <1>4, <1>5, <1>6, <1>7 DEF Next
-----------------------------------------------------------------------------
(* The invariant holds in every reachable state.                            *)
THEOREM Invariance == Spec => []IInv
<1>1. Init => IInv
  BY InitInv
<1>2. IInv /\ [Next]_vars => IInv'
  BY NextInv
<1> QED BY <1>1, <1>2, PTL DEF Spec

(* Get of a scoped reader answers from the nearest scope that had a stored  *)
(* value when it began, or that has a default value.                        *)
THEOREM ReadsTakeTheNearest == Spec => []NearestOfferWins
<1>1. ASSUME IInv, NEW p \in Procs, Answered(p)
      PROVE  /\ \A s \in PassedOver(p) : ~Offers(p, s)
             /\ found[p] = "no" => ~Offers(p, Scope(p))
             /\ found[p] = "defaults" => /\ Scope(p) \notin nearest[p]
                                         /\ data[p] = <<DefaultOf(Scope(p)), 0>>
  <2>1. Reading(p) /\ pc[p] = "answer" /\ ~err[p]
    BY <1>1 DEF Reading, Answered
  <2>2. PassedOver(p) \cap nearest[p] = {} /\ (found[p] = "no" => Scope(p) \notin nearest[p])
    BY <1>1, <2>1 DEF IInv, NearestInv
  <2> QED BY <1>1, <2>1, <2>2 DEF IInv, DefaultInv, DefaultFor, Offers
<1>2. IInv => NearestOfferWins
  BY <1>1 DEF NearestOfferWins
<1> QED BY <1>2, Invariance, PTL

(* Level 1 and the subscribers only see what level 2 has held.              *)
THEOREM LevelsHoldWhatWasStored == Spec => []StoredFirst
<1>1. IInv => StoredFirst
  BY DEF IInv, LevelInv, StoredFirst
<1> QED BY <1>1, Invariance, PTL

(* The observers of one operation are those that were registered when it    *)
(* took the lock, and values come back decoded exactly once.                *)
THEOREM ValuesAreDecodedOnce == Spec => []DecodedOnce
<1>1. IInv => DecodedOnce
  BY DEF IInv, ObsInv, DecodedOnce
<1> QED BY <1>1, Invariance, PTL

(* After a Flush that met nobody, level 1 agrees with level 2 until a Set   *)
(* begins.                                                                  *)
THEOREM FlushMakesLevelsAgree == Spec => []FlushedAgrees
<1>1. IInv => FlushedAgrees
  BY DEF IInv, FreshInv, FlushedAgrees
<1> QED BY <1>1, Invariance, PTL
=============================================================================
