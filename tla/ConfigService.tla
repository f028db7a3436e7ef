---------------------------- MODULE ConfigService ----------------------------
(***************************************************************************)
(* config.Service: Get, Set, Flush, the observers of a route and the       *)
(* scoped reader, config/service.go with trieRoute.process of              *)
(* config/route_trie.go.                                                   *)
(*                                                                         *)
(* The model follows one route.  A path is then its scope, "default",      *)
(* "website" or "store", each with the one ID that matters.  Level 2 is    *)
(* the storage, level 1 the optional cache.  Data is a pair of a value and *)
(* the number of times it has been encoded: an observer of the event       *)
(* before_set encodes, one of after_get decodes.                           *)
(***************************************************************************)
EXTENDS Integers, Sequences, FiniteSets

CONSTANTS
  Procs,       \* goroutines that use the service
  Values, None,
  HasLevel1,   \* Options.Level1 is set
  Setups,      \* what may have been loaded for the route: its meta, and the events observed
  Faults,      \* observers and storages may return errors
  MaxOps,      \* bound: calls of Get and Set
  MaxOthers    \* bound: calls of Flush, RegisterObserver and DeregisterObserver

Scopes == {"default", "website", "store"}
Events == {"before_set", "after_get"}
Data == Values \X (-1..2)

(* FieldMeta of the route: the default value, default values for a website  *)
(* or a store, and the scopes that may be written.                          *)
MetaType == [def : Values \cup {None},
             child : [{"website", "store"} -> Values \cup {None}],
             perm : SUBSET Scopes]

ASSUME ServiceAssumption ==
  /\ None \notin Values /\ None \notin Data
  /\ HasLevel1 \in BOOLEAN /\ Faults \in BOOLEAN
  /\ Setups \subseteq [meta : MetaType, obs : SUBSET Events]
  /\ MaxOps \in Nat /\ MaxOthers \in Nat

VARIABLES
  meta,
  obs,        \* events that have an observer
  level1, level2,
  pc,         \* where a goroutine is
  todo,       \* scopes that a reader has still to ask, the current one first
  data,       \* data in the hands of a goroutine, None for nil
  found,      \* Value.found: "no", "L1", "L2", "defaults"
  err,        \* lastErr # nil
  nOps, nToggles, nFlushes,
  published,  \* history: <<scope, data>> handed to sendMsg
  obsAt,      \* history: obs when the goroutine took the lock
  nearest,    \* history: scopes that had a value when the read started
  asked,      \* history: the scopes of the whole read
  stored,     \* history: every data level 2 has ever held, per scope
  fresh       \* history: no Set since a Flush that met nobody inside

procVars == <<pc, todo, data, found, err>>
histVars == <<published, obsAt, nearest, asked, stored, fresh>>
vars == <<meta, obs, level1, level2, procVars, nOps, nToggles, nFlushes, histVars>>

NoValue == [s \in Scopes |-> None]

Init ==
  /\ \E s \in Setups : meta = s.meta /\ obs = s.obs
  /\ level1 = NoValue /\ level2 = NoValue
  /\ pc = [p \in Procs |-> "idle"]
  /\ todo = [p \in Procs |-> <<>>]
  /\ data = [p \in Procs |-> None]
  /\ found = [p \in Procs |-> "no"]
  /\ err = [p \in Procs |-> FALSE]
  /\ nOps = 0 /\ nToggles = 0 /\ nFlushes = 0
  /\ published = {}
  /\ obsAt = [p \in Procs |-> {}]
  /\ nearest = [p \in Procs |-> {}]
  /\ asked = [p \in Procs |-> <<>>]
  /\ stored = [s \in Scopes |-> {}]
  /\ fresh = TRUE

(* Who holds Service.mu.RLock.                                              *)
Inside(p) == pc[p] \in {"level1", "level2", "fill", "after_get", "store", "send", "after_set"}
Scope(p) == Head(todo[p])
Go(p, to) == pc' = [pc EXCEPT ![p] = to]
MayFail == IF Faults THEN BOOLEAN ELSE {FALSE}

(* The goroutine has returned from Get or Set, and its local variables with *)
(* what was remembered of the operation are gone.                           *)
Return(p) ==
  /\ Go(p, "idle")
  /\ todo' = [todo EXCEPT ![p] = <<>>] /\ asked' = [asked EXCEPT ![p] = <<>>]
  /\ data' = [data EXCEPT ![p] = None]
  /\ found' = [found EXCEPT ![p] = "no"]
  /\ err' = [err EXCEPT ![p] = FALSE]
  /\ nearest' = [nearest EXCEPT ![p] = {}] /\ obsAt' = [obsAt EXCEPT ![p] = {}]
-----------------------------------------------------------------------------
(* trieRoute.process                                                        *)

Encode(d) == <<d[1], d[2] + 1>>
Decode(d) == IF d = None THEN None ELSE <<d[1], d[2] - 1>>

HasChildren == \E s \in {"website", "store"} : meta.child[s] # None

(* The default value that after_get finds on its way down: the route's own, *)
(* unless it has children and the path is not in the default scope, or      *)
(* that of the website or store.                                            *)
DefaultOf(s) ==
  IF meta.def # None /\ (s = "default" \/ ~HasChildren) THEN meta.def
  ELSE IF s = "default" THEN None ELSE meta.child[s]
-----------------------------------------------------------------------------
(* Get                                                                      *)

(* The scopes that Scoped.Get asks, for a reader bound to scope ss.         *)
isAllowedStore(ss, restrictUpTo) ==
  ss = "store" /\ (IF restrictUpTo = None THEN ss ELSE restrictUpTo) = "store"

isAllowedWebsite(ss, restrictUpTo) ==
  /\ ss \in {"website", "store"}
  /\ (IF restrictUpTo = None THEN ss ELSE restrictUpTo) \in {"website", "store"}

Lookups(ss, restrictUpTo) ==
  (IF isAllowedStore(ss, restrictUpTo) THEN <<"store">> ELSE <<>>)
    \o (IF isAllowedWebsite(ss, restrictUpTo) THEN <<"website">> ELSE <<>>)
    \o <<"default">>

StartRead(p, scopes) ==
  /\ pc[p] = "idle"
  /\ nOps < MaxOps
  /\ nOps' = nOps + 1
  /\ Go(p, "get")
  /\ todo' = [todo EXCEPT ![p] = scopes]
  /\ nearest' = [nearest EXCEPT ![p] = {s \in Scopes : level2[s] # None}]
  /\ asked' = [asked EXCEPT ![p] = scopes]
  /\ UNCHANGED <<meta, obs, level1, level2, data, found, err, nToggles, nFlushes, published, obsAt, stored, fresh>>

ScopedGet(p, ss, restrictUpTo) == StartRead(p, Lookups(ss, restrictUpTo))
DirectGet(p, s) == StartRead(p, <<s>>)

(* RLock and the event before_get, which may refuse.                        *)
GetBegin(p) ==
  /\ pc[p] = "get"
  /\ data' = [data EXCEPT ![p] = None]
  /\ found' = [found EXCEPT ![p] = "no"]
  /\ obsAt' = [obsAt EXCEPT ![p] = obs]
  /\ \E fails \in MayFail :
       /\ err' = [err EXCEPT ![p] = fails]
       /\ Go(p, IF fails THEN "answer" ELSE IF HasLevel1 THEN "level1" ELSE "level2")
  /\ UNCHANGED <<meta, obs, level1, level2, todo, nOps, nToggles, nFlushes, published, nearest, asked, stored, fresh>>

GetLevel1(p) ==
  /\ pc[p] = "level1"
  /\ \E fails \in MayFail :
       LET hit == ~fails /\ level1[Scope(p)] # None
       IN /\ data' = [data EXCEPT ![p] = IF fails THEN None ELSE level1[Scope(p)]]
          /\ found' = [found EXCEPT ![p] = IF hit THEN "L1" ELSE "no"]
          /\ err' = [err EXCEPT ![p] = fails]
          /\ Go(p, IF fails \/ hit THEN "after_get" ELSE "level2")
  /\ UNCHANGED <<meta, obs, level1, level2, todo, nOps, nToggles, nFlushes, histVars>>

GetLevel2(p) ==
  /\ pc[p] = "level2"
  /\ \E fails \in MayFail :
       LET hit == ~fails /\ level2[Scope(p)] # None
       IN /\ data' = [data EXCEPT ![p] = IF fails THEN None ELSE level2[Scope(p)]]
          /\ found' = [found EXCEPT ![p] = IF hit THEN "L2" ELSE "no"]
          /\ err' = [err EXCEPT ![p] = fails]
          /\ Go(p, IF hit /\ HasLevel1 THEN "fill" ELSE "after_get")
  /\ UNCHANGED <<meta, obs, level1, level2, todo, nOps, nToggles, nFlushes, histVars>>

(* Level1.Set with what level 2 returned.                                   *)
GetFill(p) ==
  /\ pc[p] = "fill"
  /\ \E fails \in MayFail :
       /\ level1' = IF fails THEN level1 ELSE [level1 EXCEPT ![Scope(p)] = data[p]]
       /\ err' = [err EXCEPT ![p] = fails]
  /\ Go(p, "after_get")
  /\ UNCHANGED <<meta, obs, level2, todo, data, found, nOps, nToggles, nFlushes, histVars>>

GetAfterCachesDefault(p) ==
  /\ pc[p] = "after_get"
  /\ \E fails \in MayFail :
       LET d == IF "after_get" \in obs THEN Decode(data[p]) ELSE data[p]
           dflt == DefaultOf(Scope(p))
           usesDefault == ~fails /\ found[p] = "no" /\ d = None /\ dflt # None
       IN /\ data' = [data EXCEPT ![p] = IF fails THEN None ELSE IF usesDefault THEN <<dflt, 0>> ELSE d]
          /\ found' = [found EXCEPT ![p] = IF usesDefault THEN "defaults" ELSE @]
          /\ err' = [err EXCEPT ![p] = @ \/ fails]
          /\ level1' = IF usesDefault THEN [level1 EXCEPT ![Scope(p)] = <<dflt, 0>>] ELSE level1
  /\ Go(p, "answer")
  /\ UNCHANGED <<meta, obs, level2, todo, nOps, nToggles, nFlushes, histVars>>

GetAfterSkipsCached(p) ==
  /\ pc[p] = "after_get"
  /\ \E fails \in MayFail :
       LET d == IF "after_get" \in obs /\ found[p] # "L1" THEN Decode(data[p]) ELSE data[p]
           dflt == DefaultOf(Scope(p))
           usesDefault == ~fails /\ found[p] = "no" /\ d = None /\ dflt # None
       IN /\ data' = [data EXCEPT ![p] = IF fails THEN None ELSE IF usesDefault THEN <<dflt, 0>> ELSE d]
          /\ found' = [found EXCEPT ![p] = IF usesDefault THEN "defaults" ELSE @]
          /\ err' = [err EXCEPT ![p] = @ \/ fails]
  /\ Go(p, "answer")
  /\ UNCHANGED <<meta, obs, level1, level2, todo, nOps, nToggles, nFlushes, histVars>>

(* The deferred function: the event after_get, the default value, RUnlock.  *)
GetAfter(p) ==
  /\ pc[p] = "after_get"
  /\ \E fails \in MayFail :
       LET d == IF "after_get" \in obs THEN Decode(data[p]) ELSE data[p]
           dflt == DefaultOf(Scope(p))
           usesDefault == ~fails /\ found[p] = "no" /\ d = None /\ dflt # None
       IN /\ data' = [data EXCEPT ![p] = IF fails THEN None ELSE IF usesDefault THEN <<dflt, 0>> ELSE d]
          /\ found' = [found EXCEPT ![p] = IF usesDefault THEN "defaults" ELSE @]
          /\ err' = [err EXCEPT ![p] = @ \/ fails]
  /\ Go(p, "answer")
  /\ UNCHANGED <<meta, obs, level1, level2, todo, nOps, nToggles, nFlushes, histVars>>

GetNextSkipsWebsite(p) ==
  /\ pc[p] = "answer"
  /\ IF found[p] # "no" \/ err[p] \/ Len(todo[p]) = 1
       THEN Return(p)
       ELSE /\ Go(p, "get")
            /\ todo' = [todo EXCEPT ![p] = <<"default">>]
            /\ UNCHANGED <<data, found, err, obsAt, nearest, asked>>
  /\ UNCHANGED <<meta, obs, level1, level2, nOps, nToggles, nFlushes, published, stored, fresh>>

(* Scoped.Get: on to the parent scope when nothing was found.               *)
GetNext(p) ==
  /\ pc[p] = "answer"
  /\ IF found[p] # "no" \/ err[p] \/ Len(todo[p]) = 1
       THEN Return(p)
       ELSE /\ Go(p, "get")
            /\ todo' = [todo EXCEPT ![p] = Tail(@)]
            /\ UNCHANGED <<data, found, err, obsAt, nearest, asked>>
  /\ UNCHANGED <<meta, obs, level1, level2, nOps, nToggles, nFlushes, published, stored, fresh>>
-----------------------------------------------------------------------------
(* Set                                                                      *)

(* RLock, the write permission and the event before_set.                    *)
SetBegin(p, s, v) ==
  /\ pc[p] = "idle"
  /\ nOps < MaxOps
  /\ nOps' = nOps + 1
  /\ \E fails \in MayFail :
       IF fails \/ (meta.perm # {} /\ s \notin meta.perm)
         THEN UNCHANGED <<procVars, obsAt>>
         ELSE /\ Go(p, "store")
              /\ todo' = [todo EXCEPT ![p] = <<s>>]
              /\ obsAt' = [obsAt EXCEPT ![p] = obs]
              /\ data' = [data EXCEPT ![p] = IF "before_set" \in obs THEN Encode(<<v, 0>>) ELSE <<v, 0>>]
              /\ UNCHANGED <<found, err>>
  /\ fresh' = FALSE
  /\ UNCHANGED <<meta, obs, level1, level2, nToggles, nFlushes, published, nearest, asked, stored>>

SetStore(p) ==
  /\ pc[p] = "store"
  /\ \E fails \in MayFail :
       IF fails
         THEN Go(p, "after_set") /\ err' = [err EXCEPT ![p] = TRUE] /\ UNCHANGED <<level2, stored>>
         ELSE /\ level2' = [level2 EXCEPT ![Scope(p)] = data[p]]
              /\ stored' = [stored EXCEPT ![Scope(p)] = @ \cup {data[p]}]
              /\ Go(p, "send")
              /\ UNCHANGED err
  /\ UNCHANGED <<meta, obs, level1, todo, data, found, nOps, nToggles, nFlushes, published, obsAt, nearest, asked, fresh>>

(* pubSub.sendMsg, see ConfigPubSub.                                        *)
SetSend(p) ==
  /\ pc[p] = "send"
  /\ published' = published \cup {<<Scope(p), data[p]>>}
  /\ Go(p, "after_set")
  /\ UNCHANGED <<meta, obs, level1, level2, todo, data, found, err, nOps, nToggles, nFlushes,
                 obsAt, nearest, asked, stored, fresh>>

(* The deferred function: the event after_set, whose error would only be    *)
(* returned, RUnlock.                                                       *)
SetAfter(p) ==
  /\ pc[p] = "after_set"
  /\ Return(p)
  /\ UNCHANGED <<meta, obs, level1, level2, nOps, nToggles, nFlushes, published, stored, fresh>>
-----------------------------------------------------------------------------
FlushLevel2Only ==
  /\ HasLevel1
  /\ nToggles + nFlushes < MaxOthers
  /\ nFlushes' = nFlushes + 1
  /\ fresh' = (\A p \in Procs : pc[p] = "idle")
  /\ UNCHANGED <<meta, obs, level1, level2, procVars, nOps, nToggles, published, obsAt, nearest, asked, stored>>

(* Flush takes no lock; the storage of level 2 has nothing to flush.        *)
Flush ==
  /\ HasLevel1
  /\ nToggles + nFlushes < MaxOthers
  /\ nFlushes' = nFlushes + 1
  /\ level1' = NoValue
  /\ fresh' = (\A p \in Procs : pc[p] = "idle")
  /\ UNCHANGED <<meta, obs, level2, procVars, nOps, nToggles, published, obsAt, nearest, asked, stored>>

(* RegisterObserver and DeregisterObserver, under Service.mu.Lock.          *)
Locked == \A p \in Procs : ~Inside(p)

RegisterObserver(e) ==
  /\ Locked
  /\ nToggles + nFlushes < MaxOthers
  /\ e \notin obs
  /\ obs' = obs \cup {e}
  /\ nToggles' = nToggles + 1
  /\ UNCHANGED <<meta, level1, level2, procVars, nOps, nFlushes, histVars>>

DeregisterObserver(e) ==
  /\ Locked
  /\ nToggles + nFlushes < MaxOthers
  /\ obs' = obs \ {e}
  /\ nToggles' = nToggles + 1
  /\ UNCHANGED <<meta, level1, level2, procVars, nOps, nFlushes, histVars>>
-----------------------------------------------------------------------------
Step(p) ==
  \/ GetBegin(p) \/ GetLevel1(p) \/ GetLevel2(p) \/ GetFill(p) \/ GetAfter(p) \/ GetNext(p)
  \/ SetStore(p) \/ SetSend(p) \/ SetAfter(p)

Next ==
  \/ \E p \in Procs : Step(p)
  \/ \E p \in Procs, ss \in Scopes, r \in Scopes \cup {None} : ScopedGet(p, ss, r)
  \/ \E p \in Procs, s \in Scopes : DirectGet(p, s)
  \/ \E p \in Procs, s \in Scopes, v \in Values : SetBegin(p, s, v)
  \/ Flush
  \/ \E e \in Events : RegisterObserver(e) \/ DeregisterObserver(e)

Spec == Init /\ [][Next]_vars
-----------------------------------------------------------------------------
(* Every variable keeps its type (service.go:72-92).                        *)
TypeOK ==
  /\ meta \in {s.meta : s \in Setups}
  /\ obs \subseteq Events
  /\ level1 \in [Scopes -> Data \cup {None}] /\ level2 \in [Scopes -> Data \cup {None}]
  /\ pc \in [Procs -> {"idle", "get", "level1", "level2", "fill", "after_get", "answer",
                       "store", "send", "after_set"}]
  /\ todo \in [Procs -> Seq(Scopes)] /\ asked \in [Procs -> Seq(Scopes)]
  /\ data \in [Procs -> Data \cup {None}]
  /\ found \in [Procs -> {"no", "L1", "L2", "defaults"}]
  /\ err \in [Procs -> BOOLEAN]
  /\ nOps \in 0..MaxOps /\ nToggles \in 0..MaxOthers /\ nFlushes \in 0..MaxOthers
  /\ published \subseteq Scopes \X Data
  /\ obsAt \in [Procs -> SUBSET Events]
  /\ nearest \in [Procs -> SUBSET Scopes]
  /\ stored \in [Scopes -> SUBSET Data]
  /\ fresh \in BOOLEAN

(* A read has its answer.                                                   *)
Answered(p) == pc[p] = "answer" /\ ~err[p]

(* The scopes a read has asked before the current one.                      *)
PassedOver(p) == {asked[p][i] : i \in 1..(Len(asked[p]) - Len(todo[p]))}

(* A scope offers the reader a value: one was stored when the read began,   *)
(* or the route has a default value for the scope.                          *)
Offers(p, s) == s \in nearest[p] \/ DefaultOf(s) # None

(* A scoped read answers from the nearest of its scopes that offers a       *)
(* value, whatever is written and cached meanwhile: those it has passed     *)
(* over offer none, and neither does the last one when it ends              *)
(* empty-handed.  A default value is the answer only when nothing was       *)
(* stored for its scope.  It counts as found and ends the read, so a value  *)
(* that is stored farther up is hidden by a default of a nearer scope, as   *)
(* process fills it in (route_trie.go:208); the comment on Scoped           *)
(* (service.go:475) can be read otherwise.                                  *)
NearestOfferWins ==
  \A p \in Procs : Answered(p) =>
    /\ \A s \in PassedOver(p) : ~Offers(p, s)
    /\ found[p] = "no" => ~Offers(p, Scope(p))
    /\ found[p] = "defaults" => /\ Scope(p) \notin nearest[p]
                                /\ data[p] = <<DefaultOf(Scope(p)), 0>>

(* Whatever fails, level 1 only ever holds what level 2 has held for the    *)
(* same path, not a default value and not what observers made of it, and    *)
(* subscribers are only told of what has been stored.                       *)
StoredFirst ==
  /\ \A s \in Scopes : level1[s] \in stored[s] \cup {None}
  /\ \A m \in published : m[2] \in stored[m[1]]

(* With an observer that encodes before a write and one that decodes after  *)
(* a read, a reader always gets the value decoded once, from either level;  *)
(* and those that run before and after one operation are of the same        *)
(* registration state, since the read lock is held in between.              *)
DecodedOnce ==
  /\ TypeOK
  /\ obs = Events /\ nToggles = 0 =>
       \A p \in Procs : Answered(p) /\ found[p] # "no" => data[p][2] = 0
  /\ \A p \in Procs : Inside(p) => obs = obsAt[p]

(* After a Flush that met no operation in progress, and until the next Set  *)
(* begins, level 1 agrees with level 2, whatever reads fill in.             *)
FlushedAgrees == fresh => \A s \in Scopes : level1[s] \in {None, level2[s]}
=============================================================================
