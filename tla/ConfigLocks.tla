---------------------------- MODULE ConfigLocks -----------------------------
(***************************************************************************)
(* How config.Service and its publisher wait for each other: Service.mu,   *)
(* a sync.RWMutex, is read-locked during Set (which sends to the publisher *)
(* meanwhile) and Get, and locked by RegisterObserver, DeregisterObserver  *)
(* and the options that load field metas; a subscriber is called by the    *)
(* publisher and may call Get; hot reloading copies the Service, its mutex *)
(* included, to run a loader on level 1.                                   *)
(*                                                                         *)
(* Data is left out.  Every process goes round for ever, so that nothing   *)
(* is bounded.                                                             *)
(***************************************************************************)
CONSTANTS
  Setters, Registrars,
  SubscriberReads,  \* subscribers call Service.Get
  ReloadLevel1,     \* a loader with storage level 1 runs on a hot reload
  NoOne, Publisher

VARIABLES
  readers, rqueue,   \* who holds, and who waits for, the read lock
  writer, writing,   \* who has announced a write lock, and whether they hold it
  spc,               \* setters: "idle", "locking", "send", "after"
  ppc,               \* publisher: "select", "called", "reading"
  gpc,               \* registrars: "idle", "locking", "locked"
  lpc,               \* reloader: "idle", "set", "lock", "send"
  copy               \* the copied mutex: who held or had announced it then

lockVars == <<readers, rqueue, writer, writing>>
vars == <<lockVars, spc, ppc, gpc, lpc, copy>>

Free == [readers |-> {}, writer |-> NoOne]

Init ==
  /\ readers = {} /\ rqueue = {} /\ writer = NoOne /\ writing = FALSE
  /\ spc = [s \in Setters |-> "idle"]
  /\ ppc = "select"
  /\ gpc = [g \in Registrars |-> "idle"]
  /\ lpc = "idle"
  /\ copy = Free
-----------------------------------------------------------------------------
(* sync.RWMutex: an announced writer holds back new readers, and lets those *)
(* that queued behind it in when it unlocks.                                *)

RLock(p) ==
  /\ IF writer = NoOne THEN readers' = readers \cup {p} /\ UNCHANGED rqueue
                       ELSE rqueue' = rqueue \cup {p} /\ UNCHANGED readers
  /\ UNCHANGED <<writer, writing>>

RUnlock(p) == readers' = readers \ {p} /\ UNCHANGED <<rqueue, writer, writing>>

Announce(w) == writer = NoOne /\ writer' = w /\ UNCHANGED <<readers, rqueue, writing>>

Acquire(w) == writer = w /\ readers = {} /\ writing' = TRUE /\ UNCHANGED <<readers, rqueue, writer>>

UnlockWakesNobody ==
  /\ writer' = NoOne /\ writing' = FALSE
  /\ UNCHANGED <<readers, rqueue>>

Unlock ==
  /\ writer' = NoOne /\ writing' = FALSE
  /\ readers' = readers \cup rqueue /\ rqueue' = {}
-----------------------------------------------------------------------------
(* Set                                                                      *)

SetStart(s) ==
  /\ spc[s] = "idle"
  /\ RLock(s)
  /\ spc' = [spc EXCEPT ![s] = "locking"]
  /\ UNCHANGED <<ppc, gpc, lpc, copy>>

(* The lock is there: before_set runs and level 2 stores; an error of       *)
(* either ends the call.                                                    *)
SetStore(s) ==
  /\ spc[s] = "locking"
  /\ s \in readers
  /\ \E to \in {"send", "after"} : spc' = [spc EXCEPT ![s] = to]
  /\ UNCHANGED <<lockVars, ppc, gpc, lpc, copy>>

(* sendMsg meets the publisher's select.                                    *)
SetSend(s) ==
  /\ spc[s] = "send"
  /\ ppc = "select"
  /\ spc' = [spc EXCEPT ![s] = "after"]
  /\ ppc' = "called"
  /\ UNCHANGED <<lockVars, gpc, lpc, copy>>

SetReturn(s) ==
  /\ spc[s] = "after"
  /\ RUnlock(s)
  /\ spc' = [spc EXCEPT ![s] = "idle"]
  /\ UNCHANGED <<ppc, gpc, lpc, copy>>
-----------------------------------------------------------------------------
(* The publisher calls a subscriber.                                        *)

CallReads ==
  /\ SubscriberReads
  /\ ppc = "called"
  /\ RLock(Publisher)
  /\ ppc' = "reading"
  /\ UNCHANGED <<spc, gpc, lpc, copy>>

ReadReturns ==
  /\ ppc = "reading"
  /\ Publisher \in readers
  /\ RUnlock(Publisher)
  /\ ppc' = "select"
  /\ UNCHANGED <<spc, gpc, lpc, copy>>

CallReturns ==
  /\ ppc = "called"
  /\ ppc' = "select"
  /\ UNCHANGED <<lockVars, spc, gpc, lpc, copy>>
-----------------------------------------------------------------------------
(* RegisterObserver, DeregisterObserver, WithFieldMeta and the like.        *)

RegisterStart(g) ==
  /\ gpc[g] = "idle"
  /\ Announce(g)
  /\ gpc' = [gpc EXCEPT ![g] = "locking"]
  /\ UNCHANGED <<spc, ppc, lpc, copy>>

RegisterLocked(g) ==
  /\ gpc[g] = "locking"
  /\ Acquire(g)
  /\ gpc' = [gpc EXCEPT ![g] = "locked"]
  /\ UNCHANGED <<spc, ppc, lpc, copy>>

RegisterReturn(g) ==
  /\ gpc[g] = "locked"
  /\ Unlock
  /\ gpc' = [gpc EXCEPT ![g] = "idle"]
  /\ UNCHANGED <<spc, ppc, lpc, copy>>
-----------------------------------------------------------------------------
(* loadData on a signal: *s2 = *s, then the loader calls s2.Set or a        *)
(* function that locks s2.mu.                                               *)

ReloadCopy ==
  /\ ReloadLevel1
  /\ lpc = "idle"
  /\ copy' = [readers |-> readers, writer |-> writer]
  /\ lpc' \in {"set", "lock"}
  /\ UNCHANGED <<lockVars, spc, ppc, gpc>>

(* Nobody ever unlocks the copy: the holders unlock the original.           *)
ReloadSet ==
  /\ lpc = "set"
  /\ copy.writer = NoOne
  /\ lpc' = "send"
  /\ UNCHANGED <<lockVars, spc, ppc, gpc, copy>>

ReloadSend ==
  /\ lpc = "send"
  /\ ppc = "select"
  /\ lpc' = "idle"
  /\ copy' = Free
  /\ ppc' = "called"
  /\ UNCHANGED <<lockVars, spc, gpc>>

ReloadLock ==
  /\ lpc = "lock"
  /\ copy = Free
  /\ lpc' = "idle"
  /\ UNCHANGED <<lockVars, spc, ppc, gpc, copy>>
-----------------------------------------------------------------------------
PublisherStep == CallReads \/ ReadReturns \/ CallReturns
SetterStep(s) == SetStore(s) \/ SetReturn(s)
RegistrarStep(g) == RegisterLocked(g) \/ RegisterReturn(g)
ReloadStep == ReloadSet \/ ReloadLock

Next ==
  \/ \E s \in Setters : SetStart(s) \/ SetSend(s) \/ SetterStep(s)
  \/ \E g \in Registrars : RegisterStart(g) \/ RegistrarStep(g)
  \/ PublisherStep
  \/ ReloadCopy \/ ReloadSend \/ ReloadStep

Spec == Init /\ [][Next]_vars

(* Processes that can go on do; the channel serves blocked senders in turn. *)
(* Nobody has to start an operation.                                        *)
Fairness ==
  /\ WF_vars(PublisherStep)
  /\ \A s \in Setters : WF_vars(SetterStep(s)) /\ SF_vars(SetSend(s))
  /\ \A g \in Registrars : WF_vars(RegistrarStep(g))
  /\ WF_vars(ReloadStep) /\ SF_vars(ReloadSend)

FairSpec == Spec /\ Fairness
-----------------------------------------------------------------------------
(* Every variable keeps its type (service.go:72-92).                        *)
TypeOK ==
  /\ readers \subseteq Setters \cup {Publisher} /\ rqueue \subseteq Setters \cup {Publisher}
  /\ writer \in Registrars \cup {NoOne} /\ writing \in BOOLEAN
  /\ spc \in [Setters -> {"idle", "locking", "send", "after"}]
  /\ ppc \in {"select", "called", "reading"}
  /\ gpc \in [Registrars -> {"idle", "locking", "locked"}]
  /\ lpc \in {"idle", "set", "lock", "send"}
  /\ copy.readers \subseteq Setters \cup {Publisher} /\ copy.writer \in Registrars \cup {NoOne}

(* The types are kept; while observers or metas change, nobody is between   *)
(* the events of a Set or a Get, and a goroutine that sends still has its   *)
(* read lock.                                                               *)
Consistent ==
  /\ TypeOK
  /\ writing => readers = {}
  /\ \A s \in Setters : spc[s] \in {"send", "after"} => s \in readers /\ ~writing

(* The one way in which they wait for each other: a goroutine inside Set    *)
(* sends to the publisher, whose subscriber waits in Get behind a goroutine *)
(* that has asked for the write lock, which waits for the one inside Set.   *)
WaitCycle ==
  /\ writer # NoOne /\ ~writing
  /\ Publisher \in rqueue
  /\ \E s \in readers \cap Setters : spc[s] = "send"

(* A Set that has started returns, RegisterObserver gets its lock and       *)
(* returns, the publisher comes back to its select (and with it Close is    *)
(* possible), and a hot reload ends whose copy of the mutex is free for     *)
(* what it does; the only thing that can keep one of them is that cycle.    *)
EveryoneReturns ==
  /\ \A s \in Setters : spc[s] = "locking" ~> (spc[s] = "idle" \/ WaitCycle)
  /\ \A g \in Registrars : gpc[g] = "locking" ~> (gpc[g] = "idle" \/ WaitCycle)
  /\ ppc # "select" ~> (ppc = "select" \/ WaitCycle)
  /\ ((lpc = "set" /\ copy.writer = NoOne) \/ (lpc = "lock" /\ copy = Free))
       ~> (lpc = "idle" \/ WaitCycle)

(* "Set puts a value back into the Service. Safe for concurrent use.": a    *)
(* Set that has started returns, whatever subscribers and others do.        *)
SetAlwaysReturns == \A s \in Setters : spc[s] = "locking" ~> spc[s] = "idle"
=============================================================================
