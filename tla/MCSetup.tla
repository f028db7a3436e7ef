------------------------------ MODULE MCSetup -------------------------------
(* What surrounds the values of a config.Service: RouteTrie, the trie of    *)
(* metas and observers, ConfigLocks, ConfigLifecycle and FieldMetaLoad.     *)
(* part says which of the four a behaviour is about; the others keep their  *)
(* initial state.                                                           *)
EXTENDS RouteTrie, TLC

CONSTANTS
  m1,
  Setters, Registrars, NoOne, Publisher, SubscriberReads, ReloadLevel1,
  NLoaders, Closers, MaxSignals,
  N, Caps, MaxLoads

VARIABLES
  part,
  readers, rqueue, writer, writing, spc, ppc, rgpc, rlpc, copy,
  options, npc, loading, publisher, sigChan, queued, notify, rpc, reloading, cpc, nSignals, owed,
  cap, bad, genpc, next, failed, fmC, fmClosed, errClosed, loadpc, result, once, nLoads, put

Locks == INSTANCE ConfigLocks WITH gpc <- rgpc, lpc <- rlpc
Life == INSTANCE ConfigLifecycle
Load == INSTANCE FieldMetaLoad WITH gpc <- genpc, lpc <- loadpc

LocksVars == <<readers, rqueue, writer, writing, spc, ppc, rgpc, rlpc, copy>>
LifeVars == <<options, npc, loading, publisher, sigChan, queued, notify, rpc, reloading, cpc, nSignals, owed>>
LoadVars == <<cap, bad, genpc, next, failed, fmC, fmClosed, errClosed, loadpc, result, once, nLoads, put>>
MCVars == <<part, vars, LocksVars, LifeVars, LoadVars>>

(* A chain with a fork, and a key that is a prefix of others.               *)
MCKeys == {<<"a">>, <<"a", "b", "c">>, <<"a", "b", "d">>}
TwoFields == {<< <<<<"a", "b", "c">>, m1>>, <<<<"a", "b", "d">>, m1>> >>}
-----------------------------------------------------------------------------
MCInit ==
  /\ part \in {"trie", "locks", "life", "load"}
  /\ Init /\ Locks!Init /\ Life!Init /\ Load!Init
  /\ part # "life" => options = {}
  /\ part # "load" => cap = 0 /\ bad = {}

MCNext ==
  \/ part = "trie" /\ Next /\ UNCHANGED <<part, LocksVars, LifeVars, LoadVars>>
  \/ part = "locks" /\ Locks!Next /\ UNCHANGED <<part, vars, LifeVars, LoadVars>>
  \/ part = "life" /\ Life!Next /\ UNCHANGED <<part, vars, LocksVars, LoadVars>>
  \/ part = "load" /\ Load!Next /\ UNCHANGED <<part, vars, LocksVars, LifeVars>>

(* The fairness of the modules, for the part that runs.                     *)
MCSpec ==
  /\ MCInit /\ [][MCNext]_MCVars
  /\ WF_LocksVars(part = "locks" /\ Locks!PublisherStep)
  /\ \A s \in Setters : /\ WF_LocksVars(part = "locks" /\ Locks!SetterStep(s))
                        /\ SF_LocksVars(part = "locks" /\ Locks!SetSend(s))
  /\ \A g \in Registrars : WF_LocksVars(part = "locks" /\ Locks!RegistrarStep(g))
  /\ WF_LocksVars(part = "locks" /\ Locks!ReloadStep) /\ SF_LocksVars(part = "locks" /\ Locks!ReloadSend)
  /\ WF_LifeVars(part = "life" /\ Life!New) /\ WF_LifeVars(part = "life" /\ Life!Reload)
  /\ WF_LoadVars(part = "load" /\ Load!LoaderStep)
  /\ WF_LoadVars(part = "load" /\ Load!GeneratorStep)
-----------------------------------------------------------------------------
(* ConfigLocks: Set, RegisterObserver, the publisher and a hot reload come  *)
(* to their end; only the one cycle of waiting can keep them from it.       *)
EveryoneReturns == []Locks!Consistent /\ Locks!EveryoneReturns

(* ConfigLifecycle: an error of NewService and a Close that returns leave   *)
(* no goroutine and no signal handler behind, and only the panic of a       *)
(* failed load with hot reloading leaves the publisher running; no signal   *)
(* meets a closed channel, every signal leads to a reload, and Close to the *)
(* end of the goroutine that reloads (NewService, Close).                   *)
ReloadsUntilClosed ==
  /\ [](Life!TypeOK /\ Life!LeftBehind /\ Life!NoSignalAfterClose)
  /\ Life!ReloaderEnds /\ Life!SignalReloads

(* FieldMetaLoad: the load and its generator end, and what the load returns *)
(* is true of the trie (WithFieldMetaGenerator).                            *)
LoadEndsTruly == [](Load!TypeOK /\ Load!ResultIsTrue) /\ Load!BothEnd
=============================================================================
