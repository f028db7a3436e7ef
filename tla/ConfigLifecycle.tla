-------------------------- MODULE ConfigLifecycle ---------------------------
(***************************************************************************)
(* The life of a config.Service, config/service.go: NewService starts the  *)
(* publisher, runs the load functions in their order and starts the        *)
(* goroutine that reloads on a signal; Close ends both.                    *)
(*                                                                         *)
(* A load function is its position; what it loads is left out.  The        *)
(* publisher is "running" or "ended", its protocol is in ConfigPubSub.     *)
(***************************************************************************)
EXTENDS Integers

CONSTANTS
  NLoaders,    \* number of LoadDataOptions
  Closers,     \* goroutines that call Close on the service
  MaxSignals   \* bound: signals sent to the process

VARIABLES
  options,    \* of NewService: "HotReload" and "PubSub" may be enabled
  npc,        \* NewService
  loading,    \* position of the loader that NewService runs
  publisher,  \* "none", "running", "ended"
  sigChan,    \* hotReloadSignal: "nil", "open", "closed"
  queued,     \* a signal is in the channel, which holds one
  notify,     \* signal.Notify is in force
  rpc,        \* the reload goroutine
  reloading,  \* position of the loader that it runs
  cpc,        \* closers
  nSignals,
  owed        \* history: a signal was accepted and no reload has started since

vars == <<options, npc, loading, publisher, sigChan, queued, notify, rpc, reloading, cpc, nSignals, owed>>

HotReload == "HotReload" \in options
PubSub == "PubSub" \in options

Init ==
  /\ options \in SUBSET {"HotReload", "PubSub"}
  /\ npc = "new" /\ loading = 1
  /\ publisher = "none"
  /\ sigChan = "nil" /\ queued = FALSE /\ notify = FALSE
  /\ rpc = "none" /\ reloading = 1
  /\ cpc = [c \in Closers |-> "idle"]
  /\ nSignals = 0 /\ owed = FALSE

Up == npc = "up"
-----------------------------------------------------------------------------
(* NewService                                                               *)

(* setupEnv; then the publisher goroutine.                                  *)
NewSetup ==
  /\ npc = "new"
  /\ \/ npc' = "failed" /\ UNCHANGED publisher
     \/ npc' = "load" /\ publisher' = IF PubSub THEN "running" ELSE "none"
  /\ UNCHANGED <<options, loading, sigChan, queued, notify, rpc, reloading, cpc, nSignals, owed>>

(* loadData, one load function at a time; the first error ends it.          *)
NewLoad ==
  /\ npc = "load"
  /\ IF loading > NLoaders THEN npc' = "reload" /\ UNCHANGED loading
     ELSE \/ loading' = loading + 1 /\ UNCHANGED npc
          \/ npc' = "cleanup" /\ UNCHANGED loading
  /\ UNCHANGED <<options, publisher, sigChan, queued, notify, rpc, reloading, cpc, nSignals, owed>>

(* The Close of a service that could not load.  close of a nil channel      *)
(* panics: hotReloadSignal has not been made yet.                           *)
NewCleanup ==
  /\ npc = "cleanup"
  /\ IF HotReload THEN npc' = "panicked" /\ UNCHANGED publisher
     ELSE npc' = "failed" /\ publisher' = IF PubSub THEN "ended" ELSE publisher
  /\ UNCHANGED <<options, loading, sigChan, queued, notify, rpc, reloading, cpc, nSignals, owed>>

(* shouldEnableHotReload                                                    *)
NewEnableHotReload ==
  /\ npc = "reload"
  /\ npc' = "up"
  /\ IF HotReload THEN sigChan' = "open" /\ notify' = TRUE /\ rpc' = "wait"
     ELSE UNCHANGED <<sigChan, notify, rpc>>
  /\ UNCHANGED <<options, loading, publisher, queued, reloading, cpc, nSignals, owed>>
-----------------------------------------------------------------------------
(* The process gets a signal; os/signal drops it when the channel is full.  *)
Signal ==
  /\ notify
  /\ nSignals < MaxSignals
  /\ nSignals' = nSignals + 1
  /\ queued' = TRUE
  /\ owed' = TRUE
  /\ UNCHANGED <<options, npc, loading, publisher, sigChan, notify, rpc, reloading, cpc>>

(* for sgnl := range s.hotReloadSignal: what is queued is still received    *)
(* after the channel has been closed.                                       *)
ReloadReceive ==
  /\ rpc = "wait"
  /\ queued
  /\ queued' = FALSE
  /\ owed' = FALSE
  /\ rpc' = "load" /\ reloading' = 1
  /\ UNCHANGED <<options, npc, loading, publisher, sigChan, notify, cpc, nSignals>>

ReloadEnd ==
  /\ rpc = "wait"
  /\ ~queued /\ sigChan = "closed"
  /\ rpc' = "ended"
  /\ UNCHANGED <<options, npc, loading, publisher, sigChan, queued, notify, reloading, cpc, nSignals, owed>>

ReloadLoadEndsOnError ==
  /\ rpc = "load"
  /\ \/ reloading <= NLoaders /\ reloading' = reloading + 1 /\ UNCHANGED rpc
     \/ reloading <= NLoaders /\ rpc' = "ended" /\ UNCHANGED reloading
     \/ reloading > NLoaders /\ rpc' = "wait" /\ UNCHANGED reloading
  /\ UNCHANGED <<options, npc, loading, publisher, sigChan, queued, notify, cpc, nSignals, owed>>

(* loadData once more; an error is only logged.                             *)
ReloadLoad ==
  /\ rpc = "load"
  /\ \/ reloading <= NLoaders /\ reloading' = reloading + 1 /\ UNCHANGED rpc
     \/ reloading <= NLoaders /\ rpc' = "wait" /\ UNCHANGED reloading
     \/ reloading > NLoaders /\ rpc' = "wait" /\ UNCHANGED reloading
  /\ UNCHANGED <<options, npc, loading, publisher, sigChan, queued, notify, cpc, nSignals, owed>>
-----------------------------------------------------------------------------
(* Close                                                                    *)

CloseStop(c) ==
  /\ Up
  /\ cpc[c] = "idle"
  /\ cpc' = [cpc EXCEPT ![c] = IF HotReload THEN "close" ELSE "pubsub"]
  /\ notify' = (notify /\ ~HotReload)
  /\ UNCHANGED <<options, npc, loading, publisher, sigChan, queued, rpc, reloading, nSignals, owed>>

(* close of a channel that another Close has closed panics.                 *)
CloseChan(c) ==
  /\ cpc[c] = "close"
  /\ sigChan' = "closed"
  /\ cpc' = [cpc EXCEPT ![c] = IF sigChan = "closed" THEN "panicked" ELSE "pubsub"]
  /\ UNCHANGED <<options, npc, loading, publisher, queued, notify, rpc, reloading, nSignals, owed>>

ClosePubSub(c) ==
  /\ cpc[c] = "pubsub"
  /\ cpc' = [cpc EXCEPT ![c] = IF PubSub /\ publisher = "ended" THEN "alreadyClosed" ELSE "closed"]
  /\ publisher' = IF PubSub THEN "ended" ELSE publisher
  /\ UNCHANGED <<options, npc, loading, sigChan, queued, notify, rpc, reloading, nSignals, owed>>
-----------------------------------------------------------------------------
New == NewSetup \/ NewLoad \/ NewCleanup \/ NewEnableHotReload
Reload == ReloadReceive \/ ReloadEnd \/ ReloadLoad

Next ==
  \/ New
  \/ Signal
  \/ Reload
  \/ \E c \in Closers : CloseStop(c) \/ CloseChan(c) \/ ClosePubSub(c)

Spec == Init /\ [][Next]_vars

(* Load functions return, and the scheduler runs the reload goroutine.      *)
FairSpec == Spec /\ WF_vars(New) /\ WF_vars(Reload)
-----------------------------------------------------------------------------
(* Every variable keeps its type (service.go:95-146).                       *)
TypeOK ==
  /\ options \subseteq {"HotReload", "PubSub"}
  /\ npc \in {"new", "load", "cleanup", "reload", "up", "failed", "panicked"}
  /\ loading \in 1..(NLoaders + 1) /\ reloading \in 1..(NLoaders + 1)
  /\ publisher \in {"none", "running", "ended"}
  /\ sigChan \in {"nil", "open", "closed"}
  /\ queued \in BOOLEAN /\ notify \in BOOLEAN /\ owed \in BOOLEAN
  /\ rpc \in {"none", "wait", "load", "ended"}
  /\ cpc \in [Closers -> {"idle", "close", "pubsub", "closed", "alreadyClosed", "panicked"}]
  /\ nSignals \in 0..MaxSignals

(* Who is past the closing of the signal channel in Close.                  *)
PastChan(c) == cpc[c] \in {"pubsub", "closed", "alreadyClosed"}

(* What every way out of NewService and Close leaves behind.  An error of   *)
(* NewService: no goroutine and no signal handler.  Its panic, when a load  *)
(* fails with hot reloading enabled: the publisher, if there is one, goes   *)
(* on running, since Close panics at the channel that is not made yet and   *)
(* does not reach it (service.go:124-128, 236-238).  A Close that returns:  *)
(* no publisher and no signal handler.  A Close panics only where another   *)
(* one has closed the channel, and that one goes on to end the publisher.   *)
LeftBehind ==
  /\ npc \in {"failed", "panicked"} => rpc = "none" /\ ~notify
  /\ npc = "failed" => publisher # "running"
  /\ npc = "panicked" => HotReload /\ (publisher = "running" <=> PubSub)
  /\ \A c \in Closers :
       /\ cpc[c] \in {"closed", "alreadyClosed"} => publisher # "running" /\ ~notify
       /\ cpc[c] = "panicked" => \E d \in Closers \ {c} : PastChan(d)

(* No signal is delivered to a closed channel, which would panic in the     *)
(* signal package, although two goroutines may close at once: each stops    *)
(* the signals before it closes (service.go:237-238).                       *)
NoSignalAfterClose == notify => sigChan = "open"

(* Once the service has been closed, the reload goroutine ends.             *)
ReloaderEnds == HotReload => (sigChan = "closed" ~> rpc = "ended")

(* Every signal the service gets is followed by a reload that starts after  *)
(* it, also when it was dropped because one was queued already.             *)
SignalReloads == owed ~> ~owed
=============================================================================
