------------------------------- MODULE Suspend -------------------------------
(***************************************************************************)
(* suspend.State, sync/suspend/state.go: of the goroutines that need a job *)
(* done, the first one does it and the others are suspended until it calls *)
(* Done.  A goroutine runs the switch of the package documentation:        *)
(*                                                                         *)
(*   case ShouldStart(key): work; Done(key)                                *)
(*   case ShouldWait(key):  suspended until the work is done               *)
(*                                                                         *)
(* and proceeds.  A run is one entry of State.states, that is one mutex,   *)
(* condition variable and status, from ShouldStart to Done.                *)
(***************************************************************************)
EXTENDS Integers

CONSTANTS
  Goroutines,
  Keys,
  Nobody,    \* no goroutine
  MaxRuns,   \* bound: entries ever created
  MaxResets  \* bound: invocations of Reset

SuspendConstants == MaxRuns \in Nat /\ MaxResets \in Nat /\ Nobody \notin Goroutines

VARIABLES
  mu,        \* holder of State.mu, or Nobody
  states,    \* State.states: key -> run, or NoRun
  nRuns,     \* runs created so far
  status,    \* status of a run
  holder,    \* holder of a run's own mutex, or Nobody
  pc,        \* where a goroutine is
  key,       \* the key it passes
  run,       \* the run ShouldWait has looked up
  blockedBy, \* history: the run for which ShouldStart returned false
  failed,    \* history: goroutines whose Done returned an error
  nResets

vars == <<mu, states, nRuns, status, holder, pc, key, run, blockedBy, failed, nResets>>

Runs == 1..MaxRuns
NoRun == 0

Statuses == {"free", "running", "done"}
Pcs == {"idle", "working", "storing", "waitcall", "loaded", "locking", "checking", "waiting",
        "asleep", "proceed"}

Init ==
  /\ mu = Nobody
  /\ states = [k \in Keys |-> NoRun]
  /\ nRuns = 0
  /\ status = [r \in Runs |-> "free"]
  /\ holder = [r \in Runs |-> Nobody]
  /\ pc = [g \in Goroutines |-> "idle"]
  /\ key \in [Goroutines -> Keys]
  /\ run = [g \in Goroutines |-> NoRun]
  /\ blockedBy = [g \in Goroutines |-> NoRun]
  /\ failed = {}
  /\ nResets = 0

(* ShouldStart creates the entry and returns true ...                       *)
ShouldStart(g) ==
  /\ pc[g] = "idle" /\ mu = Nobody
  /\ states[key[g]] = NoRun
  /\ nRuns < MaxRuns
  /\ nRuns' = nRuns + 1
  /\ status' = [status EXCEPT ![nRuns + 1] = "running"]
  /\ states' = [states EXCEPT ![key[g]] = nRuns + 1]
  /\ pc' = [pc EXCEPT ![g] = "working"]
  /\ UNCHANGED <<mu, holder, key, run, blockedBy, failed, nResets>>

(* ... or finds one, returns false, and the switch goes on to ShouldWait.   *)
ShouldNotStart(g) ==
  /\ pc[g] = "idle" /\ mu = Nobody
  /\ states[key[g]] # NoRun
  /\ blockedBy' = [blockedBy EXCEPT ![g] = states[key[g]]]
  /\ pc' = [pc EXCEPT ![g] = "waitcall"]
  /\ UNCHANGED <<mu, states, nRuns, status, holder, key, run, failed, nResets>>

(* ShouldWait: the lookup under mu.RLock.  No entry: return false.          *)
WaitLookup(g) ==
  /\ pc[g] = "waitcall" /\ mu = Nobody
  /\ run' = [run EXCEPT ![g] = states[key[g]]]
  /\ pc' = [pc EXCEPT ![g] = IF states[key[g]] = NoRun THEN "proceed" ELSE "loaded"]
  /\ UNCHANGED <<mu, states, nRuns, status, holder, key, blockedBy, failed, nResets>>

(* Mutant: the comparison of the first load is inverted.                    *)
WaitLoadInverted(g) ==
  /\ pc[g] = "loaded"
  /\ pc' = [pc EXCEPT ![g] = IF status[run[g]] # "running" THEN "locking" ELSE "proceed"]
  /\ UNCHANGED <<mu, states, nRuns, status, holder, key, run, blockedBy, failed, nResets>>

(* ShouldWait: the first load of the status, without any lock.              *)
WaitLoad(g) ==
  /\ pc[g] = "loaded"
  /\ pc' = [pc EXCEPT ![g] = IF status[run[g]] = "running" THEN "locking" ELSE "proceed"]
  /\ UNCHANGED <<mu, states, nRuns, status, holder, key, run, blockedBy, failed, nResets>>

(* st.Lock(), on entry and again when Cond.Wait wakes up.                   *)
WaitLock(g) ==
  /\ pc[g] = "locking"
  /\ holder[run[g]] = Nobody
  /\ holder' = [holder EXCEPT ![run[g]] = g]
  /\ pc' = [pc EXCEPT ![g] = "checking"]
  /\ UNCHANGED <<mu, states, nRuns, status, key, run, blockedBy, failed, nResets>>

(* The loop condition: done unlocks and returns true, else st.Wait().       *)
WaitCheck(g) ==
  /\ pc[g] = "checking"
  /\ IF status[run[g]] = "done"
       THEN /\ holder' = [holder EXCEPT ![run[g]] = Nobody]
            /\ pc' = [pc EXCEPT ![g] = "proceed"]
       ELSE /\ pc' = [pc EXCEPT ![g] = "waiting"]
            /\ UNCHANGED holder
  /\ UNCHANGED <<mu, states, nRuns, status, key, run, blockedBy, failed, nResets>>

(* Cond.Wait joins the list of waiters and releases the mutex.              *)
CondWait(g) ==
  /\ pc[g] = "waiting"
  /\ holder' = [holder EXCEPT ![run[g]] = Nobody]
  /\ pc' = [pc EXCEPT ![g] = "asleep"]
  /\ UNCHANGED <<mu, states, nRuns, status, key, run, blockedBy, failed, nResets>>

(* Done, under mu but not under the mutex of the entry: the entry is looked *)
(* up and its status stored.                                                *)
DoneStore(g) ==
  /\ pc[g] = "working" /\ mu = Nobody
  /\ states[key[g]] # NoRun
  /\ status' = [status EXCEPT ![states[key[g]]] = "done"]
  /\ mu' = g
  /\ pc' = [pc EXCEPT ![g] = "storing"]
  /\ UNCHANGED <<states, nRuns, holder, key, run, blockedBy, failed, nResets>>

(* Mutant: Signal instead of Broadcast.                                     *)
DoneSignal(g) ==
  LET sleepers == {h \in Goroutines : pc[h] = "asleep" /\ run[h] = states[key[g]]} IN
  /\ pc[g] = "storing"
  /\ \/ sleepers = {} /\ pc' = [pc EXCEPT ![g] = "proceed"]
     \/ \E h \in sleepers : pc' = [pc EXCEPT ![g] = "proceed", ![h] = "locking"]
  /\ states' = [states EXCEPT ![key[g]] = NoRun]
  /\ mu' = Nobody
  /\ UNCHANGED <<nRuns, status, holder, key, run, blockedBy, failed, nResets>>

(* Done: Broadcast wakes whoever is in the list, and the entry is deleted.  *)
DoneBroadcast(g) ==
  LET r == states[key[g]] IN
  /\ pc[g] = "storing"
  /\ pc' = [h \in Goroutines |-> IF h = g THEN "proceed"
                                 ELSE IF pc[h] = "asleep" /\ run[h] = r THEN "locking"
                                 ELSE pc[h]]
  /\ states' = [states EXCEPT ![key[g]] = NoRun]
  /\ mu' = Nobody
  /\ UNCHANGED <<nRuns, status, holder, key, run, blockedBy, failed, nResets>>

(* Done without an entry returns a Fatal error.                             *)
DoneFails(g) ==
  /\ pc[g] = "working" /\ mu = Nobody
  /\ states[key[g]] = NoRun
  /\ failed' = failed \cup {g}
  /\ pc' = [pc EXCEPT ![g] = "proceed"]
  /\ UNCHANGED <<mu, states, nRuns, status, holder, key, run, blockedBy, nResets>>

(* The goroutine comes back, possibly for another key.                      *)
Again(g, k) ==
  /\ pc[g] = "proceed"
  /\ nRuns < MaxRuns
  /\ pc' = [pc EXCEPT ![g] = "idle"]
  /\ key' = [key EXCEPT ![g] = k]
  /\ run' = [run EXCEPT ![g] = NoRun]
  /\ blockedBy' = [blockedBy EXCEPT ![g] = NoRun]
  /\ UNCHANGED <<mu, states, nRuns, status, holder, failed, nResets>>

(* Reset replaces the map, whatever is running.                             *)
Reset ==
  /\ mu = Nobody
  /\ nResets < MaxResets
  /\ nResets' = nResets + 1
  /\ states' = [k \in Keys |-> NoRun]
  /\ UNCHANGED <<mu, nRuns, status, holder, pc, key, run, blockedBy, failed>>

Step(g) ==
  \/ ShouldStart(g) \/ ShouldNotStart(g)
  \/ WaitLookup(g) \/ WaitLoad(g) \/ WaitLock(g) \/ WaitCheck(g) \/ CondWait(g)
  \/ DoneStore(g) \/ DoneBroadcast(g) \/ DoneFails(g)

Next ==
  \/ \E g \in Goroutines : Step(g)
  \/ \E g \in Goroutines, k \in Keys : Again(g, k)
  \/ Reset

Spec == Init /\ [][Next]_vars

(* A goroutine inside the package, or at work, is scheduled; a mutex it     *)
(* asks for again and again is granted (Go's mutexes do not starve).        *)
FairSpec == Spec /\ \A g \in Goroutines : SF_vars(Step(g))
-----------------------------------------------------------------------------
(* Every variable keeps its type (state.go:55-70).                          *)
TypeOK ==
  /\ mu \in Goroutines \cup {Nobody}
  /\ states \in [Keys -> Runs \cup {NoRun}]
  /\ nRuns \in 0..MaxRuns
  /\ status \in [Runs -> Statuses]
  /\ holder \in [Runs -> Goroutines \cup {Nobody}]
  /\ pc \in [Goroutines -> Pcs]
  /\ key \in [Goroutines -> Keys]
  /\ run \in [Goroutines -> Runs \cup {NoRun}]
  /\ blockedBy \in [Goroutines -> Runs \cup {NoRun}]
  /\ failed \subseteq Goroutines
  /\ nResets \in Nat

(* "It picks from n-Goroutines the first one to do a job": no two           *)
(* goroutines work on a key at once, and the Done of the one that works     *)
(* finds its entry, unless Reset was called.                                *)
OneWorker ==
  nResets = 0 =>
    /\ failed = {}
    /\ \A g, h \in Goroutines :
         pc[g] = "working" /\ pc[h] = "working" /\ key[g] = key[h] => g = h

(* "make other requests wait until the configuration has been fully         *)
(* loaded": a goroutine that was not let start proceeds only after the run  *)
(* that stopped it is done, on whichever return of ShouldWait it leaves.    *)
ProceedsAfterDone ==
  nResets = 0 =>
    \A g \in Goroutines :
      pc[g] = "proceed" /\ blockedBy[g] # NoRun => status[blockedBy[g]] = "done"

(* The types are kept, and the mutex of a run is held by at most the one    *)
(* goroutine between st.Lock and the Unlock or Wait of ShouldWait           *)
(* (state.go:158-168).                                                      *)
Consistent ==
  /\ TypeOK
  /\ \A g \in Goroutines, r \in Runs :
       holder[r] = g <=> run[g] = r /\ pc[g] \in {"checking", "waiting"}

(* ShouldStart, ShouldWait and Done together: one goroutine works on a key, *)
(* the others proceed only when it is done.                                 *)
OneWorkerFirst == Consistent /\ OneWorker /\ ProceedsAfterDone

(* A goroutine that sleeps while the run still works is released by Done,   *)
(* unless Reset drops the entry, which Done then does not find.             *)
SleeperReleased ==
  \A g \in Goroutines :
    (pc[g] = "asleep" /\ status[run[g]] = "running") ~> (pc[g] = "proceed" \/ nResets > 0)

(* "Done releases all the waiting Goroutines": whoever is inside ShouldWait *)
(* gets out of it.                                                          *)
EveryWaiterReleased ==
  \A g \in Goroutines : pc[g] = "locking" ~> pc[g] = "proceed"
=============================================================================
