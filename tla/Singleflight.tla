---------------------------- MODULE Singleflight ----------------------------
(***************************************************************************)
(* Duplicate call suppression, sync/singleflight/singleflight.go.          *)
(*                                                                         *)
(* Group.m maps a key to the call in flight.  Every section under Group.mu *)
(* is one step; the function fn runs outside the lock, between the step    *)
(* that registers the call and the step of doCall that removes it.  A call *)
(* is a number, and stands for the value and error its fn returns.         *)
(***************************************************************************)
EXTENDS Integers

CONSTANTS
  Callers,    \* goroutines that use the Group
  Keys,       \* keys of Do, DoChan and Forget
  MaxCalls,   \* bound: calls ever allocated
  MaxOps,     \* bound: Do and DoChan invocations of one caller
  MaxForgets, \* bound: Forget invocations
  MaxPanics   \* bound: functions that panic

ASSUME SingleflightAssumption ==
  /\ Keys # {}
  /\ MaxCalls \in Nat
  /\ MaxOps \in Nat
  /\ MaxForgets \in Nat
  /\ MaxPanics \in Nat

VARIABLES
  m,         \* Group.m: key -> call, or NoCall
  nCalls,    \* calls allocated so far
  phase,     \* how far the doCall of a call has got
  key,       \* the key a call was made for
  dups,      \* call.dups
  chans,     \* call.chans: the callers whose channel is registered
  pc,        \* what a caller is doing
  on,        \* the call a caller runs, waits for or has got its result from
  shared,    \* the last "shared" a caller was given
  forgotten, \* history: calls that existed when Forget was called for their key
  nOps, nForgets, nPanics  \* what the bounds count

callVars == <<nCalls, phase, key, dups, chans>>
vars == <<m, callVars, pc, on, shared, forgotten, nOps, nForgets, nPanics>>

CallIds == 1..MaxCalls
NoCall == 0

(* The call is not allocated; fn is running; fn has returned and wg.Done() *)
(* was called; doCall has returned; fn has panicked.                        *)
Phases == {"free", "fn", "ran", "over", "panicked"}
Pcs == {"idle", "own", "wait", "recv", "done"}

Created == 1..nCalls

Init ==
  /\ m = [k \in Keys |-> NoCall]
  /\ nCalls = 0
  /\ phase = [c \in CallIds |-> "free"]
  /\ key = [c \in CallIds |-> CHOOSE k \in Keys : TRUE]
  /\ dups = [c \in CallIds |-> 0]
  /\ chans = [c \in CallIds |-> {}]
  /\ pc = [g \in Callers |-> "idle"]
  /\ on = [g \in Callers |-> NoCall]
  /\ shared = [g \in Callers |-> FALSE]
  /\ forgotten = {}
  /\ nOps = [g \in Callers |-> 0]
  /\ nForgets = 0
  /\ nPanics = 0

Enter(g) ==
  /\ pc[g] \in {"idle", "done"}
  /\ nOps[g] < MaxOps
  /\ nOps' = [nOps EXCEPT ![g] = @ + 1]
  /\ UNCHANGED <<shared, forgotten, nForgets, nPanics>>

(* Mutant: the channel of a duplicate is not appended to call.chans.        *)
JoinWithoutChan(g, k, next, cs) ==
  /\ m[k] # NoCall
  /\ dups' = [dups EXCEPT ![m[k]] = @ + 1]
  /\ on' = [on EXCEPT ![g] = m[k]]
  /\ pc' = [pc EXCEPT ![g] = next]
  /\ UNCHANGED <<m, nCalls, phase, key, chans>>

(* A key that is in the map: count the duplicate and wait for the call.    *)
Join(g, k, next, cs) ==
  /\ m[k] # NoCall
  /\ dups' = [dups EXCEPT ![m[k]] = @ + 1]
  /\ chans' = [chans EXCEPT ![m[k]] = @ \cup cs]
  /\ on' = [on EXCEPT ![g] = m[k]]
  /\ pc' = [pc EXCEPT ![g] = next]
  /\ UNCHANGED <<m, nCalls, phase, key>>

(* Mutant: the new call is not stored in the map.                           *)
RegisterNotStored(g, k, next, cs) ==
  /\ m[k] = NoCall
  /\ nCalls < MaxCalls
  /\ nCalls' = nCalls + 1
  /\ phase' = [phase EXCEPT ![nCalls + 1] = "fn"]
  /\ key' = [key EXCEPT ![nCalls + 1] = k]
  /\ chans' = [chans EXCEPT ![nCalls + 1] = cs]
  /\ UNCHANGED dups
  /\ on' = [on EXCEPT ![g] = nCalls + 1]
  /\ pc' = [pc EXCEPT ![g] = next]
  /\ UNCHANGED m

(* A key that is not in the map: allocate a call and register it.          *)
Register(g, k, next, cs) ==
  /\ m[k] = NoCall
  /\ nCalls < MaxCalls
  /\ nCalls' = nCalls + 1
  /\ phase' = [phase EXCEPT ![nCalls + 1] = "fn"]
  /\ key' = [key EXCEPT ![nCalls + 1] = k]
  /\ chans' = [chans EXCEPT ![nCalls + 1] = cs]
  /\ UNCHANGED dups
  /\ m' = [m EXCEPT ![k] = nCalls + 1]
  /\ on' = [on EXCEPT ![g] = nCalls + 1]
  /\ pc' = [pc EXCEPT ![g] = next]

(* Do: the first caller runs doCall itself, a duplicate blocks in wg.Wait. *)
Do(g, k) ==
  /\ Enter(g)
  /\ Join(g, k, "wait", {}) \/ Register(g, k, "own", {})

(* DoChan: every caller gets a channel, doCall runs in a new goroutine.    *)
DoChan(g, k) ==
  /\ Enter(g)
  /\ Join(g, k, "recv", {g}) \/ Register(g, k, "recv", {g})

(* doCall, first half: fn returns, its results are stored, wg.Done().      *)
FnReturns(c) ==
  /\ phase[c] = "fn"
  /\ phase' = [phase EXCEPT ![c] = "ran"]
  /\ UNCHANGED <<m, nCalls, key, dups, chans, pc, on, shared, forgotten, nOps, nForgets, nPanics>>

(* fn panics in a caller of Do, who recovers further up: neither wg.Done   *)
(* nor the delete is reached.  (In the goroutine of DoChan a panic ends    *)
(* the process.)                                                           *)
FnPanics(g) ==
  /\ pc[g] = "own"
  /\ phase[on[g]] = "fn"
  /\ nPanics < MaxPanics
  /\ nPanics' = nPanics + 1
  /\ phase' = [phase EXCEPT ![on[g]] = "panicked"]
  /\ pc' = [pc EXCEPT ![g] = "idle"]
  /\ on' = [on EXCEPT ![g] = NoCall]
  /\ UNCHANGED <<m, nCalls, key, dups, chans, shared, forgotten, nOps, nForgets>>

(* doCall, second half, under mu: the key is deleted whichever call it     *)
(* maps to, and every registered channel is sent the result.  A channel    *)
(* has room for the one result it gets, so the sends do not block.         *)
DoCallFinish(c) ==
  /\ phase[c] = "ran"
  /\ phase' = [phase EXCEPT ![c] = "over"]
  /\ m' = [m EXCEPT ![key[c]] = NoCall]
  /\ UNCHANGED <<nCalls, key, dups, chans, pc, on, shared, forgotten, nOps, nForgets, nPanics>>

Return(g, sh) ==
  /\ pc' = [pc EXCEPT ![g] = "done"]
  /\ shared' = [shared EXCEPT ![g] = sh]
  /\ UNCHANGED <<m, callVars, on, forgotten, nOps, nForgets, nPanics>>

(* Mutant: Do reads dups before doCall has taken the call out of the map.   *)
OwnerReturnsEarly(g) ==
  /\ pc[g] = "own"
  /\ phase[on[g]] \in {"ran", "over"}
  /\ Return(g, dups[on[g]] > 0)

(* The owner returns from Do once its doCall is over.                      *)
OwnerReturns(g) ==
  /\ pc[g] = "own"
  /\ phase[on[g]] = "over"
  /\ Return(g, dups[on[g]] > 0)

(* A duplicate returns from Do once wg.Done has been called.               *)
WaiterReturns(g) ==
  /\ pc[g] = "wait"
  /\ phase[on[g]] \in {"ran", "over"}
  /\ Return(g, TRUE)

(* Mutant: Forget leaves the call in the map.                               *)
ForgetNothing(k) ==
  /\ nForgets < MaxForgets
  /\ nForgets' = nForgets + 1
  /\ forgotten' = forgotten \cup {c \in Created : key[c] = k}
  /\ UNCHANGED <<m, callVars, pc, on, shared, nOps, nPanics>>

(* A caller of DoChan receives the result doCall has sent.                 *)
ChanReceives(g) ==
  /\ pc[g] = "recv"
  /\ phase[on[g]] = "over"
  /\ g \in chans[on[g]]
  /\ Return(g, dups[on[g]] > 0)

Forget(k) ==
  /\ nForgets < MaxForgets
  /\ nForgets' = nForgets + 1
  /\ m' = [m EXCEPT ![k] = NoCall]
  /\ forgotten' = forgotten \cup {c \in Created : key[c] = k}
  /\ UNCHANGED <<callVars, pc, on, shared, nOps, nPanics>>

Next ==
  \/ \E g \in Callers, k \in Keys : Do(g, k) \/ DoChan(g, k)
  \/ \E c \in Created : FnReturns(c) \/ DoCallFinish(c)
  \/ \E g \in Callers : FnPanics(g) \/ OwnerReturns(g) \/ WaiterReturns(g) \/ ChanReceives(g)
  \/ \E k \in Keys : Forget(k)

Spec == Init /\ [][Next]_vars

(* fn returns and a runnable goroutine is scheduled.  Nothing obliges a    *)
(* caller to call, to forget or to panic.                                  *)
Fairness ==
  /\ \A c \in CallIds : WF_vars(c \in Created /\ (FnReturns(c) \/ DoCallFinish(c)))
  /\ \A g \in Callers : WF_vars(OwnerReturns(g) \/ WaiterReturns(g) \/ ChanReceives(g))

FairSpec == Spec /\ Fairness
-----------------------------------------------------------------------------
(* Every variable keeps its type (singleflight.go:11-40).                   *)
TypeOK ==
  /\ m \in [Keys -> CallIds \cup {NoCall}]
  /\ nCalls \in 0..MaxCalls
  /\ phase \in [CallIds -> Phases]
  /\ key \in [CallIds -> Keys]
  /\ dups \in [CallIds -> Nat]
  /\ chans \in [CallIds -> SUBSET Callers]
  /\ pc \in [Callers -> Pcs]
  /\ on \in [Callers -> CallIds \cup {NoCall}]
  /\ shared \in [Callers -> BOOLEAN]
  /\ forgotten \subseteq CallIds
  /\ nOps \in [Callers -> Nat]
  /\ nForgets \in Nat
  /\ nPanics \in Nat

Overlap(c, d) ==
  /\ c # d
  /\ key[c] = key[d]
  /\ phase[c] = "fn" /\ phase[d] = "fn"

(* "making sure that only one execution is in-flight for a given key at a  *)
(* time": two calls of one key run fn at the same time only after Forget   *)
(* was called for the key while a call existed.                            *)
OneInFlight ==
  \A c, d \in Created :
    Overlap(c, d) => \E e \in forgotten : key[e] = key[c]

(* A finished call is never left in the map, where later callers would be  *)
(* handed its old result for ever: doCall and Forget remove it in time.    *)
NoFinishedInMap ==
  \A k \in Keys :
    m[k] # NoCall => key[m[k]] = k /\ phase[m[k]] \in {"fn", "ran", "panicked"}

(* "The return value shared indicates whether v was given to multiple      *)
(* callers": callers who got the result of one call agree that it was      *)
(* shared, however late the second one joined, and a caller is told so     *)
(* only when there was a second one.                                       *)
SharedIsTrue ==
  \A g \in Callers : pc[g] = "done" =>
    /\ shared[g] => dups[on[g]] > 0
    /\ \A h \in Callers \ {g} : on[h] = on[g] => shared[g]

(* "Future calls to Do for this key will call the function rather than     *)
(* waiting for an earlier call to complete": after Forget no caller joins  *)
(* a call that existed then.                                               *)
ForgetIsFresh ==
  [][\A g \in Callers : nOps'[g] # nOps[g] => on'[g] \notin forgotten]_vars

(* Every caller of Do and DoChan gets a result, unless the fn of its call  *)
(* panics: doCall then reaches neither wg.Done nor the channels.           *)
EveryCallerReturns ==
  \A g \in Callers :
    pc[g] \in {"own", "wait", "recv"} ~>
      \/ pc[g] \in {"done", "idle"}
      \/ \E c \in Created : on[g] = c /\ phase[c] = "panicked"
=============================================================================
