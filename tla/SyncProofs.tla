----------------------------- MODULE SyncProofs -----------------------------
(***************************************************************************)
(* For every set of goroutines, keys and mails and every bound: Do and     *)
(* DoChan of singleflight never run two functions of a key at once unless  *)
(* Forget intervened, the map holds no finished call, a forgotten call is  *)
(* never joined again, and what callers are told about sharing is true; of *)
(* the goroutines that need a job done one works and the others proceed    *)
(* when it is done; a mail that the daemon has accepted is neither lost on *)
(* the way nor doubled.                                                    *)
(***************************************************************************)
EXTENDS Sync, Sequences, TLAPS

(* Room for the provers on a busy machine.                                  *)
USE ZenonT(30), SMTT(60), Z3T(60)

(* The inductive invariant.  A call in the map is a live call of that key  *)
(* and was not forgotten; a call in flight is in the map, unless a call of *)
(* its key was forgotten, after which doCall may have removed it.          *)
MapInv ==
  \A k \in Keys : m[k] # NoCall =>
    /\ m[k] \in Created
    /\ key[m[k]] = k
    /\ phase[m[k]] \in {"fn", "ran", "panicked"}
    /\ m[k] \notin forgotten

InFlightInv ==
  \A c \in Created : phase[c] \in {"fn", "ran"} =>
    \/ m[key[c]] = c
    \/ \E e \in forgotten : key[e] = key[c]

FreeInv ==
  /\ forgotten \subseteq Created
  /\ \A c \in CallIds : c \notin Created => phase[c] = "free"

IInv == TypeOK /\ MapInv /\ InFlightInv /\ FreeInv

(* A new Group satisfies the invariant.                                     *)
LEMMA InitIInv == Init => IInv
  <1> SUFFICES ASSUME Init PROVE IInv
    OBVIOUS
  <1> USE SingleflightAssumption DEF Init, NoCall, CallIds, Created
  <1>1. (CHOOSE k \in Keys : TRUE) \in Keys
    OBVIOUS
  <1>2. TypeOK
    BY <1>1 DEF TypeOK, Phases, Pcs
  <1>3. MapInv /\ InFlightInv /\ FreeInv
    BY SMTT(60), Z3T(60) DEF MapInv, InFlightInv, FreeInv
  <1> QED
    BY <1>2, <1>3 DEF IInv

(* A caller that finds its key in the map joins that call.                  *)
LEMMA JoinIInv ==
  ASSUME IInv, NEW g \in Callers, NEW k \in Keys, NEW next \in Pcs, NEW cs \in SUBSET Callers,
         Enter(g), Join(g, k, next, cs)
  PROVE  IInv'
  <1> USE DEF NoCall, CallIds, Created
  <1>1. TypeOK'
    <2>1. m[k] \in CallIds
      BY DEF IInv, TypeOK, Join
    <2>2. /\ dups' \in [CallIds -> Nat] /\ nOps' \in [Callers -> Nat]
      BY SMTT(60), Z3T(60), <2>1 DEF IInv, TypeOK, Join, Enter
    <2>3. chans' \in [CallIds -> SUBSET Callers]
      BY <2>1 DEF IInv, TypeOK, Join
    <2>4. on' \in [Callers -> CallIds \cup {NoCall}] /\ pc' \in [Callers -> Pcs]
      BY <2>1 DEF IInv, TypeOK, Join
    <2> QED
      BY <2>2, <2>3, <2>4 DEF IInv, TypeOK, Join, Enter
  <1>2. MapInv' /\ InFlightInv' /\ FreeInv'
    BY SMTT(30), ZenonT(90) DEF IInv, MapInv, InFlightInv, FreeInv, Join, Enter
  <1> QED
    BY <1>1, <1>2 DEF IInv

(* A caller that does not find its key puts a call that is new in the map.   *)
LEMMA RegisterIInv ==
  ASSUME IInv, NEW g \in Callers, NEW k \in Keys, NEW next \in Pcs, NEW cs \in SUBSET Callers,
         Enter(g), Register(g, k, next, cs)
  PROVE  IInv'
  <1> USE SingleflightAssumption DEF NoCall, CallIds, Created
  <1>1. nCalls + 1 \in CallIds /\ nCalls + 1 \notin Created
    BY DEF IInv, TypeOK, Register
  <1>2. TypeOK'
    BY SMTT(60), Z3T(60), <1>1 DEF IInv, TypeOK, Register, Enter, Phases
  <1>3. MapInv' /\ FreeInv'
    BY SMTT(60), Z3T(60), <1>1 DEF IInv, TypeOK, MapInv, FreeInv, Register, Enter
  <1>4. InFlightInv'
    <2> SUFFICES ASSUME NEW c \in Created', phase'[c] \in {"fn", "ran"}
                 PROVE  m'[key'[c]] = c \/ \E e \in forgotten' : key'[e] = key'[c]
      BY DEF InFlightInv
    <2>1. CASE c = nCalls + 1
      BY <1>1, <2>1 DEF IInv, TypeOK, Register
    <2>2. CASE c # nCalls + 1
      <3>1. c \in Created /\ phase[c] = phase'[c] /\ key[c] = key'[c]
        BY SMTT(60), Z3T(60), <1>1, <2>2 DEF IInv, TypeOK, Register
      <3>2. \A e \in forgotten : key'[e] = key[e]
        BY <1>1 DEF IInv, TypeOK, FreeInv, Register
      <3>3. m[key[c]] = c => key[c] # k
        BY <3>1 DEF Register
      <3>4. m[key[c]] = c \/ \E e \in forgotten : key[e] = key[c]
        BY <3>1 DEF IInv, InFlightInv
      <3>5. m[key[c]] = c => m'[key[c]] = c
        BY SMTT(60), Z3T(60), <3>1, <3>3 DEF IInv, TypeOK, Register
      <3>6. forgotten' = forgotten
        BY DEF Enter
      <3> QED
        BY <3>1, <3>2, <3>4, <3>5, <3>6
    <2> QED
      BY <2>1, <2>2
  <1> QED
    BY <1>2, <1>3, <1>4 DEF IInv

(* Every step of the Group preserves the invariant.                         *)
LEMMA NextIInv == IInv /\ [Next]_vars => IInv'
  <1> SUFFICES ASSUME IInv, [Next]_vars PROVE IInv'
    OBVIOUS
  <1> USE SingleflightAssumption DEF NoCall, CallIds, Created
  <1>1. ASSUME NEW g \in Callers, NEW k \in Keys, Do(g, k) \/ DoChan(g, k)
        PROVE  IInv'
    <2>1. "own" \in Pcs /\ "wait" \in Pcs /\ "recv" \in Pcs /\ {} \in SUBSET Callers /\ {g} \in SUBSET Callers
      BY DEF Pcs
    <2> QED
      BY <1>1, <2>1, JoinIInv, RegisterIInv DEF Do, DoChan
  <1>2. ASSUME NEW c \in Created, FnReturns(c)
        PROVE  IInv'
    <2>1. TypeOK'
      BY <1>2 DEF IInv, TypeOK, FnReturns, Phases
    <2>2. MapInv'
      BY SMTT(60), Z3T(60), <1>2 DEF IInv, TypeOK, MapInv, InFlightInv, FnReturns
    <2>3. InFlightInv'
      BY SMTT(60), Z3T(60), <1>2 DEF IInv, TypeOK, InFlightInv, FreeInv, FnReturns
    <2>4. FreeInv'
      BY <1>2 DEF IInv, TypeOK, FreeInv, FnReturns
    <2> QED
      BY <2>1, <2>2, <2>3, <2>4 DEF IInv
  <1>3. ASSUME NEW c \in Created, DoCallFinish(c)
        PROVE  IInv'
    <2>1. TypeOK'
      BY <1>3 DEF IInv, TypeOK, DoCallFinish, Phases
    <2>2. MapInv'
      BY SMTT(60), Z3T(60), <1>3 DEF IInv, TypeOK, MapInv, InFlightInv, DoCallFinish
    <2>3. InFlightInv'
      <3> SUFFICES ASSUME NEW d \in Created, phase'[d] \in {"fn", "ran"}
                   PROVE  m'[key[d]] = d \/ \E e \in forgotten : key[e] = key[d]
        BY <1>3 DEF InFlightInv, DoCallFinish
      <3>1. d # c /\ phase[d] = phase'[d] /\ phase[c] = "ran"
        BY SMTT(60), Z3T(60), <1>3 DEF IInv, TypeOK, DoCallFinish
      <3>2. m[key[d]] = d \/ \E e \in forgotten : key[e] = key[d]
        BY <3>1 DEF IInv, InFlightInv
      <3>3. m[key[c]] = c \/ \E e \in forgotten : key[e] = key[c]
        BY <3>1 DEF IInv, InFlightInv
      <3>4. CASE key[d] = key[c]
        BY <3>1, <3>2, <3>3, <3>4
      <3>5. CASE key[d] # key[c]
        BY SMTT(60), Z3T(60), <1>3, <3>2, <3>5 DEF IInv, TypeOK, DoCallFinish
      <3> QED
        BY <3>4, <3>5
    <2>4. FreeInv'
      BY <1>3 DEF IInv, TypeOK, FreeInv, DoCallFinish
    <2> QED
      BY <2>1, <2>2, <2>3, <2>4 DEF IInv
  <1>4. ASSUME NEW g \in Callers, FnPanics(g)
        PROVE  IInv'
    <2>1. TypeOK'
      <3>1. phase' \in [CallIds -> Phases] /\ pc' \in [Callers -> Pcs]
        BY <1>4 DEF IInv, TypeOK, FnPanics, Phases, Pcs
      <3>2. on' \in [Callers -> CallIds \cup {NoCall}] /\ nPanics' \in Nat
        BY SMTT(60), Z3T(60), <1>4 DEF IInv, TypeOK, FnPanics
      <3> QED
        BY <1>4, <3>1, <3>2 DEF IInv, TypeOK, FnPanics
    <2>2. MapInv'
      BY SMTT(60), Z3T(60), <1>4 DEF IInv, TypeOK, MapInv, InFlightInv, FnPanics
    <2>3. InFlightInv'
      BY SMTT(60), Z3T(60), <1>4 DEF IInv, TypeOK, InFlightInv, FreeInv, FnPanics
    <2>4. FreeInv'
      BY <1>4 DEF IInv, TypeOK, FreeInv, FnPanics
    <2> QED
      BY <2>1, <2>2, <2>3, <2>4 DEF IInv
  <1>5. ASSUME NEW g \in Callers, OwnerReturns(g) \/ WaiterReturns(g) \/ ChanReceives(g)
        PROVE  IInv'
    <2>1. PICK sh \in BOOLEAN : Return(g, sh)
      <3>1. (dups[on[g]] > 0) \in BOOLEAN
        OBVIOUS
      <3> QED
        BY <1>5, <3>1 DEF OwnerReturns, WaiterReturns, ChanReceives
    <2>2. UNCHANGED <<m, nCalls, phase, key, forgotten>>
      BY <2>1 DEF Return, callVars
    <2>3. TypeOK'
      BY <2>1 DEF IInv, TypeOK, Return, callVars, Pcs
    <2>4. MapInv' /\ InFlightInv' /\ FreeInv'
      BY <2>2 DEF IInv, MapInv, InFlightInv, FreeInv
    <2> QED
      BY <2>3, <2>4 DEF IInv
  <1>6. ASSUME NEW k \in Keys, Forget(k)
        PROVE  IInv'
    <2>1. TypeOK'
      <3>1. m' \in [Keys -> CallIds \cup {NoCall}] /\ nForgets' \in Nat
        BY SMTT(60), Z3T(60), <1>6 DEF IInv, TypeOK, Forget
      <3>2. forgotten' \subseteq CallIds
        <4>1. Created \subseteq CallIds
          BY SMTT(60), Z3T(60) DEF IInv, TypeOK
        <4> QED
          BY <1>6, <4>1, Zenon DEF IInv, TypeOK, Forget
      <3> QED
        BY <1>6, <3>1, <3>2 DEF IInv, TypeOK, Forget, callVars
    <2>2. MapInv'
      BY <1>6 DEF IInv, TypeOK, MapInv, InFlightInv, Forget, callVars
    <2>3. InFlightInv'
      BY SMTT(60), Z3T(60), <1>6 DEF IInv, TypeOK, InFlightInv, FreeInv, Forget, callVars
    <2>4. FreeInv'
      BY <1>6 DEF IInv, TypeOK, FreeInv, Forget, callVars
    <2> QED
      BY <2>1, <2>2, <2>3, <2>4 DEF IInv
  <1>7. CASE UNCHANGED vars
    BY <1>7 DEF vars, callVars, IInv, TypeOK, MapInv, InFlightInv, FreeInv
  <1> QED
    BY <1>1, <1>2, <1>3, <1>4, <1>5, <1>6, <1>7 DEF Next

(* The invariant holds in every behaviour of the Group.                    *)
THEOREM IInvHolds == Spec => []IInv
  BY InitIInv, NextIInv, PTL DEF Spec

(* Type correctness of the Group's state.                                  *)
THEOREM TypeCorrect == Spec => []TypeOK
  BY IInvHolds, PTL DEF IInv

(* Do and DoChan run at most one function of a key at a time, as long as   *)
(* no call of that key has been forgotten.                                 *)
THEOREM AtMostOneExecution == Spec => []OneInFlight
  <1>1. IInv => OneInFlight
    BY DEF IInv, TypeOK, InFlightInv, OneInFlight, Overlap, Created, CallIds, NoCall
  <1> QED
    BY <1>1, IInvHolds, PTL

(* doCall never leaves the call it has finished in the map.                *)
THEOREM MapHoldsLiveCalls == Spec => []NoFinishedInMap
  <1>1. IInv => NoFinishedInMap
    BY DEF IInv, MapInv, NoFinishedInMap
  <1> QED
    BY <1>1, IInvHolds, PTL

(* A caller that arrives after Forget never joins a call from before it.   *)
THEOREM ForgottenIsNotJoined == Spec => ForgetIsFresh
  <1>1. IInv /\ [Next]_vars => [\A g \in Callers : nOps'[g] # nOps[g] => on'[g] \notin forgotten]_vars
    <2> SUFFICES ASSUME IInv, Next, NEW g \in Callers, nOps'[g] # nOps[g]
                 PROVE  on'[g] \notin forgotten
      OBVIOUS
    <2> USE DEF NoCall, CallIds, Created, IInv, TypeOK
    <2>1. PICK h \in Callers, k \in Keys : Do(h, k) \/ DoChan(h, k)
      BY DEF Next, FnReturns, DoCallFinish, FnPanics, OwnerReturns, WaiterReturns, ChanReceives,
             Return, Forget
    <2>2. h = g
      BY <2>1 DEF Do, DoChan, Enter
    <2> QED
      BY SMTT(60), Z3T(60), <2>1, <2>2 DEF Do, DoChan, Join, Register, MapInv, FreeInv
  <1> QED
    BY <1>1, IInvHolds, PTL DEF Spec, ForgetIsFresh

(* Who is in a call, and what is known of the sharing.  Two callers in one *)
(* call have been counted, a caller who was told that it is alone has left *)
(* a call that nobody can join any more.                                   *)
OnInv == \A g \in Callers : IF pc[g] = "idle" THEN on[g] = NoCall ELSE on[g] \in Created

PairInv == \A g, h \in Callers : g # h /\ on[g] = on[h] /\ on[g] # NoCall => dups[on[g]] > 0

WaitInv == \A g \in Callers : pc[g] = "wait" => dups[on[g]] > 0

ToldInv ==
  \A g \in Callers : pc[g] = "done" =>
    IF shared[g] THEN dups[on[g]] > 0 ELSE dups[on[g]] = 0 /\ phase[on[g]] = "over"

ShareInv == OnInv /\ PairInv /\ WaitInv /\ ToldInv

(* Every step of the Group preserves it.                                    *)
LEMMA NextShareInv == IInv /\ ShareInv /\ [Next]_vars => ShareInv'
  <1> SUFFICES ASSUME IInv, ShareInv, [Next]_vars PROVE ShareInv'
    OBVIOUS
  <1> USE SingleflightAssumption DEF NoCall, CallIds, Created
  <1>1. ASSUME NEW g \in Callers, NEW k \in Keys, NEW next \in {"wait", "recv"}, NEW cs \in SUBSET Callers,
               Enter(g), Join(g, k, next, cs)
        PROVE  ShareInv'
    <2>1. m[k] \in Created /\ phase[m[k]] # "over" /\ m[k] \in CallIds
      BY <1>1 DEF IInv, TypeOK, MapInv, Join
    <2>2. dups'[m[k]] > 0 /\ \A c \in CallIds : c # m[k] => dups'[c] = dups[c]
      BY <1>1, <2>1 DEF IInv, TypeOK, Join
    <2>3. /\ on'[g] = m[k] /\ pc'[g] = next
          /\ \A h \in Callers : h # g => on'[h] = on[h] /\ pc'[h] = pc[h]
      BY <1>1 DEF IInv, TypeOK, Join
    <2>4. UNCHANGED <<nCalls, phase, shared>>
      BY <1>1 DEF Join, Enter
    <2>5. \A h \in Callers : on[h] # NoCall => on[h] \in CallIds
      BY DEF IInv, TypeOK
    <2>6. \A c \in CallIds : dups[c] > 0 => dups'[c] > 0
      BY <2>2
    <2>7. OnInv'
      BY <2>1, <2>3, <2>4 DEF ShareInv, OnInv
    <2>8. PairInv'
      BY SMTT(60), Z3T(60), <2>1, <2>2, <2>3, <2>5, <2>6 DEF ShareInv, PairInv
    <2>9. WaitInv'
      <3>1. ASSUME NEW h \in Callers, h # g, pc[h] = "wait" PROVE dups'[on[h]] > 0
        <4>1. on[h] \in CallIds /\ dups[on[h]] > 0
          BY SMTT(60), Z3T(60), <2>5, <3>1 DEF IInv, TypeOK, ShareInv, OnInv, WaitInv
        <4> QED
          BY <2>6, <4>1
      <3> QED
        BY <2>2, <2>3, <3>1 DEF WaitInv
    <2>10. ToldInv'
      <3> SUFFICES ASSUME NEW h \in Callers, h # g, pc[h] = "done"
                   PROVE  IF shared[h] THEN dups'[on[h]] > 0
                                       ELSE dups'[on[h]] = 0 /\ phase[on[h]] = "over"
        BY <2>3, <2>4 DEF ToldInv
      <3>1. on[h] \in CallIds
        BY SMTT(60), Z3T(60), <2>5 DEF IInv, TypeOK, ShareInv, OnInv
      <3> QED
        BY <2>1, <2>2, <2>6, <3>1 DEF ShareInv, ToldInv
    <2> QED
      BY <2>7, <2>8, <2>9, <2>10 DEF ShareInv
  <1>2. ASSUME NEW g \in Callers, NEW k \in Keys, NEW next \in {"own", "recv"}, NEW cs \in SUBSET Callers,
               Enter(g), Register(g, k, next, cs)
        PROVE  ShareInv'
    <2>1. nCalls' = nCalls + 1 /\ nCalls \in Nat /\ UNCHANGED <<dups, shared>>
      BY SMTT(60), Z3T(60), <1>2 DEF IInv, TypeOK, Register, Enter
    <2>2. \A c \in Created : phase'[c] = phase[c]
      BY SMTT(60), Z3T(60), <1>2 DEF IInv, TypeOK, Register
    <2>3. /\ on'[g] = nCalls + 1 /\ pc'[g] = next
          /\ \A h \in Callers : h # g => on'[h] = on[h] /\ pc'[h] = pc[h]
      BY <1>2 DEF IInv, TypeOK, Register
    <2>4. \A h \in Callers : on[h] # NoCall => on[h] \in Created
      BY DEF ShareInv, OnInv
    <2>5. OnInv'
      BY SMTT(60), Z3T(60), <2>1, <2>3, <2>4 DEF ShareInv, OnInv
    <2>6. PairInv'
      BY SMTT(60), Z3T(60), <2>1, <2>3, <2>4 DEF ShareInv, PairInv
    <2>7. WaitInv'
      BY <2>1, <2>3 DEF ShareInv, WaitInv
    <2>8. ToldInv'
      BY SMTT(30), ZenonT(90), <2>1, <2>2, <2>3 DEF ShareInv, OnInv, ToldInv
    <2> QED
      BY <2>5, <2>6, <2>7, <2>8 DEF ShareInv
  <1>3. ASSUME NEW g \in Callers, NEW k \in Keys, Do(g, k) \/ DoChan(g, k)
        PROVE  ShareInv'
    <2>1. {} \in SUBSET Callers /\ {g} \in SUBSET Callers
      OBVIOUS
    <2> QED
      BY <1>1, <1>2, <1>3, <2>1 DEF Do, DoChan
  <1>4. ASSUME NEW c \in Created, FnReturns(c) \/ DoCallFinish(c)
        PROVE  ShareInv'
    <2>1. UNCHANGED <<nCalls, dups, on, pc, shared>>
      BY <1>4 DEF FnReturns, DoCallFinish
    <2>2. \A d \in Created : phase[d] = "over" => phase'[d] = "over"
      BY SMTT(60), Z3T(60), <1>4 DEF IInv, TypeOK, FnReturns, DoCallFinish
    <2> QED
      BY <2>1, <2>2 DEF ShareInv, OnInv, PairInv, WaitInv, ToldInv
  <1>5. ASSUME NEW g \in Callers, FnPanics(g)
        PROVE  ShareInv'
    <2>1. on[g] \in CallIds /\ phase[on[g]] = "fn"
      BY SMTT(60), Z3T(60), <1>5 DEF IInv, TypeOK, ShareInv, OnInv, FnPanics
    <2>2. \A c \in CallIds : phase[c] = "over" => phase'[c] = "over"
      BY <1>5, <2>1 DEF IInv, TypeOK, FnPanics
    <2>3. /\ on'[g] = NoCall /\ pc'[g] = "idle"
          /\ \A h \in Callers : h # g => on'[h] = on[h] /\ pc'[h] = pc[h]
          /\ UNCHANGED <<nCalls, dups, shared>>
      BY <1>5 DEF IInv, TypeOK, FnPanics
    <2>4. OnInv'
      BY <2>3 DEF ShareInv, OnInv
    <2>5. PairInv' /\ WaitInv'
      BY <2>3 DEF ShareInv, PairInv, WaitInv
    <2>6. ToldInv'
      <3> SUFFICES ASSUME NEW h \in Callers, h # g, pc[h] = "done"
                   PROVE  IF shared[h] THEN dups[on[h]] > 0
                                       ELSE dups[on[h]] = 0 /\ phase'[on[h]] = "over"
        BY <2>3 DEF ToldInv
      <3>1. on[h] \in CallIds
        BY SMTT(60), Z3T(60) DEF IInv, TypeOK, ShareInv, OnInv
      <3> QED
        BY <2>2, <3>1 DEF ShareInv, ToldInv
    <2> QED
      BY <2>4, <2>5, <2>6 DEF ShareInv
  <1>6. ASSUME NEW g \in Callers, OwnerReturns(g) \/ WaiterReturns(g) \/ ChanReceives(g)
        PROVE  ShareInv'
    <2>1. on[g] \in Created /\ on[g] \in CallIds
      <3>1. pc[g] # "idle"
        BY <1>6 DEF OwnerReturns, WaiterReturns, ChanReceives
      <3> QED
        BY SMTT(60), Z3T(60), <3>1 DEF IInv, TypeOK, ShareInv, OnInv
    <2>2. PICK sh \in BOOLEAN : /\ Return(g, sh)
                                /\ sh => dups[on[g]] > 0
                                /\ ~sh => dups[on[g]] = 0 /\ phase[on[g]] = "over"
      <3>1. CASE WaiterReturns(g)
        BY <3>1 DEF ShareInv, WaitInv, WaiterReturns
      <3>2. CASE OwnerReturns(g) \/ ChanReceives(g)
        <4>1. Return(g, dups[on[g]] > 0) /\ phase[on[g]] = "over"
          BY <3>2 DEF OwnerReturns, ChanReceives
        <4>2. (dups[on[g]] > 0) \in BOOLEAN /\ (~(dups[on[g]] > 0) => dups[on[g]] = 0)
          BY SMTT(60), Z3T(60), <2>1 DEF IInv, TypeOK
        <4> QED
          BY <4>1, <4>2
      <3> QED
        BY <1>6, <3>1, <3>2
    <2>3. /\ pc'[g] = "done" /\ shared'[g] = sh
          /\ \A h \in Callers : h # g => pc'[h] = pc[h] /\ shared'[h] = shared[h]
          /\ UNCHANGED <<nCalls, phase, dups, on>>
      BY <2>2 DEF IInv, TypeOK, Return, callVars
    <2> QED
      BY <2>1, <2>2, <2>3 DEF ShareInv, OnInv, PairInv, WaitInv, ToldInv
  <1>7. ASSUME NEW k \in Keys, Forget(k)
        PROVE  ShareInv'
    BY <1>7 DEF ShareInv, OnInv, PairInv, WaitInv, ToldInv, Forget, callVars
  <1>8. CASE UNCHANGED vars
    BY <1>8 DEF ShareInv, OnInv, PairInv, WaitInv, ToldInv, vars, callVars
  <1> QED
    BY <1>3, <1>4, <1>5, <1>6, <1>7, <1>8 DEF Next

(* Callers who got one result agree that it was shared, and are told so    *)
(* only when it was.                                                       *)
THEOREM SharedIsToldTruly == Spec => []SharedIsTrue
  <1>1. Init => ShareInv
    BY DEF Init, ShareInv, OnInv, PairInv, WaitInv, ToldInv, NoCall
  <1>2. IInv /\ ShareInv /\ [Next]_vars => ShareInv'
    BY NextShareInv
  <1>3. IInv /\ ShareInv => SharedIsTrue
    <2> SUFFICES ASSUME IInv, ShareInv, NEW g \in Callers, pc[g] = "done"
                 PROVE  /\ shared[g] => dups[on[g]] > 0
                        /\ \A h \in Callers \ {g} : on[h] = on[g] => shared[g]
      BY DEF SharedIsTrue
    <2>1. on[g] # NoCall /\ dups[on[g]] \in Nat /\ shared[g] \in BOOLEAN
      BY SingleflightAssumption DEF IInv, TypeOK, ShareInv, OnInv, Created, CallIds, NoCall
    <2> QED
      BY SMTT(60), Z3T(60), <2>1 DEF ShareInv, PairInv, ToldInv
  <1> QED
    BY <1>1, <1>2, <1>3, IInvHolds, PTL DEF Spec
-----------------------------------------------------------------------------
(* The inductive invariant.  Runs are numbered as they come; an entry of    *)
(* the map is one that exists, and no run is the entry of two keys.  Who    *)
(* has looked up a run in ShouldWait has one.                               *)
RunInv ==
  /\ \A r \in S!Runs : status[r] = "free" <=> r > nRuns
  /\ \A k \in RunKeys : states[k] <= nRuns
  /\ \A k, l \in RunKeys : states[k] = states[l] /\ states[k] # S!NoRun => k = l
  /\ \A g \in Goroutines :
       /\ run[g] <= nRuns /\ blockedBy[g] <= nRuns
       /\ spc[g] \in {"loaded", "locking", "checking", "waiting", "asleep"} => run[g] # S!NoRun

(* The mutex of a run is held between st.Lock and Unlock or Wait.           *)
HolderInv ==
  \A g \in Goroutines, r \in S!Runs :
    holder[r] = g <=> run[g] = r /\ spc[g] \in {"checking", "waiting"}

(* State.mu is held across the two steps of Done.                           *)
MuInv == \A g \in Goroutines : mu = g <=> spc[g] = "storing"

(* Without Reset the goroutine at work has the entry of its key to itself   *)
(* until it has deleted it, and nobody's Done fails.                        *)
AtWork(g) == spc[g] \in {"working", "storing"}
WorkInv ==
  nResets = 0 =>
    /\ failed = {}
    /\ \A g \in Goroutines : AtWork(g) => states[skey[g]] # S!NoRun
    /\ \A g \in Goroutines : spc[g] = "storing" => status[states[skey[g]]] = "done"
    /\ \A g, h \in Goroutines : AtWork(g) /\ AtWork(h) /\ skey[g] = skey[h] => g = h

(* The run that has stopped a goroutine is done, or still the entry of the  *)
(* key, or the one that ShouldWait has looked up.                           *)
BlockedInv ==
  nResets = 0 =>
    \A g \in Goroutines :
      /\ spc[g] \in {"idle", "working", "storing"} => blockedBy[g] = S!NoRun
      /\ blockedBy[g] # S!NoRun /\ status[blockedBy[g]] # "done" =>
           /\ spc[g] # "proceed"
           /\ spc[g] = "waitcall" => states[skey[g]] = blockedBy[g]
           /\ spc[g] \in {"loaded", "locking", "checking", "waiting", "asleep"} => run[g] = blockedBy[g]

SuspendInv == S!TypeOK /\ RunInv /\ HolderInv /\ MuInv /\ WorkInv /\ BlockedInv
-----------------------------------------------------------------------------
(* Initially the invariant holds.                                           *)
LEMMA SuspendInit == S!SuspendConstants /\ S!Init => SuspendInv
BY SMTT(60), Z3T(60) DEF S!SuspendConstants, S!Init, SuspendInv, S!TypeOK, RunInv, HolderInv, MuInv, WorkInv, BlockedInv, AtWork, S!Runs, S!NoRun, S!Statuses, S!Pcs

(* Every step preserves it.                                                 *)
LEMMA SuspendNext == S!SuspendConstants /\ SuspendInv /\ [S!Next]_S!vars => SuspendInv'
<1> SUFFICES ASSUME S!SuspendConstants, SuspendInv, [S!Next]_S!vars PROVE SuspendInv'
  OBVIOUS
<1> USE DEF S!SuspendConstants, AtWork
<1>1. ASSUME NEW g \in Goroutines, S!ShouldStart(g) PROVE SuspendInv'
  <2>1. S!TypeOK'
    BY SMTT(60), Z3T(60), <1>1 DEF SuspendInv, S!TypeOK, RunInv, S!Pcs, S!Statuses, S!Runs, S!NoRun, S!ShouldStart
  <2>2. RunInv'
    <3>1. /\ nRuns' = nRuns + 1 /\ nRuns \in Nat /\ nRuns + 1 \in S!Runs
          /\ status' = [status EXCEPT ![nRuns + 1] = "running"] /\ status \in [S!Runs -> S!Statuses]
          /\ states' = [states EXCEPT ![skey[g]] = nRuns + 1] /\ states \in [RunKeys -> S!Runs \cup {S!NoRun}]
          /\ UNCHANGED <<run, blockedBy>> /\ spc' = [spc EXCEPT ![g] = "working"] /\ spc \in [Goroutines -> S!Pcs]
      BY SMTT(60), Z3T(60), <1>1 DEF SuspendInv, S!TypeOK, S!Runs, S!ShouldStart
    <3>2. \A r \in S!Runs : status'[r] = "free" <=> r > nRuns'
      BY SMTT(60), Z3T(60), <3>1 DEF SuspendInv, RunInv, S!Runs
    <3>3. \A k \in RunKeys : states'[k] <= nRuns' /\ (states'[k] = nRuns + 1 <=> k = skey[g])
      BY SMTT(60), Z3T(60), <3>1 DEF SuspendInv, S!TypeOK, RunInv, S!Runs, S!NoRun
    <3>4. \A k \in RunKeys : k # skey[g] => states'[k] = states[k]
      BY <3>1
    <3>5. \A k, l \in RunKeys : states'[k] = states'[l] /\ states'[k] # S!NoRun => k = l
      BY <3>3, <3>4 DEF SuspendInv, RunInv
    <3>6. \A h \in Goroutines :
            /\ run'[h] <= nRuns' /\ blockedBy'[h] <= nRuns'
            /\ spc'[h] \in {"loaded", "locking", "checking", "waiting", "asleep"} => run'[h] # S!NoRun
      BY SMTT(60), Z3T(60), <3>1 DEF SuspendInv, S!TypeOK, RunInv, S!Runs, S!NoRun
    <3> QED BY <3>2, <3>3, <3>5, <3>6 DEF RunInv
  <2>3. HolderInv'
    BY SMTT(60), Z3T(60), <1>1 DEF SuspendInv, S!TypeOK, RunInv, HolderInv, S!Runs, S!NoRun, S!ShouldStart
  <2>4. MuInv'
    BY <1>1 DEF SuspendInv, S!TypeOK, MuInv, S!ShouldStart
  <2>5. WorkInv'
    BY SMTT(60), Z3T(60), <1>1 DEF SuspendInv, S!TypeOK, RunInv, MuInv, WorkInv, S!Runs, S!NoRun, S!ShouldStart
  <2>6. BlockedInv'
    BY SMTT(60), Z3T(60), <1>1 DEF SuspendInv, S!TypeOK, RunInv, WorkInv, BlockedInv, S!Runs, S!NoRun, S!ShouldStart
  <2> QED BY <2>1, <2>2, <2>3, <2>4, <2>5, <2>6 DEF SuspendInv
<1>2. ASSUME NEW g \in Goroutines, S!ShouldNotStart(g) PROVE SuspendInv'
  <2>1. S!TypeOK'
    BY <1>2 DEF SuspendInv, S!TypeOK, RunInv, S!Pcs, S!Statuses, S!Runs, S!NoRun, S!ShouldNotStart
  <2>2. RunInv'
    BY SMTT(30), ZenonT(90), <1>2 DEF SuspendInv, S!TypeOK, RunInv, WorkInv, S!Runs, S!NoRun, S!ShouldNotStart
  <2>3. HolderInv'
    BY SMTT(60), Z3T(60), <1>2 DEF SuspendInv, S!TypeOK, RunInv, HolderInv, S!Runs, S!NoRun, S!ShouldNotStart
  <2>4. MuInv'
    BY <1>2 DEF SuspendInv, S!TypeOK, MuInv, S!ShouldNotStart
  <2>5. WorkInv'
    BY <1>2 DEF SuspendInv, S!TypeOK, RunInv, MuInv, WorkInv, S!Runs, S!NoRun, S!ShouldNotStart
  <2>6. BlockedInv'
    BY <1>2 DEF SuspendInv, S!TypeOK, RunInv, WorkInv, BlockedInv, S!Runs, S!NoRun, S!ShouldNotStart
  <2> QED BY <2>1, <2>2, <2>3, <2>4, <2>5, <2>6 DEF SuspendInv
<1>3. ASSUME NEW g \in Goroutines, S!WaitLookup(g) PROVE SuspendInv'
  <2>1. S!TypeOK'
    BY <1>3 DEF SuspendInv, S!TypeOK, RunInv, S!Pcs, S!Statuses, S!Runs, S!NoRun, S!WaitLookup
  <2>2. RunInv'
    BY <1>3 DEF SuspendInv, S!TypeOK, RunInv, WorkInv, S!Runs, S!NoRun, S!WaitLookup
  <2>3. HolderInv'
    BY SMTT(60), Z3T(60), <1>3 DEF SuspendInv, S!TypeOK, RunInv, HolderInv, S!Runs, S!NoRun, S!WaitLookup
  <2>4. MuInv'
    BY <1>3 DEF SuspendInv, S!TypeOK, MuInv, S!WaitLookup
  <2>5. WorkInv'
    BY <1>3 DEF SuspendInv, S!TypeOK, RunInv, MuInv, WorkInv, S!Runs, S!NoRun, S!WaitLookup
  <2>6. BlockedInv'
    BY <1>3 DEF SuspendInv, S!TypeOK, RunInv, WorkInv, BlockedInv, S!Runs, S!NoRun, S!WaitLookup
  <2> QED BY <2>1, <2>2, <2>3, <2>4, <2>5, <2>6 DEF SuspendInv
<1>4. ASSUME NEW g \in Goroutines, S!WaitLoad(g) PROVE SuspendInv'
  <2>1. S!TypeOK'
    BY <1>4 DEF SuspendInv, S!TypeOK, RunInv, S!Pcs, S!Statuses, S!Runs, S!NoRun, S!WaitLoad
  <2>2. RunInv'
    BY <1>4 DEF SuspendInv, S!TypeOK, RunInv, WorkInv, S!Runs, S!NoRun, S!WaitLoad
  <2>3. HolderInv'
    BY SMTT(60), Z3T(60), <1>4 DEF SuspendInv, S!TypeOK, RunInv, HolderInv, S!Runs, S!NoRun, S!WaitLoad
  <2>4. MuInv'
    BY <1>4 DEF SuspendInv, S!TypeOK, MuInv, S!WaitLoad
  <2>5. WorkInv'
    BY <1>4 DEF SuspendInv, S!TypeOK, RunInv, MuInv, WorkInv, S!Runs, S!NoRun, S!WaitLoad
  <2>6. BlockedInv'
    <3>1. ASSUME blockedBy[g] = run[g], status[run[g]] # "running" PROVE status[run[g]] = "done"
      <4>1. run[g] \in S!Runs /\ run[g] <= nRuns
        BY <1>4 DEF SuspendInv, S!TypeOK, RunInv, S!WaitLoad
      <4>2. status[run[g]] # "free" /\ status[run[g]] \in S!Statuses
        BY SMTT(60), Z3T(60), <4>1 DEF SuspendInv, S!TypeOK, RunInv, S!Runs
      <4> QED BY <3>1, <4>2 DEF S!Statuses
    <3> QED BY <1>4, <3>1 DEF SuspendInv, S!TypeOK, BlockedInv, S!WaitLoad
  <2> QED BY <2>1, <2>2, <2>3, <2>4, <2>5, <2>6 DEF SuspendInv
<1>5. ASSUME NEW g \in Goroutines, S!WaitLock(g) PROVE SuspendInv'
  <2>1. S!TypeOK'
    BY <1>5 DEF SuspendInv, S!TypeOK, RunInv, S!Pcs, S!Statuses, S!Runs, S!NoRun, S!WaitLock
  <2>2. RunInv'
    BY <1>5 DEF SuspendInv, S!TypeOK, RunInv, WorkInv, S!Runs, S!NoRun, S!WaitLock
  <2>3. HolderInv'
    BY SMTT(60), Z3T(60), <1>5 DEF SuspendInv, S!TypeOK, RunInv, HolderInv, S!Runs, S!NoRun, S!WaitLock
  <2>4. MuInv'
    BY <1>5 DEF SuspendInv, S!TypeOK, MuInv, S!WaitLock
  <2>5. WorkInv'
    BY <1>5 DEF SuspendInv, S!TypeOK, RunInv, MuInv, WorkInv, S!Runs, S!NoRun, S!WaitLock
  <2>6. BlockedInv'
    BY <1>5 DEF SuspendInv, S!TypeOK, RunInv, WorkInv, BlockedInv, S!Runs, S!NoRun, S!WaitLock
  <2> QED BY <2>1, <2>2, <2>3, <2>4, <2>5, <2>6 DEF SuspendInv
<1>6. ASSUME NEW g \in Goroutines, S!WaitCheck(g) PROVE SuspendInv'
  <2>1. S!TypeOK'
    <3>1. run[g] \in S!Runs
      BY <1>6 DEF SuspendInv, S!TypeOK, RunInv, S!WaitCheck
    <3>2. holder' \in [S!Runs -> Goroutines \cup {Nobody}]
      BY <1>6, <3>1 DEF SuspendInv, S!TypeOK, S!WaitCheck
    <3>3. spc' \in [Goroutines -> S!Pcs]
      BY <1>6 DEF SuspendInv, S!TypeOK, S!Pcs, S!WaitCheck
    <3> QED BY <1>6, <3>2, <3>3 DEF SuspendInv, S!TypeOK, S!WaitCheck
  <2>2. RunInv'
    BY <1>6 DEF SuspendInv, S!TypeOK, RunInv, WorkInv, S!Runs, S!NoRun, S!WaitCheck
  <2>3. HolderInv'
    BY SMTT(60), Z3T(60), <1>6 DEF SuspendInv, S!TypeOK, RunInv, HolderInv, S!Runs, S!NoRun, S!WaitCheck
  <2>4. MuInv'
    BY <1>6 DEF SuspendInv, S!TypeOK, MuInv, S!WaitCheck
  <2>5. WorkInv'
    <3>1. \A h \in Goroutines : AtWork(h)' = AtWork(h) /\ (spc'[h] = "storing" <=> spc[h] = "storing")
      BY SMTT(60), Z3T(60), <1>6 DEF SuspendInv, S!TypeOK, S!WaitCheck
    <3>2. UNCHANGED <<nResets, failed, states, skey, status>>
      BY <1>6 DEF S!WaitCheck
    <3> HIDE DEF AtWork
    <3> QED BY <3>1, <3>2 DEF SuspendInv, WorkInv
  <2>6. BlockedInv'
    BY SMTT(30), ZenonT(90), <1>6 DEF SuspendInv, S!TypeOK, RunInv, WorkInv, BlockedInv, S!Runs, S!NoRun, S!WaitCheck
  <2> QED BY <2>1, <2>2, <2>3, <2>4, <2>5, <2>6 DEF SuspendInv
<1>7. ASSUME NEW g \in Goroutines, S!CondWait(g) PROVE SuspendInv'
  <2>1. S!TypeOK'
    BY <1>7 DEF SuspendInv, S!TypeOK, RunInv, S!Pcs, S!Statuses, S!Runs, S!NoRun, S!CondWait
  <2>2. RunInv'
    BY <1>7 DEF SuspendInv, S!TypeOK, RunInv, WorkInv, S!Runs, S!NoRun, S!CondWait
  <2>3. HolderInv'
    BY SMTT(60), Z3T(60), <1>7 DEF SuspendInv, S!TypeOK, RunInv, HolderInv, S!Runs, S!NoRun, S!CondWait
  <2>4. MuInv'
    BY <1>7 DEF SuspendInv, S!TypeOK, MuInv, S!CondWait
  <2>5. WorkInv'
    BY <1>7 DEF SuspendInv, S!TypeOK, RunInv, MuInv, WorkInv, S!Runs, S!NoRun, S!CondWait
  <2>6. BlockedInv'
    BY <1>7 DEF SuspendInv, S!TypeOK, RunInv, WorkInv, BlockedInv, S!Runs, S!NoRun, S!CondWait
  <2> QED BY <2>1, <2>2, <2>3, <2>4, <2>5, <2>6 DEF SuspendInv
<1>8. ASSUME NEW g \in Goroutines, S!DoneStore(g) PROVE SuspendInv'
  <2>1. S!TypeOK'
    BY <1>8 DEF SuspendInv, S!TypeOK, RunInv, S!Pcs, S!Statuses, S!Runs, S!NoRun, S!DoneStore
  <2>2. RunInv'
    BY SMTT(60), Z3T(60), <1>8 DEF SuspendInv, S!TypeOK, RunInv, WorkInv, S!Runs, S!NoRun, S!DoneStore
  <2>3. HolderInv'
    BY SMTT(60), Z3T(60), <1>8 DEF SuspendInv, S!TypeOK, RunInv, HolderInv, S!Runs, S!NoRun, S!DoneStore
  <2>4. MuInv'
    BY <1>8 DEF SuspendInv, S!TypeOK, MuInv, S!DoneStore
  <2>5. WorkInv'
    BY SMTT(60), Z3T(60), <1>8 DEF SuspendInv, S!TypeOK, RunInv, MuInv, WorkInv, S!Runs, S!NoRun, S!DoneStore
  <2>6. BlockedInv'
    BY <1>8 DEF SuspendInv, S!TypeOK, RunInv, WorkInv, BlockedInv, S!Runs, S!NoRun, S!DoneStore
  <2> QED BY <2>1, <2>2, <2>3, <2>4, <2>5, <2>6 DEF SuspendInv
<1>9. ASSUME NEW g \in Goroutines, S!DoneBroadcast(g) PROVE SuspendInv'
  <2>1. S!TypeOK'
    BY <1>9 DEF SuspendInv, S!TypeOK, RunInv, S!Pcs, S!Statuses, S!Runs, S!NoRun, S!DoneBroadcast
  <2>2. RunInv'
    BY SMTT(60), Z3T(60), <1>9 DEF SuspendInv, S!TypeOK, RunInv, WorkInv, S!Runs, S!NoRun, S!DoneBroadcast
  <2>3. HolderInv'
    BY SMTT(60), Z3T(60), <1>9 DEF SuspendInv, S!TypeOK, RunInv, HolderInv, S!Runs, S!NoRun, S!DoneBroadcast
  <2>4. MuInv'
    BY <1>9 DEF SuspendInv, S!TypeOK, MuInv, S!DoneBroadcast
  <2>5. WorkInv'
    BY <1>9 DEF SuspendInv, S!TypeOK, RunInv, MuInv, WorkInv, S!Runs, S!NoRun, S!DoneBroadcast
  <2>6. BlockedInv'
    BY SMTT(60), Z3T(60), <1>9 DEF SuspendInv, S!TypeOK, RunInv, WorkInv, BlockedInv, S!Runs, S!NoRun, S!DoneBroadcast
  <2> QED BY <2>1, <2>2, <2>3, <2>4, <2>5, <2>6 DEF SuspendInv
<1>10. ASSUME NEW g \in Goroutines, S!DoneFails(g) PROVE SuspendInv'
  <2>1. S!TypeOK'
    BY <1>10 DEF SuspendInv, S!TypeOK, RunInv, S!Pcs, S!Statuses, S!Runs, S!NoRun, S!DoneFails
  <2>2. RunInv'
    BY <1>10 DEF SuspendInv, S!TypeOK, RunInv, WorkInv, S!Runs, S!NoRun, S!DoneFails
  <2>3. HolderInv'
    BY SMTT(60), Z3T(60), <1>10 DEF SuspendInv, S!TypeOK, RunInv, HolderInv, S!Runs, S!NoRun, S!DoneFails
  <2>4. MuInv'
    BY <1>10 DEF SuspendInv, S!TypeOK, MuInv, S!DoneFails
  <2>5. WorkInv'
    BY <1>10 DEF SuspendInv, S!TypeOK, RunInv, MuInv, WorkInv, S!Runs, S!NoRun, S!DoneFails
  <2>6. BlockedInv'
    BY <1>10 DEF SuspendInv, S!TypeOK, RunInv, WorkInv, BlockedInv, S!Runs, S!NoRun, S!DoneFails
  <2> QED BY <2>1, <2>2, <2>3, <2>4, <2>5, <2>6 DEF SuspendInv
<1>11. ASSUME NEW g \in Goroutines, NEW k \in RunKeys, S!Again(g, k) PROVE SuspendInv'
  <2>1. S!TypeOK'
    BY <1>11 DEF SuspendInv, S!TypeOK, RunInv, S!Pcs, S!Statuses, S!Runs, S!NoRun, S!Again
  <2>2. RunInv'
    BY SMTT(60), Z3T(60), <1>11 DEF SuspendInv, S!TypeOK, RunInv, WorkInv, S!Runs, S!NoRun, S!Again
  <2>3. HolderInv'
    BY SMTT(60), Z3T(60), <1>11 DEF SuspendInv, S!TypeOK, RunInv, HolderInv, S!Runs, S!NoRun, S!Again
  <2>4. MuInv'
    BY <1>11 DEF SuspendInv, S!TypeOK, MuInv, S!Again
  <2>5. WorkInv'
    BY <1>11 DEF SuspendInv, S!TypeOK, RunInv, MuInv, WorkInv, S!Runs, S!NoRun, S!Again
  <2>6. BlockedInv'
    BY <1>11 DEF SuspendInv, S!TypeOK, RunInv, WorkInv, BlockedInv, S!Runs, S!NoRun, S!Again
  <2> QED BY <2>1, <2>2, <2>3, <2>4, <2>5, <2>6 DEF SuspendInv
<1>12. ASSUME S!Reset PROVE SuspendInv'
  <2>1. S!TypeOK'
    BY SMTT(60), Z3T(60), <1>12 DEF SuspendInv, S!TypeOK, RunInv, S!Pcs, S!Statuses, S!Runs, S!NoRun, S!Reset
  <2>2. RunInv'
    BY SMTT(60), Z3T(60), <1>12 DEF SuspendInv, S!TypeOK, RunInv, WorkInv, S!Runs, S!NoRun, S!Reset
  <2>3. HolderInv'
    BY SMTT(60), Z3T(60), <1>12 DEF SuspendInv, S!TypeOK, RunInv, HolderInv, S!Runs, S!NoRun, S!Reset
  <2>4. MuInv'
    BY <1>12 DEF SuspendInv, S!TypeOK, MuInv, S!Reset
  <2>5. WorkInv'
    BY SMTT(60), Z3T(60), <1>12 DEF SuspendInv, S!TypeOK, RunInv, MuInv, WorkInv, S!Runs, S!NoRun, S!Reset
  <2>6. BlockedInv'
    BY SMTT(60), Z3T(60), <1>12 DEF SuspendInv, S!TypeOK, RunInv, WorkInv, BlockedInv, S!Runs, S!NoRun, S!Reset
  <2> QED BY <2>1, <2>2, <2>3, <2>4, <2>5, <2>6 DEF SuspendInv
<1>13. CASE UNCHANGED S!vars
  BY SMTT(60), Z3T(60), <1>13 DEF SuspendInv, S!TypeOK, RunInv, HolderInv, MuInv, WorkInv, BlockedInv, S!vars
<1> QED BY <1>1, <1>2, <1>3, <1>4, <1>5, <1>6, <1>7, <1>8, <1>9, <1>10, <1>11, <1>12, <1>13 DEF S!Next, S!Step
-----------------------------------------------------------------------------
(* The invariant holds in every reachable state.                            *)
THEOREM SuspendInvariance == S!Spec => []SuspendInv
<1>1. S!Init => SuspendInv
  BY SuspendAssumption, SuspendInit
<1>2. SuspendInv /\ [S!Next]_S!vars => SuspendInv'
  BY SuspendAssumption, SuspendNext
<1> QED BY <1>1, <1>2, PTL DEF S!Spec

(* Of the goroutines that need a job done one works at a time, its Done     *)
(* finds the entry, and the others proceed only when the run that stopped   *)
(* them is done; the mutex of a run has one holder.                         *)
THEOREM OneWorksOthersWait == S!Spec => []OneWorkerFirst
<1>1. SuspendInv => S!Consistent
  BY DEF SuspendInv, HolderInv, S!Consistent
<1>2. SuspendInv => S!OneWorker
  BY DEF SuspendInv, WorkInv, AtWork, S!OneWorker
<1>3. SuspendInv => S!ProceedsAfterDone
  BY DEF SuspendInv, BlockedInv, S!ProceedsAfterDone
<1> QED BY <1>1, <1>2, <1>3, SuspendInvariance, PTL DEF OneWorkerFirst, S!OneWorkerFirst
-----------------------------------------------------------------------------
(***************************************************************************)
(* email.Daemon, for any set of senders, workers and stoppers, any         *)
(* capacity of the channel and any number of mails.                        *)
(***************************************************************************)
CONSTANTS Senders, Workers, Stoppers, Capacities, MaxSends
VARIABLES capacity, direct, closed, chOpen, buf, epc, count, worker, tried, lost, raced, panicked
E == INSTANCE EmailDaemon WITH pc <- epc

Mails == Senders \X Nat
MailTypes ==
  /\ direct \in BOOLEAN /\ buf \in Seq(Mails) /\ count \in [Senders -> Nat]
  /\ epc \in [Senders \cup Stoppers -> {"idle", "sending", "closing", "flag", "panic"}]
  /\ worker \in [Workers -> [pc : {"start", "select", "got", "failed", "ended"}, mail : Mails \cup {E!NoMail}, open : BOOLEAN]]
  /\ tried \subseteq Mails /\ lost \subseteq Mails

(* A worker has a mail from the receive to the Dial or to the server.       *)
GotInv == \A w \in Workers : worker[w].mail # E!NoMail <=> worker[w].pc = "got"

(* The mails of the daemon are those that Send has accepted.                *)
Sent(x) == x[2] >= 1 /\ (x[2] < count[x[1]] \/ (x[2] = count[x[1]] /\ epc[x[1]] = "idle"))
In(x) == (\E w \in Workers : worker[w].mail = x) \/ (\E i \in DOMAIN buf : buf[i] = x) \/ x \in tried \/ x \in lost
SentInv == \A x \in Mails : In(x) <=> Sent(x)

SendingInv == \A p \in Senders : epc[p] = "sending" => count[p] >= 1

(* A mail is in one place.                                                  *)
PlaceInv ==
  /\ \A i, j \in DOMAIN buf : buf[i] = buf[j] => i = j
  /\ \A v, w \in Workers : worker[v].mail = worker[w].mail => v = w \/ worker[v].mail = E!NoMail
  /\ \A w \in Workers, i \in DOMAIN buf : worker[w].mail # buf[i]
  /\ \A w \in Workers : worker[w].mail \notin tried /\ worker[w].mail \notin lost
  /\ \A i \in DOMAIN buf : buf[i] \notin tried /\ buf[i] \notin lost
  /\ \A x \in tried : x \notin lost

(* The channel is closed by a Stop that sets the flag afterwards.  A Send   *)
(* that waits, and a Stop that is about to close the channel, while another *)
(* Stop is under way has met it.                                            *)
StopInv ==
  /\ \A p \in Senders \cup Stoppers : epc[p] = "panic" => p \in raced
  /\ ~chOpen => closed \/ \E q \in Stoppers : epc[q] = "flag"
  /\ \A p \in Senders : epc[p] = "sending" /\ (~chOpen \/ E!Stopping) => p \in raced
  /\ \A q \in Stoppers : epc[q] = "closing" /\ ~chOpen => q \in raced
  /\ \A q, r \in Stoppers : q # r /\ epc[q] # "idle" /\ epc[r] # "idle" => Stoppers \subseteq raced
  /\ \A p \in Senders : epc[p] \in {"idle", "sending", "panic"}
  /\ \A q \in Stoppers : epc[q] # "sending"

MailInv == MailTypes /\ GotInv /\ SentInv /\ PlaceInv /\ StopInv /\ SendingInv

LEMMA NotAMail == E!NoMail \notin Mails
  BY DEF E!NoMail, Mails

(* Steps that move no mail and accept none.                                 *)
LEMMA NoneMoves ==
  ASSUME GotInv, SentInv, PlaceInv, UNCHANGED <<buf, tried, lost>>,
         \A w \in Workers : worker'[w].mail = worker[w].mail /\ (worker'[w].pc = "got" <=> worker[w].pc = "got"),
         \A x \in Mails : Sent(x)' <=> Sent(x)
  PROVE  GotInv' /\ SentInv' /\ PlaceInv'
<1>1. GotInv'
  BY DEF GotInv
<1>2. SentInv'
  BY DEF SentInv, In
<1>3. PlaceInv'
  BY SMTT(30), ZenonT(90) DEF PlaceInv
<1> QED BY <1>1, <1>2, <1>3

(* A mail comes in.                                                         *)
LEMMA OneEnters ==
  ASSUME MailTypes, MailTypes', GotInv, SentInv, PlaceInv, NEW y \in Mails, ~Sent(y),
         \A x \in Mails : Sent(x)' <=> Sent(x) \/ x = y,
         UNCHANGED <<tried, lost>>,
         \/ worker' = worker /\ buf' = Append(buf, y)
         \/ /\ buf' = buf
            /\ \E w \in Workers : /\ worker[w].pc # "got" /\ worker'[w].pc = "got" /\ worker'[w].mail = y
                                  /\ \A v \in Workers : v # w => worker'[v] = worker[v]
  PROVE  GotInv' /\ SentInv' /\ PlaceInv'
<1>1. ~In(y)
  BY DEF SentInv
<1>2. CASE worker' = worker /\ buf' = Append(buf, y)
  <2>1. /\ Len(buf) \in Nat /\ DOMAIN buf = 1..Len(buf) /\ DOMAIN buf' = 1..(Len(buf) + 1) /\ buf'[Len(buf) + 1] = y
        /\ \A i \in DOMAIN buf : buf'[i] = buf[i]
    BY SMTT(60), Z3T(60), <1>2 DEF MailTypes
  <2>2. \A i \in DOMAIN buf' : i \in DOMAIN buf \/ (i = Len(buf) + 1 /\ i \notin DOMAIN buf)
    BY <2>1
  <2>3. \A i \in DOMAIN buf : i \in DOMAIN buf'
    BY <2>1
  <2>4. Len(buf) + 1 \in DOMAIN buf'
    BY <2>1
  <2>5. \A i \in DOMAIN buf' : (i \in DOMAIN buf /\ buf'[i] = buf[i]) \/ (i \notin DOMAIN buf /\ buf'[i] = y)
    <3>1. ASSUME NEW i \in DOMAIN buf' PROVE (i \in DOMAIN buf /\ buf'[i] = buf[i]) \/ (i \notin DOMAIN buf /\ buf'[i] = y)
      BY <2>1, <2>2
    <3> QED BY <3>1
  <2>6. \A x : (\E i \in DOMAIN buf' : buf'[i] = x) <=> (\E i \in DOMAIN buf : buf[i] = x) \/ x = y
    BY <2>1, <2>3, <2>4, <2>5
  <2>7. GotInv'
    BY <1>2 DEF GotInv
  <2>8. SentInv'
    BY <1>2, <2>6 DEF SentInv, In
  <2>9. PlaceInv'
    <3>1. \A i, j \in DOMAIN buf' : buf'[i] = buf'[j] => i = j
      BY <1>1, <2>2, <2>1 DEF PlaceInv, In
    <3>2. \A w \in Workers, i \in DOMAIN buf' : worker'[w].mail # buf'[i]
      BY SMTT(30), ZenonT(90), <1>1, <1>2, <2>5 DEF PlaceInv, In
    <3>3. \A i \in DOMAIN buf' : buf'[i] \notin tried' /\ buf'[i] \notin lost'
      BY <1>1, <2>5 DEF PlaceInv, In
    <3> QED BY <1>2, <3>1, <3>2, <3>3 DEF PlaceInv
  <2> QED BY <2>7, <2>8, <2>9
<1>3. ASSUME buf' = buf, NEW w \in Workers, worker[w].pc # "got", worker'[w].pc = "got", worker'[w].mail = y,
             \A v \in Workers : v # w => worker'[v] = worker[v]
      PROVE  GotInv' /\ SentInv' /\ PlaceInv'
  <2>1. y # E!NoMail /\ worker[w].mail = E!NoMail
    BY <1>3, NotAMail DEF GotInv
  <2>2. GotInv'
    BY <1>3, <2>1 DEF GotInv
  <2>3. \A x \in Mails : (\E v \in Workers : worker'[v].mail = x) <=> (\E v \in Workers : worker[v].mail = x) \/ x = y
    BY <1>3, <2>1, NotAMail
  <2>4. SentInv'
    BY <1>3, <2>3 DEF SentInv, In
  <2>5. PlaceInv'
    <3>1. \A v, u \in Workers : worker'[v].mail = worker'[u].mail => v = u \/ worker'[v].mail = E!NoMail
      BY SMTT(60), Z3T(60), <1>1, <1>3 DEF PlaceInv, In
    <3>2. \A v \in Workers, i \in DOMAIN buf' : worker'[v].mail # buf'[i]
      BY SMTT(60), Z3T(60), <1>1, <1>3 DEF PlaceInv, In
    <3>3. \A v \in Workers : worker'[v].mail \notin tried' /\ worker'[v].mail \notin lost'
      BY <1>1, <1>3 DEF PlaceInv, In
    <3> QED BY <1>3, <3>1, <3>2, <3>3 DEF PlaceInv
  <2> QED BY <2>2, <2>4, <2>5
<1> QED BY <1>2, <1>3

(* The head of the channel goes to a worker.                                *)
LEMMA HeadMoves ==
  ASSUME MailTypes, GotInv, SentInv, PlaceInv, buf # <<>>, buf' = Tail(buf), UNCHANGED <<tried, lost>>,
         \A x \in Mails : Sent(x)' <=> Sent(x),
         NEW w \in Workers, worker[w].pc # "got", worker'[w].pc = "got", worker'[w].mail = Head(buf),
         \A v \in Workers : v # w => worker'[v] = worker[v]
  PROVE  GotInv' /\ SentInv' /\ PlaceInv'
<1> DEFINE y == Head(buf)
<1>1. /\ y \in Mails /\ y = buf[1] /\ 1 \in DOMAIN buf /\ Len(buf) \in Nat /\ Len(buf) >= 1 /\ DOMAIN buf = 1..Len(buf)
      /\ DOMAIN buf' = 1..(Len(buf) - 1) /\ \A i \in 1..(Len(buf) - 1) : buf'[i] = buf[i + 1]
  BY SMTT(60), Z3T(60) DEF MailTypes
<1>2. worker'[w].mail = y
  OBVIOUS
<1> HIDE DEF y
<1>3. y # E!NoMail /\ worker[w].mail = E!NoMail
  BY <1>1, NotAMail DEF GotInv
<1>4. GotInv'
  BY <1>2, <1>3 DEF GotInv
<1>5. \A i \in DOMAIN buf' : i + 1 \in DOMAIN buf /\ i + 1 # 1 /\ buf'[i] = buf[i + 1]
  BY SMTT(60), Z3T(60), <1>1
<1>6. \A i \in DOMAIN buf : i = 1 \/ (i - 1 \in DOMAIN buf' /\ buf'[i - 1] = buf[i])
  <2>1. ASSUME NEW i \in DOMAIN buf, i # 1 PROVE i - 1 \in 1..(Len(buf) - 1) /\ (i - 1) + 1 = i
    BY SMTT(60), Z3T(60), <1>1, <2>1
  <2> QED BY <1>1, <2>1
<1>7. \A i \in DOMAIN buf' : buf'[i] # y
  BY SMTT(60), Z3T(60), <1>1, <1>5 DEF PlaceInv
<1>8. \A x \in Mails : (\E v \in Workers : worker'[v].mail = x) <=> (\E v \in Workers : worker[v].mail = x) \/ x = y
  BY <1>2, <1>3, NotAMail
<1>9. \A x \in Mails : (\E i \in DOMAIN buf : buf[i] = x) <=> (\E i \in DOMAIN buf' : buf'[i] = x) \/ x = y
  <2>1. ASSUME NEW x \in Mails, NEW i \in DOMAIN buf, buf[i] = x PROVE (\E j \in DOMAIN buf' : buf'[j] = x) \/ x = y
    BY <1>1, <1>6, <2>1
  <2>2. ASSUME NEW x \in Mails, NEW i \in DOMAIN buf', buf'[i] = x PROVE \E j \in DOMAIN buf : buf[j] = x
    BY <1>5, <2>2
  <2>3. ASSUME NEW x \in Mails, x = y PROVE \E j \in DOMAIN buf : buf[j] = x
    BY <1>1, <2>3
  <2> QED BY <2>1, <2>2, <2>3
<1>10. SentInv'
  BY <1>8, <1>9 DEF SentInv, In
<1>11. PlaceInv'
  <2>1. \A i, j \in DOMAIN buf' : buf'[i] = buf'[j] => i = j
    <3>1. ASSUME NEW i \in DOMAIN buf', NEW j \in DOMAIN buf', buf'[i] = buf'[j] PROVE i + 1 = j + 1 /\ i \in Nat /\ j \in Nat
      BY SMTT(60), Z3T(60), <1>1, <1>5, <3>1 DEF PlaceInv
    <3> QED BY SMTT(60), Z3T(60), <3>1
  <2>2. \A v, u \in Workers : worker'[v].mail = worker'[u].mail => v = u \/ worker'[v].mail = E!NoMail
    BY SMTT(60), Z3T(60), <1>1, <1>2 DEF PlaceInv
  <2>3. \A v \in Workers, i \in DOMAIN buf' : worker'[v].mail # buf'[i]
    BY SMTT(60), Z3T(60), <1>2, <1>5, <1>7 DEF PlaceInv
  <2>4. \A v \in Workers : worker'[v].mail \notin tried' /\ worker'[v].mail \notin lost'
    BY <1>1, <1>2 DEF PlaceInv
  <2>5. \A i \in DOMAIN buf' : buf'[i] \notin tried' /\ buf'[i] \notin lost'
    BY <1>5 DEF PlaceInv
  <2> QED BY <2>1, <2>2, <2>3, <2>4, <2>5 DEF PlaceInv
<1> QED BY <1>4, <1>10, <1>11

(* The mail of a worker goes to the server, or is lost.                     *)
LEMMA OneLeaves ==
  ASSUME MailTypes, GotInv, SentInv, PlaceInv, buf' = buf, \A x \in Mails : Sent(x)' <=> Sent(x),
         NEW w \in Workers, worker[w].pc = "got", worker'[w].pc # "got", worker'[w].mail = E!NoMail,
         \A v \in Workers : v # w => worker'[v] = worker[v],
         \/ tried' = tried \cup {worker[w].mail} /\ lost' = lost
         \/ tried' = tried /\ lost' = lost \cup {worker[w].mail}
  PROVE  GotInv' /\ SentInv' /\ PlaceInv'
<1> DEFINE y == worker[w].mail
<1>1. y # E!NoMail /\ y \in Mails
  BY DEF GotInv, MailTypes
<1>2. GotInv'
  BY DEF GotInv
<1>3. \A x \in Mails : (\E v \in Workers : worker[v].mail = x) <=> (\E v \in Workers : worker'[v].mail = x) \/ x = y
  BY NotAMail
<1>4. \A x : x \in tried' \/ x \in lost' <=> x \in tried \/ x \in lost \/ x = y
  OBVIOUS
<1>5. SentInv'
  BY <1>3, <1>4 DEF SentInv, In
<1>6. \A v \in Workers : worker'[v].mail # y /\ (v # w => worker'[v].mail = worker[v].mail)
  BY <1>1 DEF PlaceInv
<1>7. \A i \in DOMAIN buf : buf[i] # y
  BY DEF PlaceInv
<1>8. E!NoMail \notin tried /\ E!NoMail \notin lost /\ \A i \in DOMAIN buf : buf[i] # E!NoMail
  BY SMTT(60), Z3T(60), NotAMail DEF MailTypes
<1>9. PlaceInv'
  <2>1. \A v, u \in Workers : worker'[v].mail = worker'[u].mail => v = u \/ worker'[v].mail = E!NoMail
    BY SMTT(30), ZenonT(90), <1>6 DEF PlaceInv
  <2>2. \A v \in Workers, i \in DOMAIN buf' : worker'[v].mail # buf'[i]
    BY SMTT(30), ZenonT(90), <1>6, <1>8 DEF PlaceInv
  <2>3. \A v \in Workers : worker'[v].mail \notin tried' /\ worker'[v].mail \notin lost'
    BY <1>4, <1>6, <1>8 DEF PlaceInv
  <2>4. \A i \in DOMAIN buf' : buf'[i] \notin tried' /\ buf'[i] \notin lost'
    BY <1>4, <1>7 DEF PlaceInv
  <2>5. \A x \in tried' : x \notin lost'
    BY DEF PlaceInv
  <2> QED BY <2>1, <2>2, <2>3, <2>4, <2>5 DEF PlaceInv
<1> QED BY <1>2, <1>5, <1>9

LEMMA StopStays ==
  ASSUME StopInv, UNCHANGED <<epc, chOpen, raced>>, closed => closed' PROVE StopInv'
  BY DEF StopInv, E!Stopping

(* What a Send changes for those who call Stop: nothing.                    *)
LEMMA SenderMoves ==
  ASSUME MailTypes, Senders \cap Stoppers = {}, NEW p \in Senders, NEW l, epc' = [epc EXCEPT ![p] = l]
  PROVE  /\ epc'[p] = l /\ (\A r \in Senders : r # p => epc'[r] = epc[r])
         /\ (\A q \in Stoppers : epc'[q] = epc[q]) /\ (E!Stopping' <=> E!Stopping)
<1>1. epc'[p] = l /\ \A r \in Senders \cup Stoppers : r # p => epc'[r] = epc[r]
  BY DEF MailTypes
<1>2. \A q \in Stoppers : epc'[q] = epc[q]
  BY <1>1
<1> QED BY <1>1, <1>2 DEF E!Stopping

(* The mail of a Send leaves it.                                            *)
LEMMA SendEnds ==
  ASSUME MailInv, Senders \cap Stoppers = {}, NEW p \in Senders, epc[p] = "sending", epc' = [epc EXCEPT ![p] = "idle"],
         UNCHANGED <<closed, chOpen, raced, count>>
  PROVE  StopInv' /\ E!Mail(p) \in Mails /\ ~Sent(E!Mail(p)) /\ \A x \in Mails : Sent(x)' <=> Sent(x) \/ x = E!Mail(p)
<1>1. MailTypes /\ StopInv /\ SentInv /\ SendingInv
  BY DEF MailInv
<1>2. /\ epc'[p] = "idle" /\ (\A r \in Senders : r # p => epc'[r] = epc[r])
      /\ (\A q \in Stoppers : epc'[q] = epc[q]) /\ (E!Stopping' <=> E!Stopping)
  BY <1>1, SenderMoves
<1>3. StopInv'
  BY <1>1, <1>2 DEF StopInv
<1>4. E!Mail(p) = <<p, count[p]>> /\ count[p] \in Nat /\ E!Mail(p) \in Mails
  BY <1>1 DEF MailTypes, Mails, E!Mail
<1>5. ~Sent(E!Mail(p))
  BY <1>4 DEF Sent
<1>6. count[p] >= 1
  BY <1>1 DEF SendingInv
<1>7. ASSUME NEW x \in Mails PROVE Sent(x)' <=> Sent(x) \/ x = E!Mail(p)
  <2>1. x[1] \in Senders /\ x[2] \in Nat /\ x = <<x[1], x[2]>>
    BY DEF Mails
  <2>2. CASE x[1] = p
    <3>1. x = E!Mail(p) <=> x[2] = count[p]
      BY <1>4, <2>1, <2>2
    <3> QED BY <1>2, <1>4, <1>6, <2>1, <2>2, <3>1 DEF Sent
  <2>3. CASE x[1] # p
    BY SMTT(60), Z3T(60), <1>2, <1>4, <2>1, <2>3 DEF Sent
  <2> QED BY <2>2, <2>3
<1> QED BY <1>3, <1>4, <1>5, <1>7

LEMMA SendInv ==
  ASSUME MailInv, MailTypes', Senders \cap Stoppers = {}, NEW p \in Senders, E!Send(p) PROVE MailInv'
<1>1. /\ epc[p] = "idle" /\ UNCHANGED <<closed, chOpen, buf, worker, tried, lost>>
      /\ IF closed THEN UNCHANGED <<epc, count, raced>>
         ELSE /\ epc' = [epc EXCEPT ![p] = "sending"] /\ count' = [count EXCEPT ![p] = @ + 1]
              /\ raced' = IF E!Stopping THEN raced \cup {p} ELSE raced \ {p}
  BY DEF E!Send, E!Goto, E!channel
<1>2. MailTypes /\ GotInv /\ SentInv /\ PlaceInv /\ StopInv /\ SendingInv
  BY DEF MailInv
<1>3. CASE closed
  <2>1. UNCHANGED <<epc, count, raced>>
    BY <1>1, <1>3
  <2>2. StopInv' /\ SendingInv' /\ \A x \in Mails : Sent(x)' <=> Sent(x)
    BY <1>1, <1>2, <2>1, StopStays DEF Sent, SendingInv
  <2> QED BY <1>1, <1>2, <2>2, NoneMoves DEF MailInv
<1>4. CASE ~closed
  <2>1. /\ epc' = [epc EXCEPT ![p] = "sending"] /\ count' = [count EXCEPT ![p] = @ + 1]
        /\ raced' = IF E!Stopping THEN raced \cup {p} ELSE raced \ {p}
    BY <1>1, <1>4
  <2>2. /\ epc'[p] = "sending" /\ (\A r \in Senders : r # p => epc'[r] = epc[r])
        /\ (\A q \in Stoppers : epc'[q] = epc[q]) /\ (E!Stopping' <=> E!Stopping)
    BY <1>2, <2>1, SenderMoves
  <2>3. count[p] \in Nat /\ count'[p] = count[p] + 1 /\ \A r \in Senders : count[r] \in Nat /\ (r # p => count'[r] = count[r])
    BY <1>2, <2>1 DEF MailTypes
  <2>4. ASSUME NEW x \in Mails PROVE Sent(x)' <=> Sent(x)
    <3>1. x[1] \in Senders /\ x[2] \in Nat
      BY DEF Mails
    <3>2. CASE x[1] = p
      BY SMTT(60), Z3T(60), <1>1, <2>2, <2>3, <3>1, <3>2 DEF Sent
    <3>3. CASE x[1] # p
      BY <2>2, <2>3, <3>1, <3>3 DEF Sent
    <3> QED BY <3>2, <3>3
  <2>5. SendingInv'
    BY SMTT(60), Z3T(60), <1>2, <2>2, <2>3 DEF SendingInv
  <2>6. StopInv'
    <3>1. ~chOpen => E!Stopping
      BY <1>2, <1>4 DEF StopInv, E!Stopping
    <3>2. (\A r \in Senders \cup Stoppers : r # p /\ r \in raced => r \in raced') /\ (E!Stopping => p \in raced')
      BY <2>1
    <3>3. \A q \in Stoppers : q # p
      OBVIOUS
    <3>4. \A r \in Senders \cup Stoppers : epc'[r] = "panic" => r \in raced'
      BY <1>2, <2>2, <3>2, <3>3 DEF StopInv
    <3>5. \A r \in Senders : epc'[r] = "sending" /\ (~chOpen' \/ E!Stopping') => r \in raced'
      BY <1>1, <1>2, <2>2, <3>1, <3>2 DEF StopInv
    <3>6. \A q, r \in Stoppers : q # r /\ epc'[q] # "idle" /\ epc'[r] # "idle" => Stoppers \subseteq raced'
      BY <1>2, <2>2, <3>2, <3>3 DEF StopInv
    <3>7. \A q \in Stoppers : epc'[q] = "closing" /\ ~chOpen' => q \in raced'
      BY <1>1, <1>2, <2>2, <3>2, <3>3 DEF StopInv
    <3> QED BY <1>1, <1>2, <2>2, <3>4, <3>5, <3>6, <3>7 DEF StopInv
  <2> QED BY <1>1, <1>2, <2>4, <2>5, <2>6, NoneMoves DEF MailInv
<1> QED BY <1>3, <1>4

LEMMA EnqueueInv ==
  ASSUME MailInv, MailTypes', Senders \cap Stoppers = {}, NEW p \in Senders,
         E!Enqueue(p) \/ \E w \in Workers : E!HandOver(p, w)
  PROVE  MailInv'
<1>1. MailTypes /\ GotInv /\ SentInv /\ PlaceInv /\ StopInv /\ SendingInv
  BY DEF MailInv
<1>2. /\ epc[p] = "sending" /\ epc' = [epc EXCEPT ![p] = "idle"] /\ UNCHANGED <<closed, chOpen, raced, count, tried, lost>>
      /\ \/ buf' = Append(buf, E!Mail(p)) /\ worker' = worker
         \/ \E w \in Workers : /\ buf' = buf /\ worker[w].pc = "select"
                               /\ worker' = [worker EXCEPT ![w].pc = "got", ![w].mail = E!Mail(p)]
  BY DEF E!Enqueue, E!HandOver, E!Goto, E!channel
<1>3. StopInv' /\ E!Mail(p) \in Mails /\ ~Sent(E!Mail(p)) /\ \A x \in Mails : Sent(x)' <=> Sent(x) \/ x = E!Mail(p)
  BY <1>2, SendEnds
<1>4. ASSUME NEW w \in Workers, worker' = [worker EXCEPT ![w].pc = "got", ![w].mail = E!Mail(p)]
      PROVE  worker'[w].pc = "got" /\ worker'[w].mail = E!Mail(p) /\ \A v \in Workers : v # w => worker'[v] = worker[v]
  BY <1>1, <1>4 DEF MailTypes
<1>5. GotInv' /\ SentInv' /\ PlaceInv'
  <2>1. CASE buf' = Append(buf, E!Mail(p)) /\ worker' = worker
    BY <1>1, <1>2, <1>3, <2>1, OneEnters
  <2>2. ASSUME NEW w \in Workers, buf' = buf, worker[w].pc = "select",
               worker' = [worker EXCEPT ![w].pc = "got", ![w].mail = E!Mail(p)]
        PROVE  GotInv' /\ SentInv' /\ PlaceInv'
    <3>1. worker'[w].pc = "got" /\ worker'[w].mail = E!Mail(p) /\ \A v \in Workers : v # w => worker'[v] = worker[v]
      BY <1>4, <2>2
    <3> QED BY <1>1, <1>2, <1>3, <2>2, <3>1, OneEnters
  <2> QED BY <1>2, <2>1, <2>2
<1>6. SendingInv'
  BY <1>1, <1>2, SenderMoves DEF SendingInv
<1> QED BY <1>3, <1>5, <1>6 DEF MailInv

LEMMA SendPanicsInv ==
  ASSUME MailInv, MailTypes', Senders \cap Stoppers = {}, NEW p \in Senders, E!SendPanics(p) PROVE MailInv'
<1>1. MailTypes /\ GotInv /\ SentInv /\ PlaceInv /\ StopInv /\ SendingInv
  BY DEF MailInv
<1>2. /\ epc[p] = "sending" /\ ~chOpen /\ epc' = [epc EXCEPT ![p] = "panic"]
      /\ UNCHANGED <<closed, chOpen, buf, worker, raced, count, tried, lost>>
  BY DEF E!SendPanics, E!Goto, E!channel
<1>3. /\ epc'[p] = "panic" /\ (\A r \in Senders : r # p => epc'[r] = epc[r])
      /\ (\A q \in Stoppers : epc'[q] = epc[q]) /\ (E!Stopping' <=> E!Stopping)
  BY <1>1, <1>2, SenderMoves
<1>4. StopInv'
  BY <1>1, <1>2, <1>3 DEF StopInv
<1>5. SendingInv'
  BY <1>1, <1>2, <1>3 DEF SendingInv
<1>6. ASSUME NEW x \in Mails PROVE Sent(x)' <=> Sent(x)
  <2>1. x[1] \in Senders
    BY DEF Mails
  <2> QED BY <1>2, <1>3, <2>1 DEF Sent
<1> QED BY <1>1, <1>2, <1>4, <1>5, <1>6, NoneMoves DEF MailInv

LEMMA SentStays ==
  ASSUME UNCHANGED <<epc, count>> PROVE (\A x \in Mails : Sent(x)' <=> Sent(x)) /\ (SendingInv => SendingInv')
  BY DEF Sent, SendingInv

LEMMA WorkerInv ==
  ASSUME MailInv, MailTypes', NEW w \in Workers, E!WorkerStep(w) \/ E!Timeout(w) PROVE MailInv'
<1>1. MailTypes /\ GotInv /\ SentInv /\ PlaceInv /\ StopInv /\ SendingInv
  BY DEF MailInv
<1>2. UNCHANGED <<epc, count, chOpen, raced>> /\ (closed => closed')
  BY SMTT(60), Z3T(60) DEF E!WorkerStep, E!Start, E!Receive, E!ChannelClosed, E!DialFails, E!Deliver, E!Timeout, E!channel
<1>3. StopInv' /\ SendingInv' /\ \A x \in Mails : Sent(x)' <=> Sent(x)
  BY <1>1, <1>2, StopStays, SentStays
<1>4. CASE E!Start(w) \/ E!ChannelClosed(w) \/ E!Timeout(w)
  <2>1. UNCHANGED <<buf, tried, lost>> /\ worker[w].pc # "got"
    BY <1>4 DEF E!Start, E!ChannelClosed, E!Timeout, E!channel
  <2>2. worker[w].mail = E!NoMail
    BY <1>1, <2>1 DEF GotInv
  <2>3. worker'[w].mail = E!NoMail /\ worker'[w].pc # "got" /\ \A v \in Workers : v # w => worker'[v] = worker[v]
    <3>1. CASE E!Start(w) \/ E!ChannelClosed(w)
      BY SMTT(30), ZenonT(90), <1>1, <2>2, <3>1 DEF E!Start, E!ChannelClosed, MailTypes
    <3>2. CASE E!Timeout(w)
      BY SMTT(60), Z3T(60), <1>1, <3>2 DEF E!Timeout, MailTypes
    <3> QED BY <1>4, <3>1, <3>2
  <2>4. \A v \in Workers : worker'[v].mail = worker[v].mail /\ (worker'[v].pc = "got" <=> worker[v].pc = "got")
    BY <2>1, <2>2, <2>3
  <2> QED BY <1>1, <1>3, <2>1, <2>4, NoneMoves DEF MailInv
<1>5. CASE E!Receive(w)
  <2>1. /\ worker[w].pc = "select" /\ buf # <<>> /\ worker' = [worker EXCEPT ![w].pc = "got", ![w].mail = Head(buf)]
        /\ buf' = Tail(buf) /\ UNCHANGED <<tried, lost>>
    BY <1>5 DEF E!Receive
  <2>2. worker'[w].pc = "got" /\ worker'[w].mail = Head(buf) /\ \A v \in Workers : v # w => worker'[v] = worker[v]
    BY <1>1, <2>1 DEF MailTypes
  <2> QED BY <1>1, <1>3, <2>1, <2>2, HeadMoves DEF MailInv
<1>6. CASE E!DialFails(w) \/ E!Deliver(w)
  <2>1. /\ worker[w].pc = "got" /\ buf' = buf
        /\ \/ tried' = tried \cup {worker[w].mail} /\ lost' = lost
           \/ tried' = tried /\ lost' = lost \cup {worker[w].mail}
    BY <1>6 DEF E!DialFails, E!Deliver, E!channel
  <2>2. worker'[w].pc # "got" /\ worker'[w].mail = E!NoMail /\ \A v \in Workers : v # w => worker'[v] = worker[v]
    BY SMTT(60), Z3T(60), <1>1, <1>6 DEF MailTypes, E!DialFails, E!Deliver
  <2> QED BY <1>1, <1>3, <2>1, <2>2, OneLeaves DEF MailInv
<1> QED BY <1>4, <1>5, <1>6 DEF E!WorkerStep

(* A step of Stop moves no mail.                                            *)
LEMMA StopperMoves ==
  ASSUME MailInv, Senders \cap Stoppers = {}, NEW q \in Stoppers, NEW l, epc' = [epc EXCEPT ![q] = l],
         UNCHANGED <<buf, worker, tried, lost, count>>
  PROVE  /\ epc'[q] = l /\ (\A r \in Stoppers : r # q => epc'[r] = epc[r]) /\ (\A p \in Senders : epc'[p] = epc[p])
         /\ GotInv' /\ SentInv' /\ PlaceInv' /\ SendingInv'
<1>1. MailTypes /\ GotInv /\ SentInv /\ PlaceInv /\ SendingInv
  BY DEF MailInv
<1>2. epc'[q] = l /\ \A r \in Senders \cup Stoppers : r # q => epc'[r] = epc[r]
  BY <1>1 DEF MailTypes
<1>3. \A p \in Senders : epc'[p] = epc[p]
  BY <1>2
<1>4. ASSUME NEW x \in Mails PROVE Sent(x)' <=> Sent(x)
  <2>1. x[1] \in Senders
    BY DEF Mails
  <2> QED BY <1>3, <2>1 DEF Sent
<1>5. SendingInv'
  BY <1>1, <1>3 DEF SendingInv
<1> QED BY <1>1, <1>2, <1>3, <1>4, <1>5, NoneMoves

LEMMA StopStepInv ==
  ASSUME MailInv, MailTypes', Senders \cap Stoppers = {}, NEW q \in Stoppers, E!Stop(q) \/ E!CloseChannel(q) \/ E!SetClosed(q)
  PROVE  MailInv'
<1>1. StopInv
  BY DEF MailInv
<1>2. CASE E!Stop(q)
  <2>1. /\ epc[q] = "idle" /\ ~closed /\ epc' = [epc EXCEPT ![q] = "closing"] /\ UNCHANGED <<closed, chOpen, buf, worker, tried, lost, count>>
        /\ raced' = raced \cup {p \in Senders : epc[p] = "sending"} \cup (IF E!Stopping THEN Stoppers ELSE {})
    BY <1>2 DEF E!Stop, E!Goto, E!channel
  <2>2. /\ epc'[q] = "closing" /\ (\A r \in Stoppers : r # q => epc'[r] = epc[r]) /\ (\A p \in Senders : epc'[p] = epc[p])
        /\ GotInv' /\ SentInv' /\ PlaceInv' /\ SendingInv'
    BY <2>1, StopperMoves
  <2>3. raced \subseteq raced' /\ (\A p \in Senders : epc[p] = "sending" => p \in raced') /\ (E!Stopping => Stoppers \subseteq raced')
    BY <2>1
  <2>4. ~chOpen => E!Stopping
    BY <1>1, <2>1 DEF StopInv, E!Stopping
  <2>5. \A p \in Senders \cup Stoppers : epc'[p] = "panic" => p \in raced'
    BY <1>1, <2>2, <2>3 DEF StopInv
  <2>6. ~chOpen' => closed' \/ \E r \in Stoppers : epc'[r] = "flag"
    BY <1>1, <2>1, <2>2 DEF StopInv
  <2>7. \A r \in Stoppers : epc'[r] = "closing" /\ ~chOpen' => r \in raced'
    BY <2>1, <2>3, <2>4
  <2>8. ASSUME NEW r \in Stoppers, NEW s \in Stoppers, r # s, epc'[r] # "idle", epc'[s] # "idle" PROVE Stoppers \subseteq raced'
    <3>1. PICK o \in Stoppers : o # q /\ epc'[o] # "idle"
      BY <2>8
    <3>2. E!Stopping
      BY <2>2, <3>1 DEF E!Stopping
    <3> QED BY <2>3, <3>2
  <2>9. StopInv'
    BY <1>1, <2>2, <2>3, <2>5, <2>6, <2>7, <2>8 DEF StopInv
  <2> QED BY <2>2, <2>9 DEF MailInv
<1>3. CASE E!CloseChannel(q)
  <2>1. /\ epc[q] = "closing" /\ chOpen' = FALSE /\ UNCHANGED <<closed, buf, worker, tried, lost, count, raced>>
        /\ IF chOpen THEN epc' = [epc EXCEPT ![q] = "flag"] ELSE epc' = [epc EXCEPT ![q] = "panic"]
    BY <1>3 DEF E!CloseChannel, E!Goto
  <2>2. PICK l : /\ epc' = [epc EXCEPT ![q] = l] /\ (chOpen => l = "flag") /\ (~chOpen => l = "panic")
    BY <2>1
  <2>3. /\ epc'[q] = l /\ (\A r \in Stoppers : r # q => epc'[r] = epc[r]) /\ (\A p \in Senders : epc'[p] = epc[p])
        /\ GotInv' /\ SentInv' /\ PlaceInv' /\ SendingInv'
    BY <2>1, <2>2, StopperMoves
  <2>4. E!Stopping
    BY <2>1 DEF E!Stopping
  <2>5. \A p \in Senders \cup Stoppers : epc'[p] = "panic" => p \in raced'
    BY <1>1, <2>1, <2>2, <2>3 DEF StopInv
  <2>6. closed' \/ \E r \in Stoppers : epc'[r] = "flag"
    BY <1>1, <2>1, <2>2, <2>3 DEF StopInv
  <2>7. \A p \in Senders : epc'[p] = "sending" => p \in raced'
    BY <1>1, <2>1, <2>3, <2>4 DEF StopInv
  <2>8. ASSUME NEW r \in Stoppers, epc'[r] = "closing" PROVE r \in raced'
    <3>1. r # q /\ epc[r] = "closing"
      BY <2>2, <2>3, <2>8
    <3> QED BY <1>1, <2>1, <3>1 DEF StopInv
  <2>9. \A r, s \in Stoppers : r # s /\ epc'[r] # "idle" /\ epc'[s] # "idle" => Stoppers \subseteq raced'
    BY <1>1, <2>1, <2>3 DEF StopInv
  <2>10. StopInv'
    BY <1>1, <2>2, <2>3, <2>5, <2>6, <2>7, <2>8, <2>9 DEF StopInv
  <2> QED BY <2>3, <2>10 DEF MailInv
<1>4. CASE E!SetClosed(q)
  <2>1. /\ epc[q] = "flag" /\ closed' = TRUE /\ epc' = [epc EXCEPT ![q] = "idle"]
        /\ UNCHANGED <<chOpen, buf, worker, tried, lost, count, raced>>
    BY <1>4 DEF E!SetClosed, E!Goto
  <2>2. /\ epc'[q] = "idle" /\ (\A r \in Stoppers : r # q => epc'[r] = epc[r]) /\ (\A p \in Senders : epc'[p] = epc[p])
        /\ GotInv' /\ SentInv' /\ PlaceInv' /\ SendingInv'
    BY <2>1, StopperMoves
  <2>3. E!Stopping' => E!Stopping
    BY <2>2 DEF E!Stopping
  <2>4. StopInv'
    BY <1>1, <2>1, <2>2, <2>3 DEF StopInv
  <2> QED BY <2>2, <2>4 DEF MailInv
<1> QED BY <1>2, <1>3, <1>4

LEMMA MailTypesStay ==
  ASSUME MailTypes, GotInv, E!Next PROVE MailTypes'
<1> DEFINE At == {"idle", "sending", "closing", "flag", "panic"}
           W == [pc : {"start", "select", "got", "failed", "ended"}, mail : Mails \cup {E!NoMail}, open : BOOLEAN]
<1>1. /\ direct \in BOOLEAN /\ buf \in Seq(Mails) /\ count \in [Senders -> Nat] /\ epc \in [Senders \cup Stoppers -> At]
      /\ worker \in [Workers -> W] /\ tried \subseteq Mails /\ lost \subseteq Mails
  BY DEF MailTypes
<1>2. SUFFICES /\ direct' \in BOOLEAN /\ buf' \in Seq(Mails) /\ count' \in [Senders -> Nat]
               /\ epc' \in [Senders \cup Stoppers -> At] /\ worker' \in [Workers -> W] /\ tried' \subseteq Mails /\ lost' \subseteq Mails
  BY DEF MailTypes
<1>3. \A p \in Senders : E!Mail(p) \in Mails
  BY <1>1 DEF Mails, E!Mail
<1>4. \A w \in Workers : worker[w].pc = "got" => worker[w].mail \in Mails
  BY <1>1 DEF GotInv
<1>5. buf # <<>> => Head(buf) \in Mails /\ Tail(buf) \in Seq(Mails)
  BY SMTT(60), Z3T(60), <1>1
<1>6. \A x \in Mails : Append(buf, x) \in Seq(Mails)
  BY SMTT(60), Z3T(60), <1>1
<1> HIDE DEF At
<1>7. \A p \in Senders \cup Stoppers : \A l \in At : [epc EXCEPT ![p] = l] \in [Senders \cup Stoppers -> At]
  BY <1>1
<1>8. {"idle", "sending", "closing", "flag", "panic"} \subseteq At
  BY DEF At
<1>9. ASSUME NEW p \in Senders, E!Send(p) \/ E!Enqueue(p) \/ E!SendPanics(p)
      PROVE  /\ epc' \in [Senders \cup Stoppers -> At] /\ count' \in [Senders -> Nat] /\ buf' \in Seq(Mails)
             /\ UNCHANGED <<direct, worker, tried, lost>>
  <2>1. CASE E!Send(p)
    <3>1. CASE closed
      BY <1>1, <2>1, <3>1 DEF E!Send, E!channel
    <3>2. CASE ~closed
      <4>1. epc' = [epc EXCEPT ![p] = "sending"] /\ count' = [count EXCEPT ![p] = @ + 1]
        BY <2>1, <3>2 DEF E!Send, E!Goto
      <4>2. count' \in [Senders -> Nat]
        BY SMTT(60), Z3T(60), <1>1, <4>1
      <4> QED BY <1>1, <1>7, <1>8, <2>1, <4>1, <4>2 DEF E!Send, E!channel
    <3> QED BY <3>1, <3>2
  <2>2. CASE E!Enqueue(p)
    BY <1>1, <1>3, <1>6, <1>7, <1>8, <2>2 DEF E!Enqueue, E!Goto
  <2>3. CASE E!SendPanics(p)
    BY <1>1, <1>7, <1>8, <2>3 DEF E!SendPanics, E!Goto, E!channel
  <2> QED BY <1>9, <2>1, <2>2, <2>3
<1>10. ASSUME NEW p \in Senders, NEW w \in Workers, E!HandOver(p, w)
       PROVE  epc' \in [Senders \cup Stoppers -> At] /\ worker' \in [Workers -> W] /\ UNCHANGED <<direct, buf, count, tried, lost>>
  <2>1. worker' = [worker EXCEPT ![w].pc = "got", ![w].mail = E!Mail(p)] /\ E!Mail(p) \in Mails
    BY <1>3, <1>10 DEF E!HandOver
  <2>2. worker' \in [Workers -> W]
    BY <1>1, <2>1
  <2> QED BY <1>7, <1>8, <1>10, <2>2 DEF E!HandOver, E!Goto, E!channel
<1>11. ASSUME NEW w \in Workers, E!WorkerStep(w) \/ E!Timeout(w)
       PROVE  /\ worker' \in [Workers -> W] /\ buf' \in Seq(Mails) /\ UNCHANGED <<direct, epc, count>>
              /\ tried' \subseteq Mails /\ lost' \subseteq Mails
  <2>1. CASE E!Start(w) \/ E!ChannelClosed(w)
    BY SMTT(30), ZenonT(90), <1>1, <2>1 DEF E!Start, E!ChannelClosed, E!channel
  <2>2. CASE E!Receive(w)
    <3>1. worker' = [worker EXCEPT ![w].pc = "got", ![w].mail = Head(buf)] /\ Head(buf) \in Mails
      BY <1>5, <2>2 DEF E!Receive
    <3>2. worker' \in [Workers -> W]
      BY <1>1, <3>1
    <3> QED BY <1>1, <1>5, <2>2, <3>2 DEF E!Receive
  <2>3. CASE E!DialFails(w)
    <3>1. worker' \in [Workers -> W] /\ worker[w].pc = "got"
      BY <1>1, <2>3 DEF E!DialFails
    <3> QED BY <1>1, <1>4, <2>3, <3>1 DEF E!DialFails, E!channel
  <2>4. CASE E!Deliver(w)
    <3>1. worker' \in [Workers -> W] /\ worker[w].pc = "got"
      BY ZenonT(90), <1>1, <2>4 DEF E!Deliver
    <3> QED BY SMTT(60), Z3T(60), <1>1, <1>4, <2>4, <3>1 DEF E!Deliver, E!channel
  <2>5. CASE E!Timeout(w)
    <3>1. PICK next \in {[pc |-> "select", mail |-> E!NoMail, open |-> FALSE], [pc |-> "failed", mail |-> E!NoMail, open |-> TRUE]} :
            worker' = [worker EXCEPT ![w] = next]
      BY <2>5 DEF E!Timeout
    <3>2. [pc |-> "select", mail |-> E!NoMail, open |-> FALSE] \in W /\ [pc |-> "failed", mail |-> E!NoMail, open |-> TRUE] \in W
      BY ZenonT(60)
    <3> HIDE DEF W
    <3>3. next \in W
      BY <3>1, <3>2
    <3>4. worker' \in [Workers -> W]
      BY <1>1, <3>1, <3>3
    <3> QED BY <1>1, <2>5, <3>4 DEF E!Timeout, E!channel
  <2> QED BY <1>11, <2>1, <2>2, <2>3, <2>4, <2>5 DEF E!WorkerStep
<1>12. ASSUME NEW q \in Stoppers, E!Stop(q) \/ E!CloseChannel(q) \/ E!SetClosed(q)
       PROVE  epc' \in [Senders \cup Stoppers -> At] /\ UNCHANGED <<direct, buf, count, worker, tried, lost>>
  BY SMTT(60), Z3T(60), <1>7, <1>8, <1>12 DEF E!Stop, E!CloseChannel, E!SetClosed, E!Goto, E!channel
<1> QED BY <1>1, <1>9, <1>10, <1>11, <1>12 DEF E!Next

LEMMA MailInvariance ==
  ASSUME Senders \cap Stoppers = {} PROVE E!Init /\ [][E!Next]_E!vars => []MailInv
<1>1. ASSUME E!Init PROVE MailInv
  <2>1. /\ closed = FALSE /\ chOpen = TRUE /\ buf = <<>> /\ direct \in BOOLEAN
        /\ epc = [p \in Senders \cup Stoppers |-> "idle"] /\ count = [p \in Senders |-> 0]
        /\ worker = [w \in Workers |-> [pc |-> "start", mail |-> E!NoMail, open |-> FALSE]] /\ tried = {} /\ lost = {}
    BY <1>1 DEF E!Init
  <2>2. /\ \A p \in Senders \cup Stoppers : epc[p] = "idle"
        /\ \A w \in Workers : worker[w].mail = E!NoMail /\ worker[w].pc # "got"
        /\ \A p \in Senders : count[p] = 0
        /\ DOMAIN buf = {}
    BY <2>1
  <2>3. MailTypes
    BY <2>1 DEF MailTypes
  <2>4. GotInv /\ PlaceInv /\ StopInv /\ SendingInv
    BY <2>1, <2>2 DEF GotInv, PlaceInv, StopInv, SendingInv
  <2>5. ASSUME NEW x \in Mails PROVE ~In(x) /\ ~Sent(x)
    <3>1. x # E!NoMail /\ x[1] \in Senders /\ x[2] \in Nat
      BY NotAMail DEF Mails
    <3> QED BY SMTT(60), Z3T(60), <2>1, <2>2, <3>1 DEF In, Sent
  <2> QED BY <2>3, <2>4, <2>5 DEF MailInv, SentInv
<1>2. ASSUME MailInv, [E!Next]_E!vars PROVE MailInv'
  <2>1. CASE E!Next
    <3>1. MailTypes'
      BY <1>2, <2>1, MailTypesStay DEF MailInv
    <3>2. ASSUME NEW p \in Senders, E!Send(p) \/ E!Enqueue(p) \/ E!SendPanics(p) \/ \E w \in Workers : E!HandOver(p, w)
          PROVE  MailInv'
      BY <1>2, <3>1, <3>2, SendInv, EnqueueInv, SendPanicsInv
    <3>3. ASSUME NEW w \in Workers, E!WorkerStep(w) \/ E!Timeout(w) PROVE MailInv'
      BY <1>2, <3>1, <3>3, WorkerInv
    <3>4. ASSUME NEW q \in Stoppers, E!Stop(q) \/ E!CloseChannel(q) \/ E!SetClosed(q) PROVE MailInv'
      BY <1>2, <3>1, <3>4, StopStepInv
    <3> QED BY <2>1, <3>2, <3>3, <3>4 DEF E!Next
  <2>2. CASE UNCHANGED E!vars
    <3>1. UNCHANGED <<direct, closed, chOpen, buf, epc, count, worker, tried, lost, raced>>
      BY <2>2 DEF E!vars, E!channel
    <3>2. MailTypes'
      BY <1>2, <3>1 DEF MailInv, MailTypes
    <3>3. StopInv' /\ SendingInv' /\ \A x \in Mails : Sent(x)' <=> Sent(x)
      BY <1>2, <3>1, StopStays, SentStays DEF MailInv
    <3> QED BY <1>2, <3>1, <3>2, <3>3, NoneMoves DEF MailInv
  <2> QED BY <1>2, <2>1, <2>2
<1> QED BY <1>1, <1>2, PTL

(* No mail that Send has accepted disappears or is doubled, whatever the    *)
(* channel holds when Stop closes it and whichever Dial fails: it is in the *)
(* channel, with one worker, given to the server or lost by a Dial.  A Send *)
(* or a Stop panics only when it meets a Stop (Send, Worker, Stop of        *)
(* email.Daemon).                                                           *)
THEOREM AcceptedMailIsKept ==
  ASSUME Senders \cap Stoppers = {} PROVE E!Spec => []E!MailsAreKept
<1>1. ASSUME MailInv PROVE E!MailsAreKept
  <2>1. MailTypes /\ SentInv /\ PlaceInv /\ StopInv
    BY <1>1 DEF MailInv
  <2>2. \A p \in DOMAIN epc : epc[p] = "panic" => p \in raced
    BY <2>1 DEF StopInv, MailTypes
  <2>3. ASSUME NEW p \in Senders, NEW n \in 1..MaxSends, n < count[p] \/ (n = count[p] /\ epc[p] = "idle")
        PROVE  <<p, n>> \in E!held \cup E!queued \cup tried \cup lost
    <3> DEFINE x == <<p, n>>
    <3>1. x \in Mails /\ x[1] = p /\ x[2] = n /\ n >= 1
      BY DEF Mails
    <3>2. x # E!NoMail
      BY <3>1, NotAMail
    <3> HIDE DEF x
    <3>3. In(x)
      BY <2>1, <2>3, <3>1 DEF SentInv, Sent
    <3>4. x \in E!held \cup E!queued \cup tried \cup lost
      BY <3>2, <3>3 DEF In, E!held, E!queued
    <3> QED BY <3>4 DEF x
  <2>4. E!InOnePlace
    BY SMTT(60), Z3T(60), <2>1 DEF PlaceInv, E!InOnePlace, E!held, E!queued
  <2> QED BY <2>2, <2>3, <2>4 DEF E!MailsAreKept
<1> QED BY <1>1, MailInvariance, PTL DEF E!Spec
=============================================================================
