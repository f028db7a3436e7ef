---------------------------- MODULE StorageProofs ----------------------------
(***************************************************************************)
(* Proofs about config/storage: StorageDB, for any number of callers,      *)
(* closers and calls, and whatever the server refuses; StorageMulti, for   *)
(* any backends and any number of calls.                                   *)
(***************************************************************************)
EXTENDS StorageDB, Sequences, TLAPS

(* Room for the provers on a busy machine.                                  *)
USE ZenonT(30), SMTT(60), Z3T(60)

(* The inductive invariant.  The mutex of a statement is held by the one    *)
(* caller that uses it, and the state says so.                              *)
Inside(p) == pc[p] \in {"prepare", "exec"}
MutexInv ==
  /\ \A p \in Procs : Inside(p) => mu[kind[p]] = "held"
  /\ \A p, q \in Procs : Inside(p) /\ Inside(q) /\ kind[p] = kind[q] => p = q
  /\ \A k \in Kinds : mu[k] = "held" <=> state[k] = "inUse"

(* A prepared statement is the one that is open at the server.  It is not   *)
(* there when it is going to be prepared; and unless the server has refused *)
(* it since the last close it is there when it is executed or the state     *)
(* says so.                                                                 *)
StmtInv ==
  /\ \A k \in Kinds : live[k] = IF stmt[k] = "prepared" THEN 1 ELSE 0
  /\ \A k \in Kinds : state[k] = "closed" => stmt[k] # "prepared"
  /\ \A k \in Kinds \ refused : state[k] = "open" => stmt[k] = "prepared"
  /\ \A p \in Procs : /\ pc[p] = "prepare" => stmt[kind[p]] # "prepared"
                      /\ pc[p] = "exec" => stmt[kind[p]] = "prepared" \/ kind[p] \in refused

(* The statistics count what was opened and closed, and nothing has been    *)
(* opened exactly as long as there is no statement.                         *)
CountInv ==
  /\ \A k \in Kinds : stat[k].Open - stat[k].Close <= live[k]
  /\ \A k \in Kinds \ miscounted : stat[k].Open - stat[k].Close = live[k]
  /\ \A k \in Kinds : stmt[k] = "nil" <=> stat[k].Open = 0

(* After a panic there is a statement that was never prepared and never     *)
(* will be, since its state is not "closed".                                *)
Unprepared(k) ==
  /\ state[k] # "closed" /\ stmt[k] = "nil"
  /\ \A p \in Procs : pc[p] = "prepare" => kind[p] # k
PanicInv ==
  dpc = "panicked" \/ (\E p \in Procs : pc[p] = "panicked") => \E k \in Kinds : Unprepared(k)

IInv == TypeOK /\ MutexInv /\ StmtInv /\ CountInv /\ PanicInv
-----------------------------------------------------------------------------
(* Initially the invariant holds.                                           *)
LEMMA InitInv == Init => IInv
BY SMTT(60), StorageAssumption DEF Init, IInv, TypeOK, MutexInv, StmtInv, CountInv, PanicInv, Inside, Kinds

(* Every step preserves it.                                                 *)
LEMMA NextInv == IInv /\ [Next]_vars => IInv'
<1> SUFFICES ASSUME IInv, [Next]_vars PROVE IInv'
  OBVIOUS
<1> USE StorageAssumption
<1>1. ASSUME NEW p \in Procs, NEW k \in Kinds, Call(p, k) PROVE IInv'
  <2>1. TypeOK'
    BY SMTT(60), Z3T(60), <1>1 DEF IInv, TypeOK, Call, Alive
  <2>2. MutexInv'
    BY SMTT(60), Z3T(60), <1>1 DEF IInv, TypeOK, MutexInv, Inside, Call, Alive
  <2>3. StmtInv'
    BY SMTT(30), ZenonT(90), <1>1 DEF IInv, TypeOK, MutexInv, StmtInv, Inside, Call, Alive
  <2>4. CountInv'
    BY <1>1 DEF IInv, TypeOK, StmtInv, CountInv, Call, Alive
  <2>5. PanicInv'
    BY SMTT(60), Z3T(60), <1>1 DEF IInv, TypeOK, MutexInv, PanicInv, Unprepared, Inside, Call, Alive
  <2> QED BY <2>1, <2>2, <2>3, <2>4, <2>5 DEF IInv
<1>2. ASSUME NEW p \in Procs, Acquire(p) PROVE IInv'
  <2>1. TypeOK'
    BY <1>2 DEF IInv, TypeOK, Acquire, Alive
  <2>2. MutexInv'
    BY SMTT(60), Z3T(60), <1>2 DEF IInv, TypeOK, MutexInv, Inside, Acquire, Alive
  <2>3. StmtInv'
    BY SMTT(60), Z3T(60), <1>2 DEF IInv, TypeOK, MutexInv, StmtInv, Inside, Acquire, Alive
  <2>4. CountInv'
    BY <1>2 DEF IInv, TypeOK, StmtInv, CountInv, Acquire, Alive
  <2>5. PanicInv'
    BY SMTT(60), Z3T(60), <1>2 DEF IInv, TypeOK, MutexInv, PanicInv, Unprepared, Inside, Acquire, Alive
  <2> QED BY <2>1, <2>2, <2>3, <2>4, <2>5 DEF IInv
<1>3. ASSUME NEW p \in Procs, Prepare(p) PROVE IInv'
  <2>1. TypeOK'
    BY SMTT(60), Z3T(60), <1>3 DEF IInv, TypeOK, Prepare, Alive
  <2>2. MutexInv'
    BY SMTT(60), Z3T(60), <1>3 DEF IInv, TypeOK, MutexInv, Inside, Prepare, Alive
  <2>3. StmtInv'
    BY SMTT(60), Z3T(60), <1>3 DEF IInv, TypeOK, MutexInv, StmtInv, Inside, Prepare, Alive
  <2>4. CountInv'
    BY SMTT(60), Z3T(60), <1>3 DEF IInv, TypeOK, StmtInv, CountInv, Prepare, Alive
  <2>5. PanicInv'
    BY SMTT(60), Z3T(60), <1>3 DEF IInv, TypeOK, MutexInv, PanicInv, Unprepared, Inside, Prepare, Alive
  <2> QED BY <2>1, <2>2, <2>3, <2>4, <2>5 DEF IInv
<1>4. ASSUME NEW p \in Procs, PrepareFails(p) PROVE IInv'
  <2>1. TypeOK'
    BY <1>4 DEF IInv, TypeOK, PrepareFails, Return, Alive
  <2>2. MutexInv'
    BY SMTT(60), Z3T(60), <1>4 DEF IInv, TypeOK, MutexInv, Inside, PrepareFails, Return, Alive
  <2>3. StmtInv'
    BY SMTT(60), Z3T(60), <1>4 DEF IInv, TypeOK, MutexInv, StmtInv, Inside, PrepareFails, Return, Alive
  <2>4. CountInv'
    BY <1>4 DEF IInv, TypeOK, StmtInv, CountInv, PrepareFails, Return, Alive
  <2>5. PanicInv'
    BY SMTT(60), Z3T(60), <1>4 DEF IInv, TypeOK, MutexInv, PanicInv, Unprepared, Inside, PrepareFails, Return, Alive
  <2> QED BY <2>1, <2>2, <2>3, <2>4, <2>5 DEF IInv
<1>5. ASSUME NEW p \in Procs, ExecOK(p) PROVE IInv'
  <2>1. TypeOK'
    BY <1>5 DEF IInv, TypeOK, ExecOK, Return, Alive
  <2>2. MutexInv'
    BY SMTT(60), Z3T(60), <1>5 DEF IInv, TypeOK, MutexInv, Inside, ExecOK, Return, Alive
  <2>3. StmtInv'
    BY SMTT(60), Z3T(60), <1>5 DEF IInv, TypeOK, MutexInv, StmtInv, Inside, ExecOK, Return, Alive
  <2>4. CountInv'
    BY <1>5 DEF IInv, TypeOK, StmtInv, CountInv, ExecOK, Return, Alive
  <2>5. PanicInv'
    BY SMTT(60), Z3T(60), <1>5 DEF IInv, TypeOK, MutexInv, PanicInv, Unprepared, Inside, ExecOK, Return, Alive
  <2> QED BY <2>1, <2>2, <2>3, <2>4, <2>5 DEF IInv
<1>6. ASSUME NEW p \in Procs, ExecFails(p) PROVE IInv'
  <2>1. TypeOK'
    BY SMTT(60), Z3T(60), <1>6 DEF IInv, TypeOK, ExecFails, Return, Alive
  <2>2. MutexInv'
    BY SMTT(60), Z3T(60), <1>6 DEF IInv, TypeOK, MutexInv, Inside, ExecFails, Return, Alive
  <2>3. StmtInv'
    BY SMTT(60), Z3T(60), <1>6 DEF IInv, TypeOK, MutexInv, StmtInv, Inside, ExecFails, Return, Alive
  <2>4. CountInv'
    BY <1>6 DEF IInv, TypeOK, StmtInv, CountInv, ExecFails, Return, Alive
  <2>5. PanicInv'
    BY SMTT(60), Z3T(60), <1>6 DEF IInv, TypeOK, MutexInv, PanicInv, Unprepared, Inside, ExecFails, Return, Alive
  <2> QED BY <2>1, <2>2, <2>3, <2>4, <2>5 DEF IInv
<1>7. ASSUME NEW k \in Kinds, Tick(k) PROVE IInv'
  <2>1. TypeOK'
    BY <1>7 DEF IInv, TypeOK, Tick, Alive
  <2>2. MutexInv'
    BY SMTT(60), Z3T(60), <1>7 DEF IInv, TypeOK, MutexInv, Inside, Tick, Alive
  <2>3. StmtInv'
    BY <1>7 DEF IInv, TypeOK, MutexInv, StmtInv, Inside, Tick, Alive
  <2>4. CountInv'
    BY <1>7 DEF IInv, TypeOK, StmtInv, CountInv, Tick, Alive
  <2>5. PanicInv'
    BY SMTT(60), Z3T(60), <1>7 DEF IInv, TypeOK, MutexInv, PanicInv, Unprepared, Inside, Tick, Alive
  <2> QED BY <2>1, <2>2, <2>3, <2>4, <2>5 DEF IInv
<1>8. ASSUME NEW k \in Kinds, DaemonTick(k) PROVE IInv'
  <2>1. TypeOK'
    BY <1>8 DEF IInv, TypeOK, Kinds, DaemonTick
  <2>2. MutexInv'
    BY <1>8 DEF IInv, TypeOK, MutexInv, Inside, DaemonTick, Alive
  <2>3. StmtInv'
    BY <1>8 DEF IInv, TypeOK, MutexInv, StmtInv, Inside, DaemonTick, Alive
  <2>4. CountInv'
    BY <1>8 DEF IInv, TypeOK, StmtInv, CountInv, DaemonTick, Alive
  <2>5. PanicInv'
    BY SMTT(30), ZenonT(90), <1>8 DEF IInv, PanicInv, Unprepared, Kinds, DaemonTick
  <2> QED BY <2>1, <2>2, <2>3, <2>4, <2>5 DEF IInv
<1>9. ASSUME DaemonClose PROVE IInv'
  <2>a. PICK k \in Kinds : k = DaemonKind
    BY DEF DaemonKind, Kinds
  <2>b. AfterClose \in {"select", "stopWrite", "done"}
    BY DEF AfterClose
  <2>c. mu[k] = "free" /\ dpc # "panicked" /\ UNCHANGED <<mu, args, pc, kind, nCalls, tick, cpc>>
    BY <1>9, <2>a DEF DaemonClose
  <2>d. ASSUME NEW p \in Procs, Inside(p) PROVE kind[p] # k
    BY <2>c, <2>d DEF IInv, MutexInv
  <2>1. CASE state[k] = "open" /\ stmt[k] = "nil"
    <3>1. dpc' = "panicked" /\ UNCHANGED <<state, stmt, stat, live, refused, miscounted>>
      BY <1>9, <2>a, <2>1 DEF DaemonClose
    <3>2. TypeOK' /\ MutexInv' /\ StmtInv' /\ CountInv'
      BY SMTT(60), Z3T(60), <2>c, <3>1 DEF IInv, TypeOK, MutexInv, Inside, StmtInv, CountInv
    <3>3. Unprepared(k)'
      BY <2>1, <2>c, <2>d, <3>1 DEF Unprepared, Inside
    <3> QED BY <3>2, <3>3 DEF IInv, PanicInv
  <2>2. CASE state[k] = "open" /\ stmt[k] # "nil"
    <3>1. /\ stmt' = [stmt EXCEPT ![k] = "closed"]
          /\ live' = IF stmt[k] = "prepared" THEN [live EXCEPT ![k] = @ - 1] ELSE live
          /\ state' = [state EXCEPT ![k] = "closed"]
          /\ stat' = [stat EXCEPT ![k].Close = @ + 1]
          /\ refused' = refused \ {k}
          /\ miscounted' = IF stmt[k] = "prepared" THEN miscounted ELSE miscounted \cup {k}
          /\ dpc' = AfterClose
      BY <1>9, <2>a, <2>2 DEF DaemonClose
    <3>2. live'[k] = 0 /\ \A l \in Kinds : l # k => live'[l] = live[l]
      BY SMTT(60), Z3T(60), <3>1 DEF IInv, TypeOK, StmtInv
    <3>3. TypeOK'
      BY SMTT(60), Z3T(60), <2>b, <2>c, <3>1 DEF IInv, TypeOK
    <3>4. MutexInv'
      BY SMTT(60), Z3T(60), <2>2, <2>c, <3>1 DEF IInv, TypeOK, MutexInv, Inside
    <3>5. StmtInv'
      BY SMTT(60), Z3T(60), <2>c, <2>d, <3>1, <3>2 DEF IInv, TypeOK, StmtInv, Inside
    <3>6. CountInv'
      <4>1. /\ k \notin miscounted' => stmt[k] = "prepared" /\ live[k] = 1
            /\ live[k] <= 1
        BY SMTT(60), Z3T(60), <3>1 DEF IInv, StmtInv
      <4>2. stat'[k].Open = stat[k].Open /\ stat'[k].Close = stat[k].Close + 1
        BY SMTT(30), ZenonT(90), <3>1 DEF IInv, TypeOK
      <4>3. \A l \in Kinds : l # k => stat'[l] = stat[l] /\ stmt'[l] = stmt[l]
        BY <3>1 DEF IInv, TypeOK
      <4>4. \A l \in Kinds : stat'[l].Open - stat'[l].Close <= live'[l]
        BY SMTT(60), Z3T(60), <3>2, <4>1, <4>2, <4>3 DEF IInv, TypeOK, CountInv
      <4>6. miscounted \subseteq miscounted'
        BY <3>1
      <4>7. \A l \in Kinds \ miscounted' : stat'[l].Open - stat'[l].Close = live'[l]
        BY SMTT(60), Z3T(60), <3>2, <4>1, <4>2, <4>3, <4>6 DEF IInv, TypeOK, CountInv
      <4>5. \A l \in Kinds : stmt'[l] = "nil" <=> stat'[l].Open = 0
        BY SMTT(60), Z3T(60), <2>2, <3>1, <4>2, <4>3 DEF IInv, TypeOK, CountInv
      <4> QED BY <4>4, <4>5, <4>7 DEF CountInv
    <3>7. PanicInv'
      BY SMTT(60), Z3T(60), <2>2, <2>b, <2>c, <3>1 DEF IInv, TypeOK, PanicInv, Unprepared
    <3> QED BY <3>3, <3>4, <3>5, <3>6, <3>7 DEF IInv
  <2>3. CASE state[k] # "open"
    <3>1. dpc' = AfterClose /\ UNCHANGED <<state, stmt, stat, live, refused, miscounted>>
      BY <1>9, <2>a, <2>3 DEF DaemonClose
    <3>2. TypeOK' /\ MutexInv' /\ StmtInv' /\ CountInv'
      BY SMTT(60), Z3T(60), <2>b, <2>c, <3>1 DEF IInv, TypeOK, MutexInv, Inside, StmtInv, CountInv
    <3>3. PanicInv'
      BY <2>b, <2>c, <3>1 DEF IInv, PanicInv, Unprepared
    <3> QED BY <3>2, <3>3 DEF IInv
  <2> QED BY <2>1, <2>2, <2>3
<1>10. ASSUME NEW c \in Closers, CloseStart(c) PROVE IInv'
  <2>1. TypeOK'
    BY <1>10 DEF IInv, TypeOK, CloseStart, Alive
  <2>2. MutexInv'
    BY SMTT(30), ZenonT(90), <1>10 DEF IInv, TypeOK, MutexInv, Inside, CloseStart, Alive
  <2>3. StmtInv'
    BY <1>10 DEF IInv, TypeOK, MutexInv, StmtInv, Inside, CloseStart, Alive
  <2>4. CountInv'
    BY <1>10 DEF IInv, TypeOK, StmtInv, CountInv, CloseStart, Alive
  <2>5. PanicInv'
    BY SMTT(60), Z3T(60), <1>10 DEF IInv, TypeOK, MutexInv, PanicInv, Unprepared, Inside, CloseStart, Alive
  <2> QED BY <2>1, <2>2, <2>3, <2>4, <2>5 DEF IInv
<1>11. ASSUME NEW c \in Closers, CloseSend(c) PROVE IInv'
  <2>1. TypeOK'
    BY <1>11 DEF IInv, TypeOK, CloseSend, Alive
  <2>2. MutexInv'
    BY SMTT(30), ZenonT(90), <1>11 DEF IInv, TypeOK, MutexInv, Inside, CloseSend, Alive
  <2>3. StmtInv'
    BY <1>11 DEF IInv, TypeOK, MutexInv, StmtInv, Inside, CloseSend, Alive
  <2>4. CountInv'
    BY <1>11 DEF IInv, TypeOK, StmtInv, CountInv, CloseSend, Alive
  <2>5. PanicInv'
    BY SMTT(60), Z3T(60), <1>11 DEF IInv, TypeOK, MutexInv, PanicInv, Unprepared, Inside, CloseSend, Alive
  <2> QED BY <2>1, <2>2, <2>3, <2>4, <2>5 DEF IInv
<1>12. CASE UNCHANGED vars
  BY SMTT(60), Z3T(60), <1>12 DEF IInv, TypeOK, MutexInv, StmtInv, CountInv, PanicInv, Unprepared, Inside, vars
<1> QED BY <1>1, <1>2, <1>3, <1>4, <1>5, <1>6, <1>7, <1>8, <1>9, <1>10, <1>11, <1>12 DEF Next
-----------------------------------------------------------------------------
(* The invariant holds in every reachable state.                            *)
THEOREM Invariance == Spec => []IInv
<1>1. Init => IInv
  BY InitInv
<1>2. IInv /\ [Next]_vars => IInv'
  BY NextInv
<1> QED BY <1>1, <1>2, PTL DEF Spec

(* However Get, Set, the tickers and Close interleave, a statement has one  *)
(* handle at the server, is prepared when it is used unless the server has  *)
(* refused that since the last close, the statistics never report more than *)
(* is open, and less only after such a refusal; and only a statement that   *)
(* was never prepared makes anybody panic.                                  *)
THEOREM StatementsAreUsedWell == Spec => []StatementUse
<1>1. IInv => OneStatement
  BY DEF IInv, StmtInv, OneStatement
<1>2. IInv => UsesPrepared
  BY DEF IInv, StmtInv, UsesPrepared
<1>3. IInv => StatisticsAreTrue
  BY DEF IInv, CountInv, StatisticsAreTrue
<1>4. IInv => PanicsOnlyBeforeFirstPrepare
  BY DEF IInv, PanicInv, CountInv, Unprepared, PanicsOnlyBeforeFirstPrepare
<1> QED BY <1>1, <1>2, <1>3, <1>4, Invariance, PTL DEF StatementUse
-----------------------------------------------------------------------------
(***************************************************************************)
(* The storage of several backends, for any sequence of backends and any   *)
(* number of calls of Set, with and without a timeout.                     *)
(***************************************************************************)
CONSTANTS Backends, Faulty, Timeouts, MaxSets
VARIABLES stored, ctx, err, outer, inner, stop, res
M == INSTANCE StorageMulti

(* A call before the current one has returned, a call after it has not     *)
(* begun; what a call has returned it keeps.                                *)
CallInv ==
  /\ \A s \in M!Sets : ctx[s] = "none" =>
       err[s] = "none" /\ \A b \in M!B : outer[s][b] = "none" /\ inner[s][b] = "none" /\ res[s][b] = "none"
  /\ \A s \in M!Sets : ctx[s] # "none" => \A r \in M!Sets : r < s => M!returned[r]
  /\ \A s \in M!Sets : err[s] = "ok" => M!returned[s]
  /\ \A s \in M!Sets : ctx[s] = "cancelled" => err[s] \notin {"none", "ok"}
  /\ \A s \in M!Sets : err[s] # "cancelled"

(* A goroutine of the group that ends without an error has the answer of    *)
(* its backend, and the goroutine that asked the backend is gone.           *)
GroupInv ==
  /\ \A s \in M!Sets, b \in M!B : inner[s][b] \in {"none", "writing"} <=> res[s][b] = "none"
  /\ \A s \in M!Sets, b \in M!B :
       outer[s][b] = "ended" /\ err[s] \in {"none", "ok"} => inner[s][b] = "ended" /\ res[s][b] = "ok"

(* While every call before it has returned nil, what the last call has      *)
(* written is what is stored.                                               *)
WrittenInv ==
  \A s \in M!Sets, b \in M!B :
    /\ \A r \in M!Sets : r < s => err[r] = "ok"
    /\ \A r \in M!Sets : r > s => ctx[r] = "none"
    /\ res[s][b] = "ok"
    => stored[b] = s

MultiInv == M!TypeOK /\ CallInv /\ GroupInv /\ WrittenInv

(* What a step of call s leaves alone.                                      *)
OnlyCall(s) ==
  \A r \in M!Sets \ {s} : ctx'[r] = ctx[r] /\ err'[r] = err[r] /\ outer'[r] = outer[r] /\ inner'[r] = inner[r] /\ res'[r] = res[r]

LEMMA ReturnedFacts ==
  ASSUME NEW r \in M!Sets
  PROVE  /\ M!returned[r] <=> ctx[r] # "none" /\ err[r] # "none" /\ \A b \in M!B : outer[r][b] = "ended"
         /\ M!returned'[r] <=> ctx'[r] # "none" /\ err'[r] # "none" /\ \A b \in M!B : outer'[r][b] = "ended"
  BY DEF M!returned

(* A step of one goroutine, or of g.Wait, of a call that has begun.         *)
StepOf(s) ==
  /\ OnlyCall(s) /\ ctx[s] # "none" /\ ctx'[s] # "none"
  /\ err[s] # "none" => err'[s] = err[s]
  /\ \A b \in M!B : outer[s][b] = "ended" => outer'[s][b] = "ended"
  /\ err'[s] # "cancelled" /\ (ctx'[s] = "cancelled" => err'[s] \notin {"none", "ok"})
  /\ err'[s] = "ok" => \A b \in M!B : outer'[s][b] = "ended"
  /\ \A b \in M!B : inner'[s][b] \in {"none", "writing"} <=> res'[s][b] = "none"
  /\ \A b \in M!B :
       outer'[s][b] = "ended" /\ err'[s] \in {"none", "ok"} => inner'[s][b] = "ended" /\ res'[s][b] = "ok"
  /\ \A b \in M!B : stored'[b] = s \/ (stored'[b] = stored[b] /\ (res'[s][b] = "ok" => res[s][b] = "ok"))
  /\ \A b \in M!B : stored'[b] # stored[b] => inner[s][b] = "writing"

LEMMA StepInv ==
  ASSUME MaxSets \in Nat, MultiInv, M!TypeOK', NEW s \in M!Sets, StepOf(s)
  PROVE  MultiInv'
<1>1. \A r \in M!Sets : r # s => /\ ctx'[r] = ctx[r] /\ err'[r] = err[r] /\ outer'[r] = outer[r]
                                 /\ inner'[r] = inner[r] /\ res'[r] = res[r]
  BY DEF StepOf, OnlyCall
<1>2. \A r \in M!Sets : r \in Nat
  BY DEF M!Sets
<1>3. \A r \in M!Sets : M!returned[r] => M!returned'[r]
  <2>1. ASSUME NEW r \in M!Sets, M!returned[r] PROVE M!returned'[r]
    <3>1. ctx[r] # "none" /\ err[r] # "none" /\ \A b \in M!B : outer[r][b] = "ended"
      BY <2>1, ReturnedFacts
    <3>2. ctx'[r] # "none" /\ err'[r] # "none" /\ \A b \in M!B : outer'[r][b] = "ended"
      BY SMTT(60), Z3T(60), <1>1, <3>1 DEF StepOf
    <3> QED BY <3>2, ReturnedFacts
  <2> QED BY <2>1
<1>4. CallInv'
  <2>1. ASSUME NEW r \in M!Sets, ctx'[r] = "none"
        PROVE  err'[r] = "none" /\ \A b \in M!B : outer'[r][b] = "none" /\ inner'[r][b] = "none" /\ res'[r][b] = "none"
    BY SMTT(60), Z3T(60), <1>1, <2>1 DEF MultiInv, CallInv, StepOf
  <2>2. ASSUME NEW r \in M!Sets, ctx'[r] # "none", NEW q \in M!Sets, q < r PROVE M!returned'[q]
    <3>1. ctx[r] # "none"
      BY <1>1, <2>2 DEF StepOf
    <3> QED BY <1>3, <2>2, <3>1 DEF MultiInv, CallInv
  <2>3. ASSUME NEW r \in M!Sets, err'[r] = "ok" PROVE M!returned'[r]
    <3>1. CASE r = s
      BY <2>3, <3>1, ReturnedFacts DEF StepOf
    <3>2. CASE r # s
      BY <1>1, <1>3, <2>3, <3>2 DEF MultiInv, CallInv
    <3> QED BY <3>1, <3>2
  <2>4. ASSUME NEW r \in M!Sets PROVE (ctx'[r] = "cancelled" => err'[r] \notin {"none", "ok"}) /\ err'[r] # "cancelled"
    BY SMTT(60), Z3T(60), <1>1 DEF MultiInv, CallInv, StepOf
  <2> QED BY <2>1, <2>2, <2>3, <2>4 DEF CallInv
<1>5. GroupInv'
  <2>1. ASSUME NEW r \in M!Sets, NEW b \in M!B
        PROVE  /\ inner'[r][b] \in {"none", "writing"} <=> res'[r][b] = "none"
               /\ outer'[r][b] = "ended" /\ err'[r] \in {"none", "ok"} => inner'[r][b] = "ended" /\ res'[r][b] = "ok"
    <3>1. CASE r = s
      BY <3>1 DEF StepOf
    <3>2. CASE r # s
      BY SMTT(60), Z3T(60), <1>1, <3>2 DEF MultiInv, GroupInv
    <3> QED BY <3>1, <3>2
  <2> QED BY <2>1 DEF GroupInv
<1>6. WrittenInv'
  <2>1. ASSUME NEW r \in M!Sets, NEW b \in M!B, res'[r][b] = "ok",
               \A q \in M!Sets : q < r => err'[q] = "ok", \A q \in M!Sets : q > r => ctx'[q] = "none"
        PROVE  stored'[b] = r
    <3>1. ~(s > r)
      BY <2>1 DEF StepOf
    <3>2. CASE s = r
      <4>1. \A q \in M!Sets : q < r => err[q] = "ok"
        BY SMTT(60), Z3T(60), <1>1, <1>2, <2>1, <3>2
      <4>2. \A q \in M!Sets : q > r => ctx[q] = "none"
        BY SMTT(60), Z3T(60), <1>1, <1>2, <2>1, <3>2
      <4> QED BY SMTT(60), Z3T(60), <2>1, <3>2, <4>1, <4>2 DEF StepOf, MultiInv, WrittenInv
    <3>3. CASE s < r
      <4>1. s # r /\ err'[s] = "ok" /\ res[r][b] = "ok" /\ ctx'[r] = ctx[r]
        BY SMTT(60), Z3T(60), <1>1, <1>2, <2>1, <3>3
      <4>2. ctx[r] # "none"
        BY <4>1 DEF MultiInv, CallInv
      <4>3. M!returned[s]
        BY <3>3, <4>2 DEF MultiInv, CallInv
      <4>4. err[s] = "ok" /\ outer[s][b] = "ended"
        BY <4>1, <4>3, ReturnedFacts DEF StepOf
      <4>5. stored'[b] = stored[b]
        BY <4>4 DEF StepOf, MultiInv, GroupInv
      <4>6. \A q \in M!Sets : q < r => err[q] = "ok"
        BY <1>1, <2>1, <4>4
      <4>7. \A q \in M!Sets : q > r => ctx[q] = "none"
        BY SMTT(60), Z3T(60), <1>1, <1>2, <2>1, <3>3
      <4> QED BY <4>1, <4>5, <4>6, <4>7 DEF MultiInv, WrittenInv
    <3> QED BY <1>2, <3>1, <3>2, <3>3
  <2> QED BY <2>1 DEF WrittenInv
<1> QED BY <1>4, <1>5, <1>6 DEF MultiInv

LEMMA MultiTypes ==
  ASSUME MaxSets \in Nat, M!TypeOK, M!Next PROVE M!TypeOK'
<1> USE DEF M!TypeOK
<1>1. ASSUME NEW s \in M!Sets, NEW e \in {"none", "ok", "failed", "cancelled", "expired"}, M!GroupDone(s, e)
      PROVE  /\ ctx' \in [M!Sets -> {"none", "live", "cancelled", "expired"}]
             /\ err' \in [M!Sets -> {"none", "ok", "failed", "cancelled", "expired"}]
  BY <1>1 DEF M!GroupDone
<1>2. ASSUME NEW s \in M!Sets, M!Expire(s) PROVE M!TypeOK'
  BY <1>2 DEF M!Expire
<1>3. ASSUME NEW s \in M!Sets, M!Return(s) PROVE M!TypeOK'
  BY <1>3 DEF M!Return
<1>4. ASSUME NEW s \in M!Sets, NEW b \in M!B, M!Deliver(s, b) PROVE M!TypeOK'
  <2>1. res[s][b] \in {"none", "ok", "failed", "cancelled", "expired"} /\ M!GroupDone(s, res[s][b])
    BY <1>4 DEF M!Deliver
  <2>2. /\ ctx' \in [M!Sets -> {"none", "live", "cancelled", "expired"}]
        /\ err' \in [M!Sets -> {"none", "ok", "failed", "cancelled", "expired"}]
    BY <1>1, <2>1
  <2> QED BY <1>4, <2>2 DEF M!Deliver
<1>5. ASSUME NEW s \in M!Sets, NEW b \in M!B, M!Cancel(s, b) PROVE M!TypeOK'
  <2>1. ctx[s] \in {"none", "ok", "failed", "cancelled", "expired"} /\ M!GroupDone(s, ctx[s])
    BY <1>5 DEF M!Cancel
  <2>2. /\ ctx' \in [M!Sets -> {"none", "live", "cancelled", "expired"}]
        /\ err' \in [M!Sets -> {"none", "ok", "failed", "cancelled", "expired"}]
    BY <1>1, <2>1
  <2> QED BY <1>5, <2>2 DEF M!Cancel
<1>6. ASSUME NEW s \in M!Sets, NEW b \in M!B, M!Stopped(s, b) PROVE M!TypeOK'
  BY <1>6 DEF M!Stopped
<1>7. ASSUME NEW s \in M!Sets, M!Start(s) PROVE M!TypeOK'
  BY <1>7 DEF M!Start
<1>8. ASSUME NEW s \in M!Sets, NEW b \in M!B, M!Write(s, b) PROVE M!TypeOK'
  <2>1. s \in 0..MaxSets
    BY SMTT(60), Z3T(60) DEF M!Sets
  <2> QED BY SMTT(60), Z3T(60), <1>8, <2>1 DEF M!Write
<1> QED BY <1>2, <1>3, <1>4, <1>5, <1>6, <1>7, <1>8 DEF M!Next, M!Run

(* The context is only cancelled by the group, together with the error that *)
(* the group keeps.                                                         *)
LEMMA GroupDoneFacts ==
  ASSUME MultiInv, NEW s \in M!Sets, ctx[s] # "none", NEW e \in {"ok", "failed", "cancelled", "expired"},
         e = "cancelled" => err[s] # "none", M!GroupDone(s, e)
  PROVE  /\ \A r \in M!Sets \ {s} : ctx'[r] = ctx[r] /\ err'[r] = err[r]
         /\ ctx'[s] # "none" /\ (err[s] # "none" => err'[s] = err[s])
         /\ err'[s] # "cancelled" /\ (ctx'[s] = "cancelled" => err'[s] \notin {"none", "ok"})
         /\ err'[s] \in {"none", "ok"} => err' = err /\ (e = "ok" \/ err[s] = "ok")
<1>1. /\ ctx \in [M!Sets -> {"none", "live", "cancelled", "expired"}]
      /\ err \in [M!Sets -> {"none", "ok", "failed", "cancelled", "expired"}]
      /\ err[s] # "cancelled" /\ (ctx[s] = "cancelled" => err[s] \notin {"none", "ok"})
  BY DEF MultiInv, CallInv, M!TypeOK
<1>2. CASE e # "ok" /\ err[s] = "none"
  <2>1. err' = [err EXCEPT ![s] = e] /\ ctx' = [ctx EXCEPT ![s] = IF @ = "live" THEN "cancelled" ELSE @]
    BY <1>2 DEF M!GroupDone
  <2> QED BY <1>1, <1>2, <2>1
<1>3. CASE ~(e # "ok" /\ err[s] = "none")
  <2>1. err' = err /\ ctx' = ctx
    BY <1>3 DEF M!GroupDone
  <2> QED BY <1>1, <1>3, <2>1
<1> QED BY <1>2, <1>3

LEMMA WriteInv ==
  ASSUME MaxSets \in Nat, MultiInv, NEW s \in M!Sets, NEW b \in M!B, M!Write(s, b) PROVE StepOf(s)
<1>1. /\ inner[s][b] = "writing" /\ inner' = [inner EXCEPT ![s][b] = "send"] /\ UNCHANGED <<ctx, err, outer, stop>>
      /\ \/ stored' = [stored EXCEPT ![b] = s] /\ res' = [res EXCEPT ![s][b] = "ok"]
         \/ res' = [res EXCEPT ![s][b] = "failed"] /\ stored' = stored
  BY DEF M!Write
<1>2. /\ inner \in [M!Sets -> [M!B -> {"none", "writing", "send", "ended"}]] /\ stored \in [M!B -> 0..MaxSets]
      /\ res \in [M!Sets -> [M!B -> {"none", "ok", "failed"}]]
  BY DEF MultiInv, M!TypeOK
<1>3. /\ inner'[s][b] = "send" /\ \A c \in M!B \ {b} : inner'[s][c] = inner[s][c] /\ res'[s][c] = res[s][c] /\ stored'[c] = stored[c]
      /\ (stored'[b] = s /\ res'[s][b] = "ok") \/ (stored'[b] = stored[b] /\ res'[s][b] = "failed")
      /\ \A r \in M!Sets \ {s} : inner'[r] = inner[r] /\ res'[r] = res[r]
  BY SMTT(30), ZenonT(90), <1>1, <1>2
<1>4. /\ ctx[s] # "none" /\ err[s] # "cancelled" /\ (ctx[s] = "cancelled" => err[s] \notin {"none", "ok"})
      /\ err[s] = "ok" => \A c \in M!B : outer[s][c] = "ended"
  BY <1>1, ReturnedFacts DEF MultiInv, CallInv
<1>5. outer[s][b] = "ended" => err[s] \notin {"none", "ok"}
  BY <1>1 DEF MultiInv, GroupInv
<1>6. OnlyCall(s)
  BY <1>1, <1>3 DEF OnlyCall
<1>7. \A c \in M!B : /\ inner[s][c] \in {"none", "writing"} <=> res[s][c] = "none"
                     /\ outer[s][c] = "ended" /\ err[s] \in {"none", "ok"} => inner[s][c] = "ended" /\ res[s][c] = "ok"
  BY DEF MultiInv, GroupInv
<1> QED BY SMTT(60), Z3T(60), <1>1, <1>3, <1>4, <1>5, <1>6, <1>7 DEF StepOf

LEMMA DeliverInv ==
  ASSUME MaxSets \in Nat, MultiInv, NEW s \in M!Sets, NEW b \in M!B, M!Deliver(s, b) PROVE StepOf(s)
<1>1. /\ outer[s][b] = "wait" /\ inner[s][b] = "send" /\ outer' = [outer EXCEPT ![s][b] = "ended"]
      /\ inner' = [inner EXCEPT ![s][b] = "ended"] /\ M!GroupDone(s, res[s][b]) /\ UNCHANGED <<stored, res>>
  BY DEF M!Deliver
<1>2. /\ inner \in [M!Sets -> [M!B -> {"none", "writing", "send", "ended"}]]
      /\ outer \in [M!Sets -> [M!B -> {"none", "wait", "ended"}]] /\ res[s][b] \in {"none", "ok", "failed"}
  BY DEF MultiInv, M!TypeOK
<1>3. /\ inner'[s][b] = "ended" /\ outer'[s][b] = "ended"
      /\ \A c \in M!B \ {b} : inner'[s][c] = inner[s][c] /\ outer'[s][c] = outer[s][c]
      /\ \A r \in M!Sets \ {s} : inner'[r] = inner[r] /\ outer'[r] = outer[r]
  BY <1>1, <1>2
<1>4. \A c \in M!B : /\ inner[s][c] \in {"none", "writing"} <=> res[s][c] = "none"
                     /\ outer[s][c] = "ended" /\ err[s] \in {"none", "ok"} => inner[s][c] = "ended" /\ res[s][c] = "ok"
  BY DEF MultiInv, GroupInv
<1>5. ctx[s] # "none" /\ res[s][b] \in {"ok", "failed"} /\ err[s] # "ok"
  BY SMTT(60), Z3T(60), <1>1, <1>2, <1>4, ReturnedFacts DEF MultiInv, CallInv
<1>6. /\ \A r \in M!Sets \ {s} : ctx'[r] = ctx[r] /\ err'[r] = err[r]
      /\ ctx'[s] # "none" /\ (err[s] # "none" => err'[s] = err[s])
      /\ err'[s] # "cancelled" /\ (ctx'[s] = "cancelled" => err'[s] \notin {"none", "ok"})
      /\ err'[s] \in {"none", "ok"} => err' = err /\ res[s][b] = "ok"
  BY <1>1, <1>5, GroupDoneFacts
<1>7. OnlyCall(s)
  BY <1>1, <1>3, <1>6 DEF OnlyCall
<1> QED BY SMTT(60), Z3T(60), <1>1, <1>3, <1>4, <1>5, <1>6, <1>7 DEF StepOf

LEMMA CancelInv ==
  ASSUME MaxSets \in Nat, MultiInv, NEW s \in M!Sets, NEW b \in M!B, M!Cancel(s, b) PROVE StepOf(s)
<1>1. /\ outer[s][b] = "wait" /\ ctx[s] \in {"cancelled", "expired"} /\ outer' = [outer EXCEPT ![s][b] = "ended"]
      /\ M!GroupDone(s, ctx[s]) /\ UNCHANGED <<stored, inner, res>>
  BY DEF M!Cancel
<1>2. outer \in [M!Sets -> [M!B -> {"none", "wait", "ended"}]]
  BY DEF MultiInv, M!TypeOK
<1>3. /\ outer'[s][b] = "ended" /\ \A c \in M!B \ {b} : outer'[s][c] = outer[s][c]
      /\ \A r \in M!Sets \ {s} : outer'[r] = outer[r]
  BY <1>1, <1>2
<1>4. \A c \in M!B : /\ inner[s][c] \in {"none", "writing"} <=> res[s][c] = "none"
                     /\ outer[s][c] = "ended" /\ err[s] \in {"none", "ok"} => inner[s][c] = "ended" /\ res[s][c] = "ok"
  BY DEF MultiInv, GroupInv
<1>5. ctx[s] # "none" /\ err[s] # "ok" /\ (ctx[s] = "cancelled" => err[s] # "none")
  BY <1>1, ReturnedFacts DEF MultiInv, CallInv
<1>6. /\ \A r \in M!Sets \ {s} : ctx'[r] = ctx[r] /\ err'[r] = err[r]
      /\ ctx'[s] # "none" /\ (err[s] # "none" => err'[s] = err[s])
      /\ (ctx'[s] = "cancelled" => err'[s] \notin {"none", "ok"}) /\ err'[s] \notin {"none", "ok", "cancelled"}
  BY <1>1, <1>5, GroupDoneFacts
<1>7. OnlyCall(s)
  BY <1>1, <1>3, <1>6 DEF OnlyCall
<1> QED BY <1>1, <1>3, <1>4, <1>5, <1>6, <1>7 DEF StepOf

LEMMA OtherStepInv ==
  ASSUME MaxSets \in Nat, MultiInv, NEW s \in M!Sets, M!Expire(s) \/ M!Return(s) \/ \E b \in M!B : M!Stopped(s, b)
  PROVE  StepOf(s)
<1>1. /\ ctx \in [M!Sets -> {"none", "live", "cancelled", "expired"}]
      /\ err \in [M!Sets -> {"none", "ok", "failed", "cancelled", "expired"}]
      /\ inner \in [M!Sets -> [M!B -> {"none", "writing", "send", "ended"}]]
  BY DEF MultiInv, M!TypeOK
<1>2. \A c \in M!B : /\ inner[s][c] \in {"none", "writing"} <=> res[s][c] = "none"
                     /\ outer[s][c] = "ended" /\ err[s] \in {"none", "ok"} => inner[s][c] = "ended" /\ res[s][c] = "ok"
  BY DEF MultiInv, GroupInv
<1>3. /\ ctx[s] = "none" => err[s] = "none" /\ \A b \in M!B : inner[s][b] = "none"
      /\ err[s] # "cancelled" /\ (ctx[s] = "cancelled" => err[s] \notin {"none", "ok"})
      /\ err[s] = "ok" => \A c \in M!B : outer[s][c] = "ended"
  BY SMTT(60), Z3T(60), ReturnedFacts DEF MultiInv, CallInv
<1>4. CASE M!Expire(s)
  <2>1. ctx[s] = "live" /\ ctx' = [ctx EXCEPT ![s] = "expired"] /\ UNCHANGED <<stored, err, outer, inner, res>>
    BY <1>4 DEF M!Expire
  <2>2. ctx'[s] = "expired" /\ \A r \in M!Sets \ {s} : ctx'[r] = ctx[r]
    BY <1>1, <2>1
  <2>3. OnlyCall(s)
    BY <2>1, <2>2 DEF OnlyCall
  <2> QED BY <1>2, <1>3, <2>1, <2>2, <2>3 DEF StepOf
<1>5. CASE M!Return(s)
  <2>1. /\ ctx[s] # "none" /\ err[s] = "none" /\ (\A b \in M!B : outer[s][b] = "ended")
        /\ err' = [err EXCEPT ![s] = "ok"] /\ UNCHANGED <<stored, ctx, outer, inner, res>>
    BY <1>5 DEF M!Return
  <2>2. err'[s] = "ok" /\ \A r \in M!Sets \ {s} : err'[r] = err[r]
    BY <1>1, <2>1
  <2>3. OnlyCall(s)
    BY <2>1, <2>2 DEF OnlyCall
  <2> QED BY <1>2, <1>3, <2>1, <2>2, <2>3 DEF StepOf
<1>6. ASSUME NEW b \in M!B, M!Stopped(s, b) PROVE StepOf(s)
  <2>1. inner[s][b] = "send" /\ inner' = [inner EXCEPT ![s][b] = "ended"] /\ UNCHANGED <<stored, ctx, err, outer, res>>
    BY <1>6 DEF M!Stopped
  <2>2. /\ inner'[s][b] = "ended" /\ \A c \in M!B \ {b} : inner'[s][c] = inner[s][c]
        /\ \A r \in M!Sets \ {s} : inner'[r] = inner[r]
    BY <1>1, <2>1
  <2>3. OnlyCall(s)
    BY <2>1, <2>2 DEF OnlyCall
  <2> QED BY <1>2, <1>3, <2>1, <2>2, <2>3 DEF StepOf
<1> QED BY <1>4, <1>5, <1>6

LEMMA StartInv ==
  ASSUME MaxSets \in Nat, MultiInv, M!TypeOK', NEW s \in M!Sets, M!Start(s) PROVE MultiInv'
<1>1. /\ ctx[s] = "none" /\ (s > 1 => M!returned[s - 1]) /\ ctx' = [ctx EXCEPT ![s] = "live"]
      /\ outer' = [outer EXCEPT ![s] = [b \in M!B |-> "wait"]] /\ inner' = [inner EXCEPT ![s] = [b \in M!B |-> "writing"]]
      /\ UNCHANGED <<stored, err, stop, res>>
  BY DEF M!Start
<1>2. /\ ctx \in [M!Sets -> {"none", "live", "cancelled", "expired"}]
      /\ outer \in [M!Sets -> [M!B -> {"none", "wait", "ended"}]]
      /\ inner \in [M!Sets -> [M!B -> {"none", "writing", "send", "ended"}]]
  BY DEF MultiInv, M!TypeOK
<1>3. /\ ctx'[s] = "live" /\ (\A b \in M!B : outer'[s][b] = "wait" /\ inner'[s][b] = "writing")
      /\ \A r \in M!Sets \ {s} : ctx'[r] = ctx[r] /\ outer'[r] = outer[r] /\ inner'[r] = inner[r]
  BY <1>1, <1>2
<1>4. err[s] = "none" /\ \A b \in M!B : res[s][b] = "none"
  BY <1>1 DEF MultiInv, CallInv
<1>5. \A r \in M!Sets : r \in Nat /\ r >= 1
  BY DEF M!Sets
<1>6. \A r \in M!Sets : M!returned[r] => r # s /\ M!returned'[r]
  <2>1. ASSUME NEW r \in M!Sets, M!returned[r] PROVE r # s /\ M!returned'[r]
    <3>1. ctx[r] # "none" /\ err[r] # "none" /\ \A b \in M!B : outer[r][b] = "ended"
      BY <2>1, ReturnedFacts
    <3>2. r # s
      BY <1>1, <3>1
    <3>3. ctx'[r] # "none" /\ err'[r] # "none" /\ \A b \in M!B : outer'[r][b] = "ended"
      BY SMTT(60), Z3T(60), <1>1, <1>3, <3>1, <3>2
    <3> QED BY <3>2, <3>3, ReturnedFacts
  <2> QED BY <2>1
<1>7. \A r \in M!Sets : r < s => M!returned[r]
  <2>1. ASSUME NEW r \in M!Sets, r < s PROVE M!returned[r]
    <3>1. s > 1 /\ s - 1 \in M!Sets
      BY <1>5, <2>1 DEF M!Sets
    <3>2. M!returned[s - 1] /\ ctx[s - 1] # "none"
      BY <1>1, <3>1, ReturnedFacts
    <3>3. r = s - 1 \/ r < s - 1
      BY <1>5, <2>1
    <3> QED BY <3>1, <3>2, <3>3 DEF MultiInv, CallInv
  <2> QED BY <2>1
<1>8. CallInv'
  <2>1. ASSUME NEW r \in M!Sets, ctx'[r] = "none"
        PROVE  err'[r] = "none" /\ \A b \in M!B : outer'[r][b] = "none" /\ inner'[r][b] = "none" /\ res'[r][b] = "none"
    BY SMTT(60), Z3T(60), <1>1, <1>3, <2>1 DEF MultiInv, CallInv
  <2>2. ASSUME NEW r \in M!Sets, ctx'[r] # "none", NEW q \in M!Sets, q < r PROVE M!returned'[q]
    <3>1. CASE r = s
      BY <1>6, <1>7, <2>2, <3>1
    <3>2. CASE r # s
      BY SMTT(60), Z3T(60), <1>3, <1>6, <2>2, <3>2 DEF MultiInv, CallInv
    <3> QED BY <3>1, <3>2
  <2>3. ASSUME NEW r \in M!Sets, err'[r] = "ok" PROVE M!returned'[r]
    BY <1>1, <1>6, <2>3 DEF MultiInv, CallInv
  <2>4. ASSUME NEW r \in M!Sets PROVE (ctx'[r] = "cancelled" => err'[r] \notin {"none", "ok"}) /\ err'[r] # "cancelled"
    BY SMTT(60), Z3T(60), <1>1, <1>3 DEF MultiInv, CallInv
  <2> QED BY <2>1, <2>2, <2>3, <2>4 DEF CallInv
<1>9. GroupInv'
  <2>1. ASSUME NEW r \in M!Sets, NEW b \in M!B
        PROVE  /\ inner'[r][b] \in {"none", "writing"} <=> res'[r][b] = "none"
               /\ outer'[r][b] = "ended" /\ err'[r] \in {"none", "ok"} => inner'[r][b] = "ended" /\ res'[r][b] = "ok"
    <3>1. CASE r = s
      BY SMTT(60), Z3T(60), <1>1, <1>3, <1>4, <3>1
    <3>2. CASE r # s
      BY SMTT(60), Z3T(60), <1>1, <1>3, <3>2 DEF MultiInv, GroupInv
    <3> QED BY <3>1, <3>2
  <2> QED BY <2>1 DEF GroupInv
<1>10. WrittenInv'
  <2>1. ASSUME NEW r \in M!Sets, NEW b \in M!B, res'[r][b] = "ok",
               \A q \in M!Sets : q < r => err'[q] = "ok", \A q \in M!Sets : q > r => ctx'[q] = "none"
        PROVE  stored'[b] = r
    <3>1. r # s /\ \A q \in M!Sets : q > r => ctx[q] = "none"
      BY SMTT(60), Z3T(60), <1>1, <1>3, <1>4, <2>1
    <3> QED BY <1>1, <2>1, <3>1 DEF MultiInv, WrittenInv
  <2> QED BY <2>1 DEF WrittenInv
<1> QED BY <1>8, <1>9, <1>10 DEF MultiInv

LEMMA MultiInvariance ==
  ASSUME MaxSets \in Nat PROVE M!Spec => []MultiInv
<1>1. ASSUME M!Init PROVE MultiInv
  <2>1. M!TypeOK
    BY <1>1 DEF M!Init, M!TypeOK, M!PerCall
  <2>2. \A s \in M!Sets : /\ ctx[s] = "none" /\ err[s] = "none"
                          /\ \A b \in M!B : outer[s][b] = "none" /\ inner[s][b] = "none" /\ res[s][b] = "none"
    BY <1>1 DEF M!Init, M!PerCall
  <2> QED BY <2>1, <2>2 DEF MultiInv, CallInv, GroupInv, WrittenInv
<1>2. ASSUME MultiInv, [M!Next]_M!vars PROVE MultiInv'
  <2>1. CASE M!Next
    <3>1. M!TypeOK'
      BY <1>2, <2>1, MultiTypes DEF MultiInv
    <3>2. ASSUME NEW s \in M!Sets, M!Start(s) PROVE MultiInv'
      BY <1>2, <3>1, <3>2, StartInv
    <3>3. ASSUME NEW s \in M!Sets, StepOf(s) PROVE MultiInv'
      BY <1>2, <3>1, <3>3, StepInv
    <3>4. ASSUME NEW s \in M!Sets, M!Expire(s) \/ M!Return(s) \/ \E b \in M!B : M!Stopped(s, b) PROVE MultiInv'
      BY <1>2, <3>3, <3>4, OtherStepInv
    <3>5. ASSUME NEW s \in M!Sets, NEW b \in M!B, M!Write(s, b) \/ M!Deliver(s, b) \/ M!Cancel(s, b) PROVE MultiInv'
      BY <1>2, <3>3, <3>5, WriteInv, DeliverInv, CancelInv
    <3> QED BY <2>1, <3>2, <3>4, <3>5 DEF M!Next, M!Run
  <2>2. CASE UNCHANGED M!vars
    <3>1. M!TypeOK' /\ CallInv'
      BY <1>2, <2>2 DEF M!vars, MultiInv, M!TypeOK, CallInv, M!returned
    <3>2. GroupInv' /\ WrittenInv'
      BY SMTT(60), Z3T(60), <1>2, <2>2 DEF M!vars, MultiInv, GroupInv, WrittenInv
    <3> QED BY <3>1, <3>2 DEF MultiInv
  <2> QED BY <1>2, <2>1, <2>2
<1> QED BY <1>1, <1>2, PTL DEF M!Spec

LEMMA LastIsStored ==
  ASSUME MultiInv, NEW s \in M!Sets, M!returned[s], err[s] = "ok",
         \A r \in M!Sets : r < s => err[r] = "ok", \A r \in M!Sets : r > s => ctx[r] = "none"
  PROVE  \A b \in M!B : stored[b] = s
<1>1. \A b \in M!B : outer[s][b] = "ended"
  BY ReturnedFacts
<1>2. \A b \in M!B : res[s][b] = "ok"
  BY <1>1 DEF MultiInv, GroupInv
<1> QED BY <1>2 DEF MultiInv, WrittenInv

(* Set of the storage of several backends tells the truth, however the      *)
(* answers of the backends, the timeout and the cancellation interleave:    *)
(* nil means that every backend is written and that no goroutine is left,   *)
(* and the error of a backend is not masked by the cancellation it causes;  *)
(* after calls that all returned nil, every backend and Get have the value  *)
(* of the last one (config/storage/multi.go:61-115).                        *)
THEOREM SetTellsTheTruth ==
  ASSUME MaxSets \in Nat, NEW S, Backends \in Seq(S), Backends # <<>>
  PROVE  M!Spec => [](M!ResultIsTrue /\ M!GetReturnsTheLast)
<1>1. ASSUME MultiInv PROVE M!ResultIsTrue
  <2>1. ASSUME NEW s \in M!Sets, M!returned[s]
        PROVE  (err[s] = "ok" => \A b \in M!B : res[s][b] = "ok" /\ inner[s][b] = "ended") /\ err[s] # "cancelled"
    BY <1>1, <2>1, ReturnedFacts DEF MultiInv, CallInv, GroupInv
  <2> QED BY <2>1 DEF M!ResultIsTrue
<1>2. ASSUME MultiInv PROVE M!GetReturnsTheLast
  <2>1. ASSUME NEW s \in M!Sets, \A r \in 1..s : M!returned[r] /\ err[r] = "ok",
               \A r \in M!Sets : r > s => ctx[r] = "none"
        PROVE  /\ \A b \in M!B : stored[b] = s
               /\ \A down \in SUBSET M!B :
                    M!Get(down) = IF Backends[1] \in down THEN M!Answer(TRUE, 0) ELSE M!Answer(FALSE, s)
    <3>1. s \in Nat /\ s >= 1 /\ s \in 1..s /\ \A r \in M!Sets : r < s => r \in 1..s
      BY DEF M!Sets
    <3>2. M!returned[s] /\ err[s] = "ok" /\ \A r \in M!Sets : r < s => err[r] = "ok"
      BY <2>1, <3>1
    <3>3. \A b \in M!B : stored[b] = s
      BY <1>2, <2>1, <3>2, LastIsStored
    <3>4. 1 \in DOMAIN Backends /\ (\A j \in DOMAIN Backends : 1 <= j)
          /\ \A i \in DOMAIN Backends : (\A j \in DOMAIN Backends : i <= j) => i = 1
      OBVIOUS
    <3>5. ASSUME NEW down \in SUBSET M!B
          PROVE  M!Get(down) = IF Backends[1] \in down THEN M!Answer(TRUE, 0) ELSE M!Answer(FALSE, s)
      <4> DEFINE ends == {i \in DOMAIN Backends : Backends[i] \in down \/ stored[Backends[i]] # 0}
                 least == CHOOSE i \in ends : \A j \in ends : i <= j
                 first == Backends[least]
      <4>1. ASSUME NEW i \in DOMAIN Backends PROVE stored[Backends[i]] = s /\ stored[Backends[i]] # 0
        <5>1. Backends[i] \in M!B
          BY DEF M!B
        <5> QED BY <3>1, <3>3, <5>1
      <4>2. ends = DOMAIN Backends
        BY <4>1
      <4>3. least = 1 /\ ends # {}
        BY <3>4, <4>2
      <4>4. M!Get(down) = IF ends = {} THEN M!Answer(FALSE, 0)
                          ELSE IF first \in down THEN M!Answer(TRUE, 0) ELSE M!Answer(FALSE, stored[first])
        BY DEF M!Get
      <4> HIDE DEF ends, least
      <4> QED BY <3>4, <4>1, <4>3, <4>4
    <3> QED BY <3>3, <3>5
  <2> QED BY <2>1 DEF M!GetReturnsTheLast
<1> QED BY <1>1, <1>2, MultiInvariance, PTL
=============================================================================
