----------------------------- MODULE StorageDB ------------------------------
(***************************************************************************)
(* The two prepared statements of the database backed storage,             *)
(* config/storage/db_client.go: Get and Set prepare their statement when it *)
(* is closed and run it under the statement's mutex; a daemon closes a     *)
(* statement when its ticker fires and both when Close tells it to stop.   *)
(*                                                                         *)
(* "read" is the statement of Get, "write" the one of Set.  What the       *)
(* queries return is left out.  The dml.Artisan which holds a statement    *)
(* also holds the arguments of the call; args counts the calls whose       *)
(* arguments are still in it.  The call WithStmt in Get and Set is taken   *)
(* to be Artisan.WithPreparedStmt.                                         *)
(***************************************************************************)
EXTENDS Integers, FiniteSets

CONSTANTS
  Procs,     \* goroutines that call Get and Set
  Closers,   \* goroutines that call Close
  Fails,     \* what the server may refuse: "prepare", "read", "write"
  MaxCalls   \* bound: calls of Get and Set

ASSUME StorageAssumption == MaxCalls \in Nat

Kinds == {"read", "write"}

VARIABLES
  mu,      \* muRead, muWrite: "free" or "held"
  state,   \* stmtReadState, stmtWriteState
  stmt,    \* stmtRead, stmtWrite: "nil", "prepared", "closed"
  args,    \* calls whose arguments are still in the Artisan
  stat,    \* stmtReadStat, stmtWriteStat
  pc,      \* callers
  kind,    \* the statement a caller uses
  nCalls,
  tick,    \* the ticker's channel holds a tick
  dpc,     \* the daemon
  cpc,     \* closers
  live,    \* history: statements open at the server
  refused,     \* history: kinds whose Prepare was refused, until the statement is closed
  miscounted   \* history: kinds of which a close was counted with nothing open

vars == <<mu, state, stmt, args, stat, pc, kind, nCalls, tick, dpc, cpc, live, refused, miscounted>>

Init ==
  /\ mu = [k \in Kinds |-> "free"]
  /\ state = [k \in Kinds |-> "closed"]
  /\ stmt = [k \in Kinds |-> "nil"]
  /\ args = [k \in Kinds |-> 0]
  /\ stat = [k \in Kinds |-> [Open |-> 0, Close |-> 0]]
  /\ pc = [p \in Procs |-> "idle"]
  /\ kind = [p \in Procs |-> "read"]
  /\ nCalls = 0
  /\ tick = [k \in Kinds |-> FALSE]
  /\ dpc = "select"
  /\ cpc = [c \in Closers |-> "idle"]
  /\ live = [k \in Kinds |-> 0]
  /\ refused = {} /\ miscounted = {}

(* A panic of the daemon, which nobody recovers, ends the process.          *)
Alive == dpc # "panicked"
-----------------------------------------------------------------------------
(* Get and Set                                                              *)

Call(p, k) ==
  /\ Alive /\ pc[p] = "idle" /\ nCalls < MaxCalls
  /\ pc' = [pc EXCEPT ![p] = "lock"]
  /\ kind' = [kind EXCEPT ![p] = k]
  /\ nCalls' = nCalls + 1
  /\ UNCHANGED <<mu, state, stmt, args, stat, tick, dpc, cpc, live, refused, miscounted>>

AcquirePreparesOnce(p) ==
  LET k == kind[p] IN
  /\ Alive /\ pc[p] = "lock" /\ mu[k] = "free"
  /\ mu' = [mu EXCEPT ![k] = "held"]
  /\ state' = [state EXCEPT ![k] = "inUse"]
  /\ pc' = [pc EXCEPT ![p] = IF stmt[k] = "nil" THEN "prepare" ELSE "exec"]
  /\ UNCHANGED <<stmt, args, stat, kind, nCalls, tick, dpc, cpc, live, refused, miscounted>>

Acquire(p) ==
  LET k == kind[p] IN
  /\ Alive /\ pc[p] = "lock" /\ mu[k] = "free"
  /\ mu' = [mu EXCEPT ![k] = "held"]
  /\ state' = [state EXCEPT ![k] = "inUse"]
  /\ pc' = [pc EXCEPT ![p] = IF state[k] = "closed" THEN "prepare" ELSE "exec"]
  /\ UNCHANGED <<stmt, args, stat, kind, nCalls, tick, dpc, cpc, live, refused, miscounted>>

ReturnInUse(p, to) ==
  /\ mu' = [mu EXCEPT ![kind[p]] = "free"]
  /\ pc' = [pc EXCEPT ![p] = to]
  /\ UNCHANGED state

(* The deferred function: the statement is open and the mutex released.     *)
Return(p, to) ==
  /\ mu' = [mu EXCEPT ![kind[p]] = "free"]
  /\ state' = [state EXCEPT ![kind[p]] = "open"]
  /\ pc' = [pc EXCEPT ![p] = to]

Prepare(p) ==
  LET k == kind[p] IN
  /\ Alive /\ pc[p] = "prepare"
  /\ stmt' = [stmt EXCEPT ![k] = "prepared"]
  /\ stat' = [stat EXCEPT ![k].Open = @ + 1]
  /\ live' = [live EXCEPT ![k] = @ + 1]
  /\ pc' = [pc EXCEPT ![p] = "exec"]
  /\ UNCHANGED <<mu, state, args, kind, nCalls, tick, dpc, cpc, refused, miscounted>>

PrepareFails(p) ==
  /\ Alive /\ pc[p] = "prepare" /\ "prepare" \in Fails
  /\ Return(p, "idle")
  /\ refused' = refused \cup {kind[p]}
  /\ UNCHANGED <<stmt, args, stat, kind, nCalls, tick, dpc, cpc, live, miscounted>>

ExecOK(p) ==
  /\ Alive /\ pc[p] = "exec" /\ stmt[kind[p]] = "prepared" /\ args[kind[p]] = 0
  /\ Return(p, "idle")
  /\ UNCHANGED <<stmt, args, stat, kind, nCalls, tick, dpc, cpc, live, refused, miscounted>>

(* Refused by the server, run on a closed or missing statement, or with the *)
(* arguments of earlier calls before its own.  Set resets the Artisan,      *)
(* which panics when there is none; loadPrimitive returns without a Reset,  *)
(* and without an Artisan the arguments go to a temporary one.              *)
ExecFails(p) ==
  LET k == kind[p] IN
  /\ Alive /\ pc[p] = "exec"
  /\ k \in Fails \/ stmt[k] # "prepared" \/ args[k] > 0
  /\ args' = [args EXCEPT ![k] = IF k = "write" THEN 0
                                 ELSE IF stmt[k] = "nil" THEN @ ELSE @ + 1]
  /\ Return(p, IF k = "write" /\ stmt[k] = "nil" THEN "panicked" ELSE "idle")
  /\ UNCHANGED <<stmt, stat, kind, nCalls, tick, dpc, cpc, live, refused, miscounted>>
-----------------------------------------------------------------------------
(* The daemon of runStateCheckers                                           *)

(* A ticker drops its ticks while its channel is full, and ends when it is  *)
(* stopped.                                                                 *)
Tick(k) ==
  /\ dpc \in {"select", "read", "write"} /\ ~tick[k]
  /\ tick' = [tick EXCEPT ![k] = TRUE]
  /\ UNCHANGED <<mu, state, stmt, args, stat, pc, kind, nCalls, dpc, cpc, live, refused, miscounted>>

DaemonTick(k) ==
  /\ dpc = "select" /\ tick[k]
  /\ tick' = [tick EXCEPT ![k] = FALSE]
  /\ dpc' = k
  /\ UNCHANGED <<mu, state, stmt, args, stat, pc, kind, nCalls, cpc, live, refused, miscounted>>

DaemonKind ==
  IF dpc \in {"read", "stopRead"} THEN "read" ELSE "write"

AfterClose ==
  CASE dpc = "stopRead" -> "stopWrite"
    [] dpc = "stopWrite" -> "done"
    [] OTHER -> "select"

(* closeStmtRead, closeStmtWrite.  Close of a missing statement panics.     *)
DaemonClose ==
  LET k == DaemonKind IN
  /\ dpc \in {"read", "write", "stopRead", "stopWrite"}
  /\ mu[k] = "free"
  /\ \/ /\ state[k] = "open" /\ stmt[k] = "nil"
        /\ dpc' = "panicked"
        /\ UNCHANGED <<state, stmt, stat, live, refused, miscounted>>
     \/ /\ state[k] = "open" /\ stmt[k] # "nil"
        /\ stmt' = [stmt EXCEPT ![k] = "closed"]
        /\ live' = IF stmt[k] = "prepared" THEN [live EXCEPT ![k] = @ - 1] ELSE live
        /\ state' = [state EXCEPT ![k] = "closed"]
        /\ stat' = [stat EXCEPT ![k].Close = @ + 1]
        /\ refused' = refused \ {k}
        /\ miscounted' = IF stmt[k] = "prepared" THEN miscounted ELSE miscounted \cup {k}
        /\ dpc' = AfterClose
     \/ /\ state[k] # "open"
        /\ dpc' = AfterClose
        /\ UNCHANGED <<state, stmt, stat, live, refused, miscounted>>
  /\ UNCHANGED <<mu, args, pc, kind, nCalls, tick, cpc>>
-----------------------------------------------------------------------------
(* Close                                                                    *)

CloseStart(c) ==
  /\ Alive /\ cpc[c] = "idle"
  /\ cpc' = [cpc EXCEPT ![c] = "send"]
  /\ UNCHANGED <<mu, state, stmt, args, stat, pc, kind, nCalls, tick, dpc, live, refused, miscounted>>

(* The send on tickerDaemonStop, a channel without a buffer, meets the      *)
(* daemon's receive; Close returns and the daemon stops the tickers.        *)
CloseSend(c) ==
  /\ cpc[c] = "send" /\ dpc = "select"
  /\ cpc' = [cpc EXCEPT ![c] = "done"]
  /\ dpc' = "stopRead"
  /\ UNCHANGED <<mu, state, stmt, args, stat, pc, kind, nCalls, tick, live, refused, miscounted>>
-----------------------------------------------------------------------------
Next ==
  \/ \E p \in Procs, k \in Kinds : Call(p, k)
  \/ \E p \in Procs : Acquire(p) \/ Prepare(p) \/ PrepareFails(p) \/ ExecOK(p) \/ ExecFails(p)
  \/ \E k \in Kinds : Tick(k) \/ DaemonTick(k)
  \/ DaemonClose
  \/ \E c \in Closers : CloseStart(c) \/ CloseSend(c)

Spec == Init /\ [][Next]_vars

(* Prepare and exec have a context with a timeout, so they return.  A       *)
(* sync.Mutex hands itself to a goroutine that has waited for long, and     *)
(* select picks among its ready cases at random: both are strong fairness.  *)
FairSpec ==
  /\ Spec
  /\ \A p \in Procs :
       /\ SF_vars(Acquire(p))
       /\ WF_vars(Prepare(p) \/ PrepareFails(p))
       /\ WF_vars(ExecOK(p) \/ ExecFails(p))
  /\ \A k \in Kinds : WF_vars(Tick(k)) /\ SF_vars(DaemonTick(k))
  /\ SF_vars(DaemonClose)
  /\ \A c \in Closers : SF_vars(CloseSend(c))
-----------------------------------------------------------------------------
(* Every variable keeps its type (db_client.go:118-137).                    *)
TypeOK ==
  /\ mu \in [Kinds -> {"free", "held"}]
  /\ state \in [Kinds -> {"closed", "open", "inUse"}]
  /\ stmt \in [Kinds -> {"nil", "prepared", "closed"}]
  /\ args \in [Kinds -> Nat]
  /\ stat \in [Kinds -> [Open : Nat, Close : Nat]]
  /\ pc \in [Procs -> {"idle", "lock", "prepare", "exec", "panicked"}]
  /\ kind \in [Procs -> Kinds]
  /\ nCalls \in 0..MaxCalls
  /\ tick \in [Kinds -> BOOLEAN]
  /\ dpc \in {"select", "read", "write", "stopRead", "stopWrite", "done", "panicked"}
  /\ cpc \in [Closers -> {"idle", "send", "done"}]
  /\ live \in [Kinds -> Int] /\ refused \subseteq Kinds /\ miscounted \subseteq Kinds

(* The types are kept, and however calls, ticks and Close interleave, a     *)
(* statement never has two handles open at the server: the one that a new   *)
(* Prepare replaces has been closed (db_client.go:289-302, 339-352).        *)
OneStatement == TypeOK /\ \A k \in Kinds : live[k] \in {0, 1}

(* Whenever the mutex is free, what Statistics reports as opened and not    *)
(* yet closed is what is open at the server, and never more; it is less     *)
(* once the daemon has closed, and counted, a statement that the server had *)
(* refused to prepare (db_client.go:228, 373-383).                          *)
StatisticsAreTrue ==
  \A k \in Kinds : mu[k] = "free" => /\ stat[k].Open - stat[k].Close <= live[k]
                                      /\ k \notin miscounted => stat[k].Open - stat[k].Close = live[k]

(* A call runs its query on a prepared statement: one that was closed after *)
(* its idle time is prepared again before it is used (db_client.go:139).    *)
(* The one exception: if the server refuses to prepare it, the deferred     *)
(* function marks it as open, and the calls until the daemon closes it run  *)
(* on nothing (db_client.go:284, 293).                                      *)
UsesPrepared ==
  \A p \in Procs : pc[p] = "exec" => stmt[kind[p]] = "prepared" \/ kind[p] \in refused

(* Even when the server refuses to prepare, a statement that was prepared   *)
(* once is there for Set and for the daemon, which then do not panic        *)
(* (db_client.go:226, 238, 308).                                            *)
PanicsOnlyBeforeFirstPrepare ==
  dpc = "panicked" \/ (\E p \in Procs : pc[p] = "panicked") =>
    \E k \in Kinds : state[k] # "closed" /\ stat[k].Open = 0

(* Get, Set and the daemon together: a statement is open once at the        *)
(* server, prepared when it is used and counted right, where a refusal to   *)
(* prepare disturbs the use until the next close only, and the count if     *)
(* that close follows; only a statement that was never prepared makes       *)
(* anybody panic.                                                           *)
StatementUse == OneStatement /\ UsesPrepared /\ StatisticsAreTrue /\ PanicsOnlyBeforeFirstPrepare

(* As long as the daemon runs, a statement that is no longer used gets      *)
(* closed at the server, also when the server has refused some              *)
(* (db_client.go:223-268).                                                  *)
IdleIsClosed == <>(dpc = "done" \/ ~Alive) \/ <>[](\A k \in Kinds : live[k] = 0)

(* The first Close finds the daemon ready sooner or later, whatever the     *)
(* daemon is waiting for (db_client.go:254, 273).                           *)
CloseReturns ==
  \A c \in Closers : cpc[c] = "send" ~> (~Alive \/ \E d \in Closers : cpc[d] = "done")
=============================================================================
