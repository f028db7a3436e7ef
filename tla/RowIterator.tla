----------------------------- MODULE RowIterator -----------------------------
(***************************************************************************)
(* How an Artisan hands the rows of a result to a callback: one after the  *)
(* other (IterateSerial, Load) or to the workers of IterateParallel, which *)
(* are fed over an unbuffered channel and report over a buffered one.      *)
(***************************************************************************)
EXTENDS Integers, Sequences, FiniteSets

CONSTANTS Workers,    \* the goroutines of IterateParallel
          MaxRows     \* a bound on the rows of a result

VARIABLES mode,       \* "serial" or "parallel" (never changes)
          result,     \* [rows, scan, err, close]: the rows that Next yields, the row
                      \* whose Scan fails (0: none), whether Err, Close fail (never changes)
          row,        \* the rows that Next has yielded
          pc,         \* "next", "send", "close", "wait", "collect", "done"
          job,        \* what a worker does: a row, 0 (it waits), -1 (it has returned)
          errChan,    \* the errors of the callbacks that nobody has received
          err,        \* the errors in the result of the call
          seen,       \* the rows whose callback has succeeded
          failed      \* the rows whose callback has failed

vars == <<mode, result, row, pc, job, errChan, err, seen, failed>>

Init ==
  /\ mode \in {"serial", "parallel"}
  /\ \E n \in 0..MaxRows : result \in [rows : {n}, scan : 0..n, err : BOOLEAN, close : BOOLEAN]
  /\ row = 0 /\ pc = "next"
  /\ job = [w \in Workers |-> 0]
  /\ errChan = <<>> /\ err = <<>> /\ seen = {} /\ failed = {}

(* r.Next and Scan.                                                         *)
NextRow ==
  /\ pc = "next"
  /\ IF row = result.rows THEN pc' = "close" /\ UNCHANGED <<row, err>>
     ELSE /\ row' = row + 1
          /\ IF result.scan = row' THEN err' = <<"scan">> /\ pc' = "close"
             ELSE pc' = "send" /\ UNCHANGED err
  /\ UNCHANGED <<mode, result, job, errChan, seen, failed>>

(* IterateSerial calls the callback itself.                                 *)
CallBack(ok) ==
  /\ pc = "send" /\ mode = "serial"
  /\ IF ok THEN seen' = seen \cup {row} /\ pc' = "next" /\ UNCHANGED <<err, failed>>
     ELSE failed' = failed \cup {row} /\ err' = <<"callback">> /\ pc' = "close" /\ UNCHANGED seen
  /\ UNCHANGED <<mode, result, row, job, errChan>>

(* The select of iterateParallelForNextLoop.                                *)
SendRow(w) ==
  /\ pc = "send" /\ mode = "parallel" /\ job[w] = 0
  /\ job' = [job EXCEPT ![w] = row]
  /\ pc' = "next"
  /\ UNCHANGED <<mode, result, row, errChan, err, seen, failed>>

\* as ReceiveError, but only after the last row
ReceiveErrorLate ==
  /\ pc = "send" /\ mode = "parallel" /\ errChan # <<>> /\ row = result.rows
  /\ err' = <<Head(errChan)>> /\ errChan' = Tail(errChan)
  /\ pc' = "close"
  /\ UNCHANGED <<mode, result, row, job, seen, failed>>

ReceiveError ==
  /\ pc = "send" /\ mode = "parallel" /\ errChan # <<>>
  /\ err' = <<Head(errChan)>> /\ errChan' = Tail(errChan)
  /\ pc' = "close"
  /\ UNCHANGED <<mode, result, row, job, seen, failed>>

(* A worker, with the callback it calls.                                    *)
Work(w, ok) ==
  /\ job[w] > 0
  /\ IF ok THEN seen' = seen \cup {job[w]} /\ job' = [job EXCEPT ![w] = 0] /\ UNCHANGED <<failed, errChan>>
     ELSE /\ Len(errChan) < Cardinality(Workers)
          /\ failed' = failed \cup {job[w]} /\ errChan' = Append(errChan, "callback")
          /\ job' = [job EXCEPT ![w] = -1] /\ UNCHANGED seen
  /\ UNCHANGED <<mode, result, row, pc, err>>

(* The deferred functions.  That of iterateParallelForNextLoop wraps err and*)
(* not err2, and so drops the error of the rows; IterateSerial reads it only*)
(* after the last row.                                                      *)
rowsErr == IF result.err /\ mode = "serial" /\ err = <<>> THEN <<"rows">> ELSE err
CloseRows ==
  /\ pc = "close"
  /\ err' = IF result.close /\ rowsErr = <<>> THEN <<"close">> ELSE rowsErr
  /\ pc' = IF mode = "serial" THEN "done" ELSE "wait"
  /\ UNCHANGED <<mode, result, row, job, errChan, seen, failed>>

(* close(rowChan) ends an idle worker; wg.Wait waits for all of them.       *)
WorkerEnds(w) ==
  /\ pc = "wait" /\ job[w] = 0
  /\ job' = [job EXCEPT ![w] = -1]
  /\ UNCHANGED <<mode, result, row, pc, errChan, err, seen, failed>>

Collect ==
  /\ pc = "wait" /\ \A w \in Workers : job[w] = -1
  /\ err' = err \o errChan /\ errChan' = <<>>
  /\ pc' = "done"
  /\ UNCHANGED <<mode, result, row, job, seen, failed>>

Next ==
  \/ NextRow \/ ReceiveError \/ CloseRows \/ Collect
  \/ \E ok \in BOOLEAN : CallBack(ok)
  \/ \E w \in Workers : SendRow(w) \/ WorkerEnds(w) \/ \E ok \in BOOLEAN : Work(w, ok)
-----------------------------------------------------------------------------
(* When the call returns, the rows that were handed out have been worked on *)
(* once, every failed callback is in the result, and no error means that    *)
(* every row of the result has been worked on.  The exception is an error   *)
(* that ends the rows early, which IterateParallel drops.                   *)
NilMeansEveryRow ==
  pc = "done" =>
    /\ Len(SelectSeq(err, LAMBDA e : e = "callback")) = Cardinality(failed)
    /\ seen \cap failed = {} /\ \A w \in Workers : job[w] <= 0
    /\ err = <<>> => seen = 1..result.rows /\ ~result.close /\ (result.err => mode = "parallel")

(* The call returns, and IterateParallel leaves no worker behind.  Fairness:*)
(* goroutines are scheduled and callbacks return.                           *)
IterationReturns == <>(pc = "done" /\ (mode = "parallel" => \A w \in Workers : job[w] = -1))
=============================================================================
