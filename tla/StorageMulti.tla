---------------------------- MODULE StorageMulti ----------------------------
(***************************************************************************)
(* The storage that wraps several backends, config/storage/multi.go.       *)
(*                                                                         *)
(* Set starts, for every backend, a goroutine of an errgroup which waits   *)
(* for the context or for the result of a second goroutine, and that one   *)
(* calls the Set of the backend: the operand of the send in its select is  *)
(* evaluated before the select chooses.  One caller calls Set for one path *)
(* again and again; call s writes the value s.                             *)
(***************************************************************************)
EXTENDS Integers, Sequences

CONSTANTS
  Backends,   \* the sequence of backends
  Faulty,     \* the backends whose Set may fail
  Timeouts,   \* BOOLEAN: ContextTimeout is greater than zero
  MaxSets     \* bound: calls of Set

B == {Backends[i] : i \in DOMAIN Backends}
Sets == 1..MaxSets

VARIABLES
  stored,   \* value of the path in every backend, 0 when there is none
  ctx,      \* of every call of Set: "none", "live", "cancelled", "expired"
  err,      \* the first error of the errgroup, "none" or "ok" when it has returned nil
  outer,    \* per call and backend, goroutine of the group: "none", "wait", "ended"
  inner,    \* per call and backend: "none", "writing", "send", "ended"
  stop,     \* stopChan is closed
  res       \* what the backend returned: "none", "ok", "failed"

vars == <<stored, ctx, err, outer, inner, stop, res>>

PerCall(v) == [s \in Sets |-> [b \in B |-> v]]

Init ==
  /\ stored = [b \in B |-> 0]
  /\ ctx = [s \in Sets |-> "none"]
  /\ err = [s \in Sets |-> "none"]
  /\ outer = PerCall("none") /\ inner = PerCall("none")
  /\ stop = PerCall(FALSE)
  /\ res = PerCall("none")

(* The call has returned; err is what it returned.                          *)
returned == [s \in Sets |-> ctx[s] # "none" /\ err[s] # "none" /\ \A b \in B : outer[s][b] = "ended"]
-----------------------------------------------------------------------------
(* Set makes the context and starts the goroutines.                         *)
Start(s) ==
  /\ ctx[s] = "none"
  /\ s > 1 => returned[s - 1]
  /\ ctx' = [ctx EXCEPT ![s] = "live"]
  /\ outer' = [outer EXCEPT ![s] = [b \in B |-> "wait"]]
  /\ inner' = [inner EXCEPT ![s] = [b \in B |-> "writing"]]
  /\ UNCHANGED <<stored, err, stop, res>>

(* s.Set(p2, value) of the backend.                                         *)
Write(s, b) ==
  /\ inner[s][b] = "writing"
  /\ inner' = [inner EXCEPT ![s][b] = "send"]
  /\ \/ stored' = [stored EXCEPT ![b] = s] /\ res' = [res EXCEPT ![s][b] = "ok"]
     \/ b \in Faulty /\ res' = [res EXCEPT ![s][b] = "failed"] /\ UNCHANGED stored
  /\ UNCHANGED <<ctx, err, outer, stop>>

(* errgroup: the first error is kept and cancels the context.               *)
GroupDone(s, e) ==
  IF e # "ok" /\ err[s] = "none"
  THEN /\ err' = [err EXCEPT ![s] = e]
       /\ ctx' = [ctx EXCEPT ![s] = IF @ = "live" THEN "cancelled" ELSE @]
  ELSE UNCHANGED <<err, ctx>>

(* errChan has no buffer: the send of the inner goroutine meets the receive *)
(* of the outer one, which closes the channels and returns the result.      *)
Deliver(s, b) ==
  /\ outer[s][b] = "wait" /\ inner[s][b] = "send"
  /\ outer' = [outer EXCEPT ![s][b] = "ended"]
  /\ inner' = [inner EXCEPT ![s][b] = "ended"]
  /\ stop' = [stop EXCEPT ![s][b] = TRUE]
  /\ GroupDone(s, res[s][b])
  /\ UNCHANGED <<stored, res>>

CancelLeavesInner(s, b) ==
  /\ outer[s][b] = "wait" /\ ctx[s] \in {"cancelled", "expired"}
  /\ outer' = [outer EXCEPT ![s][b] = "ended"]
  /\ GroupDone(s, ctx[s])
  /\ UNCHANGED <<stored, inner, stop, res>>

(* The outer goroutine sees that the context is done.                       *)
Cancel(s, b) ==
  /\ outer[s][b] = "wait" /\ ctx[s] \in {"cancelled", "expired"}
  /\ outer' = [outer EXCEPT ![s][b] = "ended"]
  /\ stop' = [stop EXCEPT ![s][b] = TRUE]
  /\ GroupDone(s, ctx[s])
  /\ UNCHANGED <<stored, inner, res>>

(* The inner goroutine sees that stopChan is closed.                        *)
Stopped(s, b) ==
  /\ inner[s][b] = "send" /\ stop[s][b]
  /\ inner' = [inner EXCEPT ![s][b] = "ended"]
  /\ UNCHANGED <<stored, ctx, err, outer, stop, res>>

Expire(s) ==
  /\ Timeouts /\ ctx[s] = "live" /\ ~returned[s]
  /\ ctx' = [ctx EXCEPT ![s] = "expired"]
  /\ UNCHANGED <<stored, err, outer, inner, stop, res>>

(* g.Wait: every goroutine of the group has ended.                          *)
Return(s) ==
  /\ ctx[s] # "none" /\ err[s] = "none"
  /\ \A b \in B : outer[s][b] = "ended"
  /\ err' = [err EXCEPT ![s] = "ok"]
  /\ UNCHANGED <<stored, ctx, outer, inner, stop, res>>

Run ==
  \/ \E s \in Sets : Expire(s) \/ Return(s)
  \/ \E s \in Sets, b \in B : Deliver(s, b) \/ Cancel(s, b) \/ Stopped(s, b)

Next == Run \/ \E s \in Sets : Start(s) \/ \E b \in B : Write(s, b)

Spec == Init /\ [][Next]_vars

(* The goroutines of this package are scheduled and a timer expires; a      *)
(* backend need not answer.                                                 *)
FairSpec == Spec /\ WF_vars(Run)
-----------------------------------------------------------------------------
(* Get, when the backends in down fail: the first backend that has a value, *)
(* or fails, has the answer.                                                *)
Answer(e, v) == [failed |-> e, val |-> v]
Get(down) ==
  LET ends == {i \in DOMAIN Backends : Backends[i] \in down \/ stored[Backends[i]] # 0}
      first == Backends[CHOOSE i \in ends : \A j \in ends : i <= j]
  IN  IF ends = {} THEN Answer(FALSE, 0)
      ELSE IF first \in down THEN Answer(TRUE, 0) ELSE Answer(FALSE, stored[first])

(* Every variable keeps its type (multi.go:61-101).                         *)
TypeOK ==
  /\ stored \in [B -> 0..MaxSets]
  /\ ctx \in [Sets -> {"none", "live", "cancelled", "expired"}]
  /\ err \in [Sets -> {"none", "ok", "failed", "cancelled", "expired"}]
  /\ outer \in [Sets -> [B -> {"none", "wait", "ended"}]]
  /\ inner \in [Sets -> [B -> {"none", "writing", "send", "ended"}]]
  /\ stop \in [Sets -> [B -> BOOLEAN]]
  /\ res \in [Sets -> [B -> {"none", "ok", "failed"}]]

(* The result of Set is true: nil means that every backend is written and   *)
(* none of its goroutines is left, and the error of a backend is not masked *)
(* by the cancellation that it causes for the others (multi.go:60, 72-100). *)
ResultIsTrue ==
  \A s \in Sets : returned[s] =>
    /\ err[s] = "ok" => \A b \in B : res[s][b] = "ok" /\ inner[s][b] = "ended"
    /\ err[s] # "cancelled"

(* After calls that all returned nil, Get returns the value of the last     *)
(* one, whichever backend it asks first, or the error of that backend,      *)
(* whatever the others would have answered (multi.go:103-115).              *)
GetReturnsTheLast ==
  \A s \in Sets :
    (\A r \in 1..s : returned[r] /\ err[r] = "ok") /\ (\A r \in Sets : r > s => ctx[r] = "none")
      => /\ \A b \in B : stored[b] = s
         /\ \A down \in SUBSET B :
              Get(down) = IF Backends[1] \in down THEN Answer(TRUE, 0) ELSE Answer(FALSE, s)

(* With a timeout Set returns although a backend never answers, and when   *)
(* the backend has answered, the goroutine that called it ends, whether or  *)
(* not somebody still waits for the answer (multi.go:64-68, 80-91).         *)
Pending ==
  \/ Timeouts /\ \E s \in Sets : ctx[s] # "none" /\ ~returned[s]
  \/ \E s \in Sets, b \in B : inner[s][b] = "send"
SetEnds == Pending ~> ~Pending
=============================================================================
