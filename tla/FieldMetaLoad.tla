--------------------------- MODULE FieldMetaLoad ----------------------------
(***************************************************************************)
(* Loading field metas from a generator, config/options.go                 *)
(* WithFieldMetaGenerator, and the generator that reads YAML files,        *)
(* config/storage/yaml.go WithLoadFieldMetaYAML.                           *)
(*                                                                         *)
(* The generator sends the metas on one channel and an error on another    *)
(* and closes both; the loader puts the metas into the trie of the service *)
(* while it holds the mutex.  A meta is its position; the loader refuses   *)
(* one which has both a write permission and a scope.                      *)
(***************************************************************************)
EXTENDS Integers, Sequences

CONSTANTS
  N,        \* number of metas the generator sends
  Caps,     \* buffers the channel of the metas may have; 0 in WithLoadFieldMetaYAML
  MaxLoads  \* bound: how often the load function runs

Numbers == 1..N

VARIABLES
  cap,        \* the buffer that the generator has chosen
  bad,        \* the metas that have a write permission and a scope
  gpc,        \* generator: "none", "send", "fail", "closeMeta", "closeErr", "ended"
  next,       \* the meta that it sends next
  failed,     \* an option of the generator has returned an error
  fmC,        \* buffer of the channel of the metas
  fmClosed, errClosed,
  lpc,        \* loader: "idle", "select"
  result,     \* of the last load: "none", "nil", "refused", "failed"
  once,       \* the load function has run
  nLoads,
  put         \* the metas in the trie

vars == <<cap, bad, gpc, next, failed, fmC, fmClosed, errClosed, lpc, result, once, nLoads, put>>

Init ==
  /\ cap \in Caps /\ bad \in SUBSET Numbers
  /\ gpc = "none" /\ next = 1 /\ failed = FALSE
  /\ fmC = <<>> /\ fmClosed = FALSE /\ errClosed = FALSE
  /\ lpc = "idle" /\ result = "none" /\ once = FALSE /\ nLoads = 0
  /\ put = {}
-----------------------------------------------------------------------------
(* The load function                                                        *)

Load ==
  /\ lpc = "idle" /\ nLoads < MaxLoads
  /\ nLoads' = nLoads + 1
  /\ IF once
     THEN result' = "nil" /\ UNCHANGED <<lpc, gpc>>
     ELSE result' = "none" /\ lpc' = "select" /\ gpc' = "send"
  /\ UNCHANGED <<cap, bad, next, failed, fmC, fmClosed, errClosed, once, put>>

(* The deferred function: once is set whatever the result is.               *)
LoadReturns(r) ==
  /\ lpc' = "idle" /\ once' = TRUE /\ result' = r

LoadMeta(m) ==
  IF m \in bad
  THEN LoadReturns("refused") /\ UNCHANGED put
  ELSE put' = put \cup {m} /\ UNCHANGED <<lpc, once, result>>

(* A meta from the buffer, or from the generator when there is no buffer.   *)
LoadBuffered ==
  /\ lpc = "select" /\ fmC # <<>>
  /\ fmC' = Tail(fmC)
  /\ LoadMeta(Head(fmC))
  /\ UNCHANGED <<cap, bad, gpc, next, failed, fmClosed, errClosed, nLoads>>

LoadSent ==
  /\ lpc = "select" /\ fmC = <<>> /\ gpc = "send" /\ next <= N
  /\ next' = next + 1
  /\ LoadMeta(next)
  /\ UNCHANGED <<cap, bad, gpc, failed, fmC, fmClosed, errClosed, nLoads>>

LoadMetaClosed ==
  /\ lpc = "select" /\ fmC = <<>> /\ fmClosed
  /\ LoadReturns("nil")
  /\ UNCHANGED <<cap, bad, gpc, next, failed, fmC, fmClosed, errClosed, nLoads, put>>

(* The error meets the generator's send, which has no buffer.               *)
LoadError ==
  /\ lpc = "select" /\ gpc = "fail"
  /\ LoadReturns("failed")
  /\ gpc' = "closeMeta"
  /\ UNCHANGED <<cap, bad, next, failed, fmC, fmClosed, errClosed, nLoads, put>>

LoadErrClosed ==
  /\ lpc = "select" /\ errClosed
  /\ LoadReturns("nil")
  /\ UNCHANGED <<cap, bad, gpc, next, failed, fmC, fmClosed, errClosed, nLoads, put>>
-----------------------------------------------------------------------------
(* The generator                                                            *)

GenBuffer ==
  /\ gpc = "send" /\ next <= N /\ Len(fmC) < cap
  /\ fmC' = Append(fmC, next)
  /\ next' = next + 1
  /\ UNCHANGED <<cap, bad, gpc, failed, fmClosed, errClosed, lpc, result, once, nLoads, put>>

(* An option, decoding the YAML or a permission may fail before any send.   *)
GenFail ==
  /\ gpc = "send" /\ next <= N
  /\ gpc' = "fail" /\ failed' = TRUE
  /\ UNCHANGED <<cap, bad, next, fmC, fmClosed, errClosed, lpc, result, once, nLoads, put>>

GenFinishOpen ==
  /\ gpc = "send" /\ next > N
  /\ gpc' = "ended"
  /\ UNCHANGED <<cap, bad, next, failed, fmC, fmClosed, errClosed, lpc, result, once, nLoads, put>>

GenFinish ==
  /\ gpc = "send" /\ next > N
  /\ gpc' = "closeMeta"
  /\ UNCHANGED <<cap, bad, next, failed, fmC, fmClosed, errClosed, lpc, result, once, nLoads, put>>

GenCloseMeta ==
  /\ gpc = "closeMeta"
  /\ fmClosed' = TRUE /\ gpc' = "closeErr"
  /\ UNCHANGED <<cap, bad, next, failed, fmC, errClosed, lpc, result, once, nLoads, put>>

GenCloseErr ==
  /\ gpc = "closeErr"
  /\ errClosed' = TRUE /\ gpc' = "ended"
  /\ UNCHANGED <<cap, bad, next, failed, fmC, fmClosed, lpc, result, once, nLoads, put>>

LoaderStep == LoadBuffered \/ LoadSent \/ LoadMetaClosed \/ LoadError \/ LoadErrClosed
GeneratorStep == GenBuffer \/ GenFinish \/ GenCloseMeta \/ GenCloseErr

Next == Load \/ LoaderStep \/ GeneratorStep \/ GenFail

Spec == Init /\ [][Next]_vars

(* Both goroutines are scheduled, and reading the files ends.               *)
FairSpec == Spec /\ WF_vars(LoaderStep) /\ WF_vars(GeneratorStep)
-----------------------------------------------------------------------------
(* Every variable keeps its type (options.go:128-168, yaml.go:77-84).       *)
TypeOK ==
  /\ cap \in Caps
  /\ bad \subseteq Numbers /\ put \subseteq Numbers \ bad
  /\ gpc \in {"none", "send", "fail", "closeMeta", "closeErr", "ended"}
  /\ next \in 1..N + 1
  /\ fmC \in Seq(Numbers) /\ Len(fmC) <= cap
  /\ {failed, fmClosed, errClosed, once} \subseteq BOOLEAN
  /\ lpc \in {"idle", "select"}
  /\ result \in {"none", "nil", "refused", "failed"}
  /\ nLoads \in 0..MaxLoads

(* The result of the first load is true: nil means that every meta the      *)
(* generator had to send is in the trie, whichever of the two closed        *)
(* channels ended the load, or still in a buffer; and an error of the       *)
(* generator is what the load returns, unless a meta has been refused       *)
(* before (options.go:126-127, 143-162, yaml.go:129-132).                   *)
ResultIsTrue ==
  nLoads = 1 =>
    /\ result = "nil" => put \cup {fmC[i] : i \in DOMAIN fmC} = Numbers
    /\ failed /\ gpc \in {"closeMeta", "closeErr", "ended"} => result = "failed"

(* The load returns, and the generator ends when there is no meta to refuse *)
(* (after a refusal nobody receives what the generator sends;               *)
(* options.go:149, yaml.go:81).                                             *)
BothEnd ==
  /\ lpc = "select" ~> lpc = "idle"
  /\ bad = {} => (gpc = "send" ~> gpc = "ended")
=============================================================================
