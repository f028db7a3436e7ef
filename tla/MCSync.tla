------------------------------- MODULE MCSync -------------------------------
(* The packages that goroutines meet in: Singleflight, Suspend and          *)
(* EmailDaemon.  part says which of the three a behaviour is about; the     *)
(* others keep their initial state.                                         *)
EXTENDS Sync, TLC

CONSTANTS
  g1, g2, g3, k1, k2,      \* the callers and goroutines, and the keys
  s1, s2, w1, w2, q1, q2,  \* senders, workers and stoppers
  Senders, Workers, Stoppers, Capacities, MaxSends

VARIABLES
  part,
  capacity, direct, closed, chOpen, buf, epc, count, worker, tried, lost, raced, panicked

E == INSTANCE EmailDaemon WITH pc <- epc

SuspendVars == <<mu, states, nRuns, status, holder, spc, skey, run, blockedBy, failed, nResets>>
EmailVars == <<capacity, direct, closed, chOpen, buf, epc, count, worker, tried, lost, raced, panicked>>
MCVars == <<part, vars, SuspendVars, EmailVars>>
-----------------------------------------------------------------------------
(* Callers are interchangeable, and so are keys: they come in this order,   *)
(* and the first key is k1.                                                 *)
InOrder ==
  /\ nOps[g3] > 0 => nOps[g2] > 0
  /\ nOps[g2] > 0 => nOps[g1] > 0
  /\ nCalls > 0 => key[1] = k1

(* So are senders, workers and those who call Stop.                         *)
MailInOrder ==
  /\ count[s2] > 0 => count[s1] > 0
  /\ worker[w2].pc # "start" => worker[w1].pc # "start"
  /\ epc[q2] # "idle" => epc[q1] # "idle" \/ closed

(* Reset comes when both keys are in use.                                   *)
ResetOfTwo == nResets' = nResets \/ skey[g3] = k2

MCInit ==
  /\ part \in {"singleflight", "suspend", "email"}
  /\ Init /\ S!Init /\ E!Init
  /\ skey[g1] = k1 /\ skey[g2] = k1
  /\ part # "suspend" => skey[g3] = k1
  /\ capacity = 0 => direct
  /\ part # "email" => capacity = 0

MCNext ==
  \/ part = "singleflight" /\ Next /\ InOrder' /\ UNCHANGED <<part, SuspendVars, EmailVars>>
  \/ part = "suspend" /\ S!Next /\ ResetOfTwo /\ UNCHANGED <<part, vars, EmailVars>>
  \/ part = "email" /\ E!Next /\ MailInOrder' /\ UNCHANGED <<part, vars, SuspendVars>>

(* The fairness of the modules, for the part that runs.                     *)
MCSpec ==
  /\ MCInit /\ [][MCNext]_MCVars
  /\ Fairness
  /\ \A g \in Goroutines : SF_SuspendVars(part = "suspend" /\ S!Step(g))
  /\ WF_EmailVars(part = "email" /\ E!Run)
-----------------------------------------------------------------------------
(* EmailDaemon: no mail that Send has accepted disappears or is doubled,    *)
(* Send and Stop panic only when they meet, and mails go out as long as     *)
(* there is a worker (Send, Worker, Stop).                                  *)
MailsGoOut == []E!MailsAreKept /\ E!MailGoesOut
=============================================================================
