---------------------------- MODULE EmailDaemon ----------------------------
(***************************************************************************)
(* email.Daemon: senders put mails into a channel, workers take them out   *)
(* and give them to an SMTP server, and Stop closes the channel.           *)
(*                                                                         *)
(* closed is read and written by all of them without a lock.  capacity is  *)
(* that of the channel (NewDaemon makes an unbuffered one, the option      *)
(* SetMessageChannel sets another); direct says that a sendFunc is set and *)
(* no dialer.  raced and lost are history: the senders whose Send has met  *)
(* a Stop, and the mails that a worker had when its Dial failed.           *)
(***************************************************************************)
EXTENDS Naturals, Sequences

CONSTANTS Senders, Workers, Stoppers, Capacities, MaxSends

VARIABLES capacity, direct,
          closed, chOpen, buf,      \* Daemon.closed and the channel msgChan
          pc, count,                \* sender and stopper -> where it is; sender -> its mails so far
          worker,                   \* worker -> [pc, mail, open]
          tried, lost, raced, panicked

channel == <<closed, chOpen, buf>>
vars == <<capacity, direct, channel, pc, count, worker, tried, lost, raced, panicked>>

NoMail == <<>>
Mail(p) == <<p, count[p]>>
Stopping == \E q \in Stoppers : pc[q] # "idle"

Init ==
  /\ capacity \in Capacities /\ direct \in BOOLEAN
  /\ closed = FALSE /\ chOpen = TRUE /\ buf = <<>>
  /\ pc = [p \in Senders \cup Stoppers |-> "idle"] /\ count = [p \in Senders |-> 0]
  /\ worker = [w \in Workers |-> [pc |-> "start", mail |-> NoMail, open |-> FALSE]]
  /\ tried = {} /\ lost = {} /\ raced = {} /\ panicked = FALSE

Goto(p, l) == pc' = [pc EXCEPT ![p] = l]
-----------------------------------------------------------------------------
(* Send: the flag is read, then the mail goes into the channel.             *)
Send(p) ==
  /\ pc[p] = "idle" /\ count[p] < MaxSends
  /\ IF closed THEN UNCHANGED <<pc, count, raced>>
     ELSE /\ Goto(p, "sending") /\ count' = [count EXCEPT ![p] = @ + 1]
          /\ raced' = IF Stopping THEN raced \cup {p} ELSE raced \ {p}
  /\ UNCHANGED <<capacity, direct, channel, worker, tried, lost, panicked>>

Enqueue(p) ==
  /\ pc[p] = "sending" /\ chOpen /\ Len(buf) < capacity
  /\ buf' = Append(buf, Mail(p)) /\ Goto(p, "idle")
  /\ UNCHANGED <<capacity, direct, closed, chOpen, count, worker, tried, lost, raced, panicked>>

HandOver(p, w) ==
  /\ pc[p] = "sending" /\ chOpen /\ buf = <<>> /\ worker[w].pc = "select"
  /\ worker' = [worker EXCEPT ![w].pc = "got", ![w].mail = Mail(p)] /\ Goto(p, "idle")
  /\ UNCHANGED <<capacity, direct, channel, count, tried, lost, raced, panicked>>

(* A send to a closed channel, also one that waits in it, panics.           *)
SendPanics(p) ==
  /\ pc[p] = "sending" /\ ~chOpen /\ panicked' = TRUE /\ Goto(p, "panic")
  /\ UNCHANGED <<capacity, direct, channel, count, worker, tried, lost, raced>>
-----------------------------------------------------------------------------
(* Worker, workerSendFunc and workerDial.                                   *)
Start(w) ==
  /\ worker[w].pc = "start" /\ worker' = [worker EXCEPT ![w].pc = IF closed THEN "ended" ELSE "select"]
  /\ UNCHANGED <<capacity, direct, channel, pc, count, tried, lost, raced, panicked>>

\* as Receive, but the mails left in a closed channel are not taken
ReceiveOpen(w) ==
  /\ worker[w].pc = "select" /\ buf # <<>> /\ chOpen
  /\ worker' = [worker EXCEPT ![w].pc = "got", ![w].mail = Head(buf)] /\ buf' = Tail(buf)
  /\ UNCHANGED <<capacity, direct, closed, chOpen, pc, count, tried, lost, raced, panicked>>

Receive(w) ==
  /\ worker[w].pc = "select" /\ buf # <<>>
  /\ worker' = [worker EXCEPT ![w].pc = "got", ![w].mail = Head(buf)] /\ buf' = Tail(buf)
  /\ UNCHANGED <<capacity, direct, closed, chOpen, pc, count, tried, lost, raced, panicked>>

ChannelClosed(w) ==
  /\ worker[w].pc = "select" /\ buf = <<>> /\ ~chOpen
  /\ closed' = TRUE /\ worker' = [worker EXCEPT ![w].pc = "ended"]
  /\ UNCHANGED <<capacity, direct, chOpen, buf, pc, count, tried, lost, raced, panicked>>

DialFails(w) ==
  /\ worker[w].pc = "got" /\ ~direct /\ ~worker[w].open
  /\ lost' = lost \cup {worker[w].mail} /\ worker' = [worker EXCEPT ![w].pc = "failed", ![w].mail = NoMail]
  /\ UNCHANGED <<capacity, direct, channel, pc, count, tried, raced, panicked>>

(* The mail goes to the server, over a new connection if none is open; an   *)
(* error of the server is logged.                                           *)
Deliver(w) ==
  /\ worker[w].pc = "got" /\ tried' = tried \cup {worker[w].mail}
  /\ worker' = [worker EXCEPT ![w].pc = "select", ![w].mail = NoMail, ![w].open = ~direct]
  /\ UNCHANGED <<capacity, direct, channel, pc, count, lost, raced, panicked>>

(* No mail for SmtpTimeout: the connection is closed; an error of Close     *)
(* ends the worker.                                                         *)
Timeout(w) ==
  /\ worker[w].pc = "select" /\ worker[w].open
  /\ \E next \in {[pc |-> "select", mail |-> NoMail, open |-> FALSE], [pc |-> "failed", mail |-> NoMail, open |-> TRUE]} :
       worker' = [worker EXCEPT ![w] = next]
  /\ UNCHANGED <<capacity, direct, channel, pc, count, tried, lost, raced, panicked>>
-----------------------------------------------------------------------------
(* Stop: the flag is read, the channel closed and the flag set.             *)
Stop(q) ==
  /\ pc[q] = "idle" /\ ~closed /\ Goto(q, "closing")
  /\ raced' = raced \cup {p \in Senders : pc[p] = "sending"} \cup (IF Stopping THEN Stoppers ELSE {})
  /\ UNCHANGED <<capacity, direct, channel, count, worker, tried, lost, panicked>>

CloseChannel(q) ==
  /\ pc[q] = "closing" /\ chOpen' = FALSE
  /\ IF chOpen THEN Goto(q, "flag") /\ UNCHANGED panicked ELSE Goto(q, "panic") /\ panicked' = TRUE
  /\ UNCHANGED <<capacity, direct, closed, buf, count, worker, tried, lost, raced>>

SetClosed(q) ==
  /\ pc[q] = "flag" /\ closed' = TRUE /\ Goto(q, "idle")
  /\ UNCHANGED <<capacity, direct, chOpen, buf, count, worker, tried, lost, raced, panicked>>
-----------------------------------------------------------------------------
WorkerStep(w) == Start(w) \/ Receive(w) \/ ChannelClosed(w) \/ DialFails(w) \/ Deliver(w)
Next ==
  /\ ~panicked
  /\ \/ \E p \in Senders : Send(p) \/ Enqueue(p) \/ SendPanics(p) \/ \E w \in Workers : HandOver(p, w)
     \/ \E w \in Workers : WorkerStep(w) \/ Timeout(w)
     \/ \E q \in Stoppers : Stop(q) \/ CloseChannel(q) \/ SetClosed(q)

(* A worker and a sender that can run are scheduled, and so is a Stop.      *)
Run == /\ ~panicked
       /\ \/ \E p \in Senders : Enqueue(p) \/ SendPanics(p) \/ \E w \in Workers : HandOver(p, w)
          \/ \E w \in Workers : WorkerStep(w)
          \/ \E q \in Stoppers : CloseChannel(q) \/ SetClosed(q)
Spec == Init /\ [][Next]_vars /\ WF_vars(Run)
-----------------------------------------------------------------------------
(* Send and Stop panic only in a Send that meets a Stop or in a Stop that   *)
(* meets another one, and each mail that Send has accepted is in one place: *)
(* in the channel, with a worker, given to the server, or lost by a Dial.   *)
held == {worker[w].mail : w \in Workers} \ {NoMail}
queued == {buf[i] : i \in DOMAIN buf}

InOnePlace ==
  /\ \A i, j \in DOMAIN buf : buf[i] = buf[j] => i = j
  /\ \A v, w \in Workers : worker[v].mail = worker[w].mail => v = w \/ worker[v].mail = NoMail
  /\ held \cap queued = {} /\ (held \cup queued) \cap (tried \cup lost) = {} /\ tried \cap lost = {}

MailsAreKept ==
  /\ \A p \in DOMAIN pc : pc[p] = "panic" => p \in raced
  /\ \A p \in Senders, n \in 1..MaxSends :
       n < count[p] \/ (n = count[p] /\ pc[p] = "idle") => <<p, n>> \in held \cup queued \cup tried \cup lost
  /\ InOnePlace

(* A Send returns and the mails go out as long as there is a worker: one    *)
(* whose Dial or Close has failed is gone, and without one the senders wait *)
(* for ever.                                                                *)
Waiting == buf # <<>> \/ (\E p \in Senders : pc[p] = "sending") \/ (\E w \in Workers : worker[w].pc = "got")
NoWorker == \A w \in Workers : worker[w].pc \in {"failed", "ended"}
MailGoesOut == Waiting ~> (~Waiting \/ NoWorker \/ panicked)
=============================================================================
