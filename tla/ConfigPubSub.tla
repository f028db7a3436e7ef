---------------------------- MODULE ConfigPubSub ----------------------------
(***************************************************************************)
(* The publish/subscribe part of config.Service, config/service_pubsub.go. *)
(*                                                                         *)
(* One goroutine, the publisher, runs publish(): it selects between the    *)
(* unbuffered channels stop and pubPath, calls the subscribers of a        *)
(* written path level by level, each level under mu.RLock, and then        *)
(* unsubscribes those that failed.  Senders are the goroutines in          *)
(* Service.Set that call sendMsg, closers the ones that call Close.        *)
(*                                                                         *)
(* A path is the sequence of its segments, scope and scope ID first, and a *)
(* topic is what Subscribe was given, split in the same way.               *)
(***************************************************************************)
EXTENDS Integers, Sequences

CONSTANTS
  Senders, Closers,
  Segments,   \* the parts of a path
  Paths,      \* paths that are written: scope, scope ID and a route of three parts or more
  Topics,     \* topics that are subscribed to
  HasLog,     \* Options.Log was set, so that pubSub.log is not nil
  Reentrant,  \* a subscriber may call Set, Subscribe or Unsubscribe itself
  MaxSubs,    \* bound: subscriptions ever made
  MaxSends    \* bound: invocations of sendMsg

ASSUME PubSubAssumption ==
  /\ Paths \subseteq Seq(Segments) /\ \A p \in Paths : Len(p) >= 5
  /\ Topics \subseteq Seq(Segments) \ {<<>>}
  /\ HasLog \in BOOLEAN /\ Reentrant \in BOOLEAN
  /\ MaxSubs \in Nat /\ MaxSends \in Nat

VARIABLES
  topic,      \* subMap: topic of a subscription ID, <<>> when it is not in the map
  subAutoInc,
  closed,     \* the flag
  closedChans,\* which of "pubPath", "stop" and "closeErr" have been closed
  ppc,        \* the publisher
  cur,        \* the path it publishes
  level,      \* the level it has got to, an index of Levels
  pending,    \* subscriptions of that level it has still to call
  evict,      \* subscriptions that failed
  spc, spath, \* a sender, and the path it sends
  cpc,        \* a closer
  nSends, nMsgs,  \* messages sent, and received by the publisher
  called,     \* history: <<message, subscription>> of every call of a subscriber
  failed,     \* history: subscriptions whose call failed
  gone        \* history: subscriptions for which Unsubscribe has returned

subVars == <<topic, subAutoInc, gone>>
chanVars == <<closed, closedChans>>
pubVars == <<ppc, cur, level, pending, evict, nMsgs, called, failed>>
sendVars == <<spc, spath, nSends>>
vars == <<subVars, chanVars, pubVars, sendVars, cpc>>

SubIds == 1..MaxSubs

(* Path.Level: the first depth segments, or all of them.                    *)
Level(p, depth) ==
  IF depth < 0 \/ depth >= Len(p) THEN p ELSE SubSeq(p, 1, depth)

LevelsFive == <<1, 2, 3, 5, -1>>

(* The levels publish() walks through.                                      *)
Levels == <<1, 2, 3, 4, -1>>

(* The publisher holds mu.RLock while it calls subscribers.                 *)
RLocked == ppc \in {"calling", "stuck"}
Running == ppc # "crashed"

Init ==
  /\ topic = [i \in SubIds |-> <<>>]
  /\ subAutoInc = 0
  /\ closed = FALSE
  /\ closedChans = {}
  /\ ppc = "select"
  /\ cur = <<>> /\ level = 1 /\ pending = {} /\ evict = {}
  /\ spc = [s \in Senders |-> "idle"]
  /\ spath = [s \in Senders |-> <<>>]
  /\ cpc = [c \in Closers |-> "idle"]
  /\ nSends = 0 /\ nMsgs = 0
  /\ called = {} /\ failed = {} /\ gone = {}
-----------------------------------------------------------------------------
(* Subscribe and Unsubscribe, each under mu.Lock.                           *)

Subscribe(t) ==
  /\ Running /\ ~RLocked
  /\ subAutoInc < MaxSubs
  /\ subAutoInc' = subAutoInc + 1
  /\ topic' = [topic EXCEPT ![subAutoInc + 1] = t]
  /\ UNCHANGED <<gone, chanVars, pubVars, sendVars, cpc>>

RemoveUnlocked(i) ==
  /\ topic' = [topic EXCEPT ![i] = <<>>]
  /\ gone' = gone \cup {i}
  /\ UNCHANGED subAutoInc

Remove(i) ==
  /\ ~RLocked
  /\ topic' = [topic EXCEPT ![i] = <<>>]
  /\ gone' = gone \cup {i}
  /\ UNCHANGED subAutoInc

Unsubscribe(i) ==
  /\ Running
  /\ i \in 1..subAutoInc
  /\ Remove(i)
  /\ UNCHANGED <<chanVars, pubVars, sendVars, cpc>>
-----------------------------------------------------------------------------
(* sendMsg: the flag is read, without a lock, before the send.              *)

SendCheck(s, p) ==
  /\ Running
  /\ spc[s] = "idle"
  /\ nSends < MaxSends
  /\ nSends' = nSends + 1
  /\ IF closed THEN UNCHANGED <<spc, spath>>
     ELSE /\ spc' = [spc EXCEPT ![s] = "sending"]
          /\ spath' = [spath EXCEPT ![s] = p]
  /\ UNCHANGED <<subVars, chanVars, pubVars, cpc>>

(* A send on a closed channel panics, also when the sender was blocked.     *)
SendPanics(s) ==
  /\ Running
  /\ spc[s] = "sending"
  /\ "pubPath" \in closedChans
  /\ spc' = [spc EXCEPT ![s] = "panicked"]
  /\ UNCHANGED <<subVars, chanVars, pubVars, spath, nSends, cpc>>
-----------------------------------------------------------------------------
(* publish()                                                                *)

(* case p := <-s.pubPath: the rendezvous with a sender.                     *)
PublishReceive(s) ==
  /\ ppc = "select"
  /\ spc[s] = "sending"
  /\ "pubPath" \notin closedChans
  /\ spc' = [spc EXCEPT ![s] = "idle"]
  /\ cur' = spath[s]
  /\ nMsgs' = nMsgs + 1
  /\ ppc' = IF \A i \in SubIds : topic[i] = <<>> THEN "select" ELSE "levels"
  /\ level' = 1 /\ evict' = {}
  /\ UNCHANGED <<subVars, chanVars, pending, called, failed, spath, nSends, cpc>>

(* readMapAndSend: RLock, and the subscriptions of this level.              *)
ReadMap ==
  /\ ppc = "levels"
  /\ ppc' = "calling"
  /\ pending' = {i \in SubIds : topic[i] = Level(cur, Levels[level])}
  /\ UNCHANGED <<subVars, chanVars, cur, level, evict, nMsgs, called, failed, sendVars, cpc>>

(* sendMsgs: one subscriber is called; it may return an error or panic.     *)
(* Logging the failure dereferences pubSub.log outside of the recover.      *)
CallSubscriber(i, ok) ==
  /\ ppc = "calling"
  /\ i \in pending
  /\ pending' = pending \ {i}
  /\ called' = called \cup {<<nMsgs, i>>}
  /\ failed' = IF ok THEN failed ELSE failed \cup {i}
  /\ evict' = IF ok THEN evict ELSE evict \cup {i}
  /\ ppc' = IF ok \/ HasLog THEN "calling" ELSE "crashed"
  /\ UNCHANGED <<subVars, chanVars, cur, level, nMsgs, sendVars, cpc>>

(* A subscriber that calls Set waits for the publisher, which is itself;    *)
(* one that calls Subscribe or Unsubscribe waits for its own RLock.         *)
CallReenters(i) ==
  /\ Reentrant
  /\ ppc = "calling"
  /\ i \in pending
  /\ ppc' = "stuck"
  /\ called' = called \cup {<<nMsgs, i>>}
  /\ UNCHANGED <<subVars, chanVars, cur, level, pending, evict, nMsgs, failed, sendVars, cpc>>

LevelDoneShort ==
  /\ ppc = "calling"
  /\ pending = {}
  /\ IF level < Len(Levels) - 1
       THEN ppc' = "levels" /\ level' = level + 1
       ELSE ppc' = "evict" /\ UNCHANGED level
  /\ UNCHANGED <<subVars, chanVars, cur, pending, evict, nMsgs, called, failed, sendVars, cpc>>

(* RUnlock; on to the next level, or to the removal of the failed.          *)
LevelDone ==
  /\ ppc = "calling"
  /\ pending = {}
  /\ IF level < Len(Levels)
       THEN ppc' = "levels" /\ level' = level + 1
       ELSE ppc' = "evict" /\ UNCHANGED level
  /\ UNCHANGED <<subVars, chanVars, cur, pending, evict, nMsgs, called, failed, sendVars, cpc>>

(* Unsubscribe of one failed subscription, until none is left.              *)
Evict ==
  /\ ppc = "evict"
  /\ \/ /\ evict = {}
        /\ ppc' = "select"
        /\ UNCHANGED <<subVars, evict>>
     \/ \E i \in evict :
          /\ Remove(i)
          /\ evict' = evict \ {i}
          /\ UNCHANGED ppc
  /\ UNCHANGED <<chanVars, cur, level, pending, nMsgs, called, failed, sendVars, cpc>>

(* The send on closeErr panics when another closer has closed it.           *)
ClosingPanics ==
  /\ ppc = "closing"
  /\ "closeErr" \in closedChans
  /\ ppc' = "crashed"
  /\ UNCHANGED <<subVars, chanVars, cur, level, pending, evict, nMsgs, called, failed, sendVars, cpc>>
-----------------------------------------------------------------------------
(* Close                                                                    *)

Closer(c, from, to) ==
  /\ Running
  /\ cpc[c] = from
  /\ cpc' = [cpc EXCEPT ![c] = to]
  /\ UNCHANGED <<subVars, sendVars, cur, level, pending, evict, nMsgs, called, failed>>

CloseCheck(c) ==
  /\ Closer(c, "idle", IF closed THEN "already" ELSE "checked")
  /\ UNCHANGED <<chanVars, ppc>>

CloseSet(c) ==
  /\ Closer(c, "checked", "stopping")
  /\ closed' = TRUE
  /\ UNCHANGED <<closedChans, ppc>>

(* s.stop <- struct{}{}: the rendezvous with the publisher's select ...     *)
CloseStop(c) ==
  /\ Closer(c, "stopping", "stopped")
  /\ ppc = "select"
  /\ ppc' = "closing"
  /\ UNCHANGED chanVars

(* ... which panics when stop is closed; the deferred close(closeErr) runs. *)
CloseStopPanics(c) ==
  /\ Closer(c, "stopping", "panicked")
  /\ "stop" \in closedChans
  /\ closedChans' = closedChans \cup {"closeErr"}
  /\ UNCHANGED <<closed, ppc>>

ClosePubPath(c) ==
  /\ Closer(c, "stopped", "closepub")
  /\ closedChans' = closedChans \cup {"pubPath"}
  /\ UNCHANGED <<closed, ppc>>

CloseStopChanAll(c) ==
  /\ Closer(c, "closepub", "waiting")
  /\ closedChans' = closedChans \cup {"stop", "closeErr"}
  /\ UNCHANGED <<closed, ppc>>

CloseStopChan(c) ==
  /\ Closer(c, "closepub", "waiting")
  /\ closedChans' = closedChans \cup {"stop"}
  /\ UNCHANGED <<closed, ppc>>

CloseAnswerUnread(c) ==
  /\ Closer(c, "waiting", "answered")
  /\ UNCHANGED <<chanVars, ppc>>

(* <-s.closeErr: the publisher's answer, or a channel closed by another.    *)
CloseAnswer(c) ==
  /\ Closer(c, "waiting", "answered")
  /\ \/ ppc = "closing" /\ "closeErr" \notin closedChans /\ ppc' = "exited"
     \/ "closeErr" \in closedChans /\ UNCHANGED ppc
  /\ UNCHANGED chanVars

(* The deferred close(s.closeErr), which panics the second time.            *)
CloseReturn(c) ==
  /\ Closer(c, "answered", IF "closeErr" \in closedChans THEN "panicked" ELSE "closed")
  /\ closedChans' = closedChans \cup {"closeErr"}
  /\ UNCHANGED <<closed, ppc>>
-----------------------------------------------------------------------------
Publisher ==
  \/ \E s \in Senders : PublishReceive(s)
  \/ ReadMap \/ LevelDone \/ Evict \/ ClosingPanics
  \/ \E i \in SubIds : (\E ok \in BOOLEAN : CallSubscriber(i, ok)) \/ CallReenters(i)

CloseStep(c) ==
  \/ CloseSet(c) \/ CloseStop(c) \/ CloseStopPanics(c) \/ ClosePubPath(c)
  \/ CloseStopChan(c) \/ CloseAnswer(c) \/ CloseReturn(c)

Next ==
  \/ \E t \in Topics : Subscribe(t)
  \/ \E i \in SubIds : Unsubscribe(i)
  \/ \E s \in Senders, p \in Paths : SendCheck(s, p)
  \/ \E s \in Senders : SendPanics(s)
  \/ Publisher
  \/ \E c \in Closers : CloseCheck(c) \/ CloseStep(c)

Spec == Init /\ [][Next]_vars

(* The publisher and whoever is inside sendMsg or Close are scheduled, and  *)
(* subscribers return.  A channel serves its blocked senders in turn, and   *)
(* select chooses at random among the channels that are ready, so that      *)
(* neither a sender nor a closer is passed over for ever.  Nobody is        *)
(* obliged to write, to subscribe or to close.                              *)
Fairness ==
  /\ WF_vars(Publisher)
  /\ \A s \in Senders : SF_vars(PublishReceive(s)) /\ WF_vars(SendPanics(s))
  /\ \A c \in Closers : SF_vars(CloseStop(c)) /\ WF_vars(CloseStep(c))

FairSpec == Spec /\ Fairness
-----------------------------------------------------------------------------
(* Every variable keeps its type (service_pubsub.go:53-67).                 *)
TypeOK ==
  /\ topic \in [SubIds -> Topics \cup {<<>>}]
  /\ subAutoInc \in 0..MaxSubs
  /\ closed \in BOOLEAN
  /\ closedChans \subseteq {"pubPath", "stop", "closeErr"}
  /\ ppc \in {"select", "levels", "calling", "evict", "stuck", "closing", "exited", "crashed"}
  /\ cur \in Paths \cup {<<>>}
  /\ level \in 1..5
  /\ pending \subseteq SubIds /\ evict \subseteq SubIds
  /\ spc \in [Senders -> {"idle", "sending", "panicked"}]
  /\ spath \in [Senders -> Paths \cup {<<>>}]
  /\ cpc \in [Closers -> {"idle", "already", "checked", "stopping", "stopped", "closepub",
                          "waiting", "answered", "closed", "panicked"}]
  /\ nSends \in 0..MaxSends /\ nMsgs \in Nat
  /\ called \subseteq Nat \X SubIds
  /\ failed \subseteq SubIds /\ gone \subseteq SubIds

(* The subscribers that a step calls.                                       *)
CalledNow == {i \in SubIds : <<nMsgs, i>> \in called' \ called}

(* Once Unsubscribe has returned, the subscriber is not called any more,    *)
(* also not for a message that was being published meanwhile: the write     *)
(* lock of Unsubscribe waits for the level that is being delivered.  A      *)
(* subscriber that returned an error or panicked is called no more either:  *)
(* it is removed before the publisher takes the next message, and is not    *)
(* met again on another level of the same message.                          *)
NoCallAfterRemoval == [][CalledNow \cap (gone \cup failed) = {}]_vars

(* A subscriber is called at most once for one written path, although the   *)
(* publisher looks it up five times: a topic equals one level at most.      *)
AtMostOncePerMessage ==
  [][\A i \in SubIds : i \in pending /\ i \notin pending' => i \in CalledNow]_vars

(* When Close has returned nil the goroutine has ended, so that nobody is   *)
(* called afterwards, whatever other calls of Close do at the same time.    *)
QuietAfterClose == (\E c \in Closers : cpc[c] = "closed") => ppc = "exited"

(* No progress is possible any more: a subscriber has called back into the  *)
(* service, or the process has ended by a panic of the publisher.           *)
Halted == ppc \in {"stuck", "crashed"}

(* A subscription whose topic is a level of the written path that publish() *)
(* visits is called for the message, unless it is removed meanwhile or a    *)
(* subscriber called back.                                                  *)
Delivered ==
  \A n \in 1..MaxSends, i \in SubIds :
    (/\ nMsgs = n /\ ppc = "levels" /\ level = 1
     /\ \E l \in DOMAIN Levels : topic[i] = Level(cur, Levels[l]))
      ~> (<<n, i>> \in called \/ topic[i] = <<>> \/ Halted)

(* Set comes back from sendMsg, and Close to its caller, as long as         *)
(* subscribers do not call back.  It may be by a panic: of a Set that read  *)
(* the flag before Close set it and sends on the closed channel, although   *)
(* the comment on the flag says that one can "still Write() without panic"  *)
(* (service_pubsub.go:65), and of two closers that have both got past it.   *)
BlockedReturn ==
  /\ \A s \in Senders : spc[s] = "sending" ~> (spc[s] # "sending" \/ Halted)
  /\ \A c \in Closers : cpc[c] = "checked" ~> (cpc[c] \in {"closed", "panicked"} \/ Halted)

(* sendMsg, publish and Close: what is written is delivered, and who waits  *)
(* for the publisher comes back.                                            *)
MessagesGoThrough == Delivered /\ BlockedReturn

(* The panics of Close and of the publisher in its select have one cause:   *)
(* two goroutines got past the unlocked check of the closed flag.  A failed *)
(* subscriber ends the process only where there is no logger.               *)
PanicNeedsTwoClosers ==
  ((ppc = "crashed" /\ HasLog) \/ \E c \in Closers : cpc[c] = "panicked") =>
    \E c, d \in Closers : c # d /\ {cpc[c], cpc[d]} \cap {"idle", "already", "checked"} = {}
=============================================================================
