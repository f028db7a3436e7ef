---------------------------- MODULE BinlogSyncer ----------------------------
(***************************************************************************)
(* BinlogSyncer, BinlogStreamer and BinlogParser of sql/myreplicator: one  *)
(* goroutine (onStream) reads the binary log of a server over a connection *)
(* that it opens again when it breaks, and hands the events to a channel.  *)
(*                                                                         *)
(* A position is <<file, offset>>: file 0 stands for the empty name; an    *)
(* event takes one unit, so that the i-th event of a file ends at 4 + i.   *)
(***************************************************************************)
EXTENDS Integers, Sequences, FiniteSets

CONSTANTS ChanCap     \* the capacity of bleChan (10240)

VARIABLES log,        \* the server: its files, sequences of [kind, table, end]
          dump,       \* the server: what the connection will send next
          con,        \* "nil", "up", "down" (a read or write will fail)
          mu,         \* b.m: "free" or "close"
          running, ctxDone, deadline,
          nextPos,
          format,     \* the parser knows the format
          tables,     \* the tables of the parser
          spc,        \* onStream: "none", "read", "push", "select", "lock", "ended"
          hand,       \* the event that parseEvent is about to send
          bleChan,
          errChan,    \* the number of errors in it
          pushed      \* the events of the log that went into bleChan (history)

serverVars == <<log, dump>>
parserVars == <<format, tables>>
streamVars == <<nextPos, spc, hand, bleChan, errChan, pushed>>
syncerVars == <<dump, con, mu, running, ctxDone, deadline, parserVars, streamVars>>
-----------------------------------------------------------------------------
(* The server.  A dump starts with an artificial rotate event to the asked  *)
(* position and, inside of a file, an artificial format description; each   *)
(* further file starts with an artificial rotate event.  Their LogPos is 0, *)
(* and "to" is where the dump goes on: only a rotate event carries it.      *)
NoPos == <<0, 0>>
NoTable == ""
At(f, i) == [kind |-> log[f][i].kind, table |-> log[f][i].table, end |-> log[f][i].end, id |-> <<f, i>>,
             logPos |-> 4 + i, to |-> IF log[f][i].kind = "rotate" THEN <<f + 1, 4>> ELSE NoPos]
Artificial(kind, p) == [kind |-> kind, table |-> NoTable, end |-> FALSE, id |-> NoPos, logPos |-> 0, to |-> p]
Entry(kind, table, end) == [kind |-> kind, table |-> table, end |-> end]
NewFile == <<Entry("format", NoTable, FALSE), Entry("other", NoTable, FALSE)>>

DumpFrom(p) == [hello |-> IF p[2] > 4 THEN <<Artificial("rotate", p), Artificial("format", p)>>
                          ELSE <<Artificial("rotate", p)>>,
                file |-> p[1], next |-> p[2] - 3]
HasPacket == dump.hello # <<>> \/ dump.next <= Len(log[dump.file])
Packet == IF dump.hello # <<>> THEN Head(dump.hello) ELSE At(dump.file, dump.next)
AfterPacket ==
  IF dump.hello # <<>> THEN [dump EXCEPT !.hello = Tail(@)]
  ELSE IF Packet.kind = "rotate"
       THEN [hello |-> <<Artificial("rotate", Packet.to)>>, file |-> dump.file + 1, next |-> 1]
       ELSE [dump EXCEPT !.next = @ + 1]

(* A statement maps its tables and then lists their rows.                   *)
Statement(ts) == [i \in DOMAIN ts |-> Entry("map", ts[i], FALSE)]
                 \o [i \in DOMAIN ts |-> Entry("rows", ts[i], i = Len(ts))] \o <<Entry("xid", NoTable, FALSE)>>
Write(entries) == log' = [log EXCEPT ![Len(log)] = @ \o entries]
Flush == log' = Append([log EXCEPT ![Len(log)] = Append(@, Entry("rotate", NoTable, FALSE))], NewFile)
MasterPos == <<Len(log), 4 + Len(log[Len(log)])>>
-----------------------------------------------------------------------------
NewSyncer ==
  /\ dump' = DumpFrom(<<1, 4>>) /\ con' = "nil" /\ mu' = "free"
  /\ running' = FALSE /\ ctxDone' = FALSE /\ deadline' = FALSE
  /\ format' = FALSE /\ tables' = {}
  /\ nextPos' = NoPos /\ spc' = "none" /\ hand' = Artificial("none", NoPos)
  /\ bleChan' = <<>> /\ errChan' = 0 /\ pushed' = <<>>

SyncerInit ==
  /\ dump = DumpFrom(<<1, 4>>) /\ con = "nil" /\ mu = "free"
  /\ running = FALSE /\ ctxDone = FALSE /\ deadline = FALSE
  /\ format = FALSE /\ tables = {}
  /\ nextPos = NoPos /\ spc = "none" /\ hand = Artificial("none", NoPos)
  /\ bleChan = <<>> /\ errChan = 0 /\ pushed = <<>>

(* prepareSyncPos, with prepare, registerSlave and the dump command.        *)
prepareSyncPos(pos, ok) ==
  IF ok THEN con' = "up" /\ dump' = DumpFrom(<<pos[1], IF pos[2] < 4 THEN 4 ELSE pos[2]>>)
  ELSE con' = "nil" /\ UNCHANGED dump

(* StartSync holds the mutex from its first to its last step.               *)
StartSync(pos) ==
  /\ mu = "free" /\ ~running /\ ~ctxDone
  /\ prepareSyncPos(pos, TRUE)
  /\ running' = TRUE /\ spc' = "read"
  /\ UNCHANGED <<log, mu, ctxDone, deadline, parserVars, nextPos, hand, bleChan, errChan, pushed>>

StartSyncFails ==
  /\ mu = "free"
  /\ IF running \/ ctxDone THEN UNCHANGED <<con, dump>> ELSE prepareSyncPos(NoPos, FALSE)
  /\ UNCHANGED <<log, mu, running, ctxDone, deadline, parserVars, streamVars>>

(* The connection breaks.                                                   *)
Break ==
  /\ con = "up" /\ con' = "down"
  /\ UNCHANGED <<log, dump, mu, running, ctxDone, deadline, parserVars, streamVars>>

closeWithError == errChan' = IF errChan < 4 THEN errChan + 1 ELSE errChan
EndStream ==
  /\ closeWithError /\ spc' = "ended"
  /\ UNCHANGED <<log, mu, running, ctxDone, deadline, hand, bleChan, pushed>>
-----------------------------------------------------------------------------
(* BinlogParser.Parse.  Without a format a table map is a nil dereference,  *)
(* which onStream recovers from.                                            *)
parses(e) == /\ e.kind \in {"map", "rows"} => format
             /\ e.kind = "rows" => e.table \in tables
Parse(e) ==
  /\ format' = (format \/ e.kind = "format")
  /\ tables' = CASE e.kind = "map" -> tables \cup {e.table}
                 [] e.kind = "rows" /\ e.end -> {}
                 [] OTHER -> tables

Advance(e) == nextPos' = IF e.kind = "rotate" THEN e.to
                         ELSE IF e.logPos > 0 THEN <<nextPos[1], e.logPos>> ELSE nextPos

(* A packet with an event: parseEvent up to the send.                       *)
ReadEvent ==
  /\ spc = "read" /\ con = "up" /\ HasPacket
  /\ dump' = AfterPacket
  /\ UNCHANGED con
  /\ IF parses(Packet)
     THEN /\ Parse(Packet) /\ Advance(Packet)
          /\ hand' = Packet /\ spc' = "push"
          /\ UNCHANGED <<log, mu, running, ctxDone, deadline, bleChan, errChan, pushed>>
     ELSE EndStream /\ UNCHANGED <<parserVars, nextPos>>

SendEvent ==
  /\ spc = "push" /\ Len(bleChan) < ChanCap
  /\ bleChan' = Append(bleChan, hand)
  /\ pushed' = IF hand.id = NoPos THEN pushed ELSE Append(pushed, hand.id)
  /\ spc' = "read"
  /\ UNCHANGED <<serverVars, con, mu, running, ctxDone, deadline, parserVars, nextPos, hand, errChan>>

StopSending ==
  /\ spc = "push" /\ ctxDone
  /\ EndStream
  /\ UNCHANGED <<dump, con, parserVars, nextPos>>

(* An error packet of the server.                                           *)
ReadError ==
  /\ spc = "read" /\ con = "up"
  /\ EndStream
  /\ UNCHANGED <<dump, con, parserVars, nextPos>>

\* as ReadFails, but the connection is read again
ReadFailsIgnored ==
  /\ spc = "read" /\ (con # "up" \/ deadline)
  /\ UNCHANGED <<log, syncerVars>>

ReadFails ==
  /\ spc = "read" /\ (con # "up" \/ deadline)
  /\ IF nextPos[1] = 0 THEN EndStream ELSE spc' = "select" /\ UNCHANGED <<log, mu, running, ctxDone, deadline, hand, bleChan, errChan, pushed>>
  /\ UNCHANGED <<dump, con, parserVars, nextPos>>

(* The select around time.After.                                            *)
GiveUp ==
  /\ spc = "select" /\ ctxDone
  /\ EndStream
  /\ UNCHANGED <<dump, con, parserVars, nextPos>>

Wake ==
  /\ spc = "select" /\ ~ctxDone
  /\ spc' = "lock"
  /\ UNCHANGED <<log, dump, con, mu, running, ctxDone, deadline, parserVars, nextPos, hand, bleChan, errChan, pushed>>

retrySync(ok) ==
  /\ spc = "lock" /\ mu = "free"
  /\ format' = FALSE /\ UNCHANGED tables
  /\ IF ctxDone THEN UNCHANGED <<con, dump>> ELSE prepareSyncPos(nextPos, ok)
  /\ spc' = IF ok /\ ~ctxDone THEN "read" ELSE "select"
  /\ UNCHANGED <<log, mu, running, ctxDone, deadline, nextPos, hand, bleChan, errChan, pushed>>
-----------------------------------------------------------------------------
(* Close: up to wg.Wait, which is reached with the mutex held, and the end. *)
\* as CloseSyncer, but no read deadline is set
CloseSyncerWaits ==
  /\ mu = "free"
  /\ mu' = "close" /\ running' = FALSE /\ ctxDone' = TRUE
  /\ UNCHANGED <<log, dump, con, deadline, parserVars, streamVars>>

CloseSyncer ==
  /\ mu = "free"
  /\ mu' = "close" /\ running' = FALSE /\ ctxDone' = TRUE
  /\ deadline' = (con # "nil")
  /\ UNCHANGED <<log, dump, con, parserVars, streamVars>>

SyncerClosed ==
  /\ mu = "close" /\ spc \in {"none", "ended"}
  /\ mu' = "free" /\ con' = "nil"
  /\ UNCHANGED <<log, dump, running, ctxDone, deadline, parserVars, streamVars>>

onStream == \/ ReadEvent \/ SendEvent \/ StopSending \/ ReadFails \/ GiveUp \/ Wake
            \/ \E ok \in BOOLEAN : retrySync(ok)

(* Close waits for onStream, and onStream for the mutex that Close holds.   *)
Deadlocked == mu = "close" /\ spc = "lock"
-----------------------------------------------------------------------------
(* The event after another one, and the position behind it.                 *)
Successor(id) == IF id[2] < Len(log[id[1]]) THEN <<id[1], id[2] + 1>> ELSE <<id[1] + 1, 1>>
Behind(id) == IF log[id[1]][id[2]].kind = "rotate" THEN <<id[1] + 1, 4>> ELSE <<id[1], 4 + id[2]>>

(* However often the connection breaks, the channel gets the events of the  *)
(* log one after the other, none twice and none left out (nextPos moves on  *)
(* with every event, and artificial events do not move it).                 *)
EventsOnceInOrder ==
  /\ \A k \in 1..(Len(pushed) - 1) : pushed[k + 1] = Successor(pushed[k])
  /\ spc = "read" /\ pushed # <<>> => nextPos = Behind(pushed[Len(pushed)])
=============================================================================
