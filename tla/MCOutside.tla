----------------------------- MODULE MCOutside ------------------------------
(* What comes from outside: the events of a MySQL server (Canal and         *)
(* BinlogSyncer, one scenario for each kind of trouble) and the requests to *)
(* a web server (ScopedService).  part says which of the two a behaviour is *)
(* about; the other one keeps its initial state.                            *)
EXTENDS Canal, TLC

CONSTANTS Default, Parent, Level, Requests, Options, Factories, MaxChanges

VARIABLES
  part,
  heap, scopeCache, locked, factory, inFlight, pc, current, res, changes, own, half, shaken, valid, loaded, again

S == INSTANCE ScopedService WITH flight <- inFlight

ScopedVars == <<heap, scopeCache, locked, factory, inFlight, pc, current, res, changes, own, half, shaken, valid, loaded, again>>
MCVars == <<part, vars, ScopedVars>>
-----------------------------------------------------------------------------
(* Logs, start positions and bounds on the events from outside for Canal.   *)
MCHandlers == ("h1" :> "t1") @@ ("h2" :> NoTable)
MCStatements == {<<"t1">>}
Never == [w \in {"commit", "ddl", "flush", "break", "crash", "start", "stop", "find", "close", "wait"} |-> 0]
OneFile == <<NewFile \o Statement(<<"t1">>)>>
TwoFiles == <<NewFile \o Statement(<<"t2", "t1">>) \o <<Entry("rotate", NoTable, FALSE)>>,
              NewFile \o Statement(<<"t1">>)>>
Scenario(l, from, set, n) == [log |-> l, from |-> from, setter |-> set, budget |-> n]
Breaks == Scenario(TwoFiles, <<1, 4>>, FALSE, [Never EXCEPT !["break"] = 2, !["start"] = 1])
Crashes == Scenario(OneFile, <<1, 4>>, TRUE, [Never EXCEPT !["commit"] = 1, !["crash"] = 1, !["start"] = 2])
Altered == Scenario(OneFile, <<1, 4>>, FALSE,
                    [Never EXCEPT !["commit"] = 1, !["ddl"] = 1, !["start"] = 1, !["find"] = 1])
Closes == Scenario(OneFile, <<1, 4>>, FALSE,
                   [Never EXCEPT !["break"] = 1, !["start"] = 2, !["stop"] = 1, !["close"] = 2])
Waits == Scenario(OneFile, <<0, 0>>, FALSE,
                  [Never EXCEPT !["commit"] = 1, !["flush"] = 1, !["start"] = 1, !["wait"] = 1])
MCScenarios == {Breaks, Crashes, Altered, Closes, Waits}

(* The default, a website and one of its stores.                            *)
MCParent == ("d" :> "d") @@ ("w" :> "d") @@ ("s1" :> "w")
MCLevel == ("d" :> 1) @@ ("w" :> 2) @@ ("s1" :> 4)
Option(kind, value, ids) == [kind |-> kind, value |-> value, ids |-> ids]
MCOptions == {Option("value", 2, <<"s1", "w">>), Option("value", 3, <<"w">>), Option("value", 4, <<"d">>),
              Option("partial", 1, <<"s1", "w">>), Option("partial", 1, <<"d">>), Option("default", 0, <<"w">>)}
StoreOptions == [s \in {"d", "w", "s1"} |->
            IF s = "s1" THEN <<Option("partial", 0, <<"s1", "w">>), Option("value", 5, <<"s1", "w">>)>> ELSE <<>>]
MCFactories == {<<>>, StoreOptions}
-----------------------------------------------------------------------------
(* With an OptionFactory, which applies options of its own, the program     *)
(* makes one change at run time; without one, MaxChanges.                   *)
FewChanges == factory # <<>> => changes <= 1

MCInit ==
  /\ part \in {"canal", "scoped"}
  /\ Init /\ S!Init
  /\ part # "canal" => budget = Waits.budget
  /\ part # "scoped" => factory = <<>>

MCNext ==
  \/ part = "canal" /\ Next /\ UNCHANGED <<part, ScopedVars>>
  \/ part = "scoped" /\ S!Next /\ FewChanges' /\ UNCHANGED <<part, vars>>

(* The fairness of Canal.                                                   *)
MCSpec ==
  /\ MCInit /\ [][MCNext]_MCVars
  /\ Fairness
-----------------------------------------------------------------------------
(* BinlogSyncer: a stream delivers the events of the log once and in their  *)
(* order, and all of them or ends with an error (onStream, retrySync).      *)
StreamFollowsTheLog == []EventsOnceInOrder /\ LogIsFollowed

(* ScopedService: a request that begins after its scope was loaded does not *)
(* load it again, and no request waits for a lock or for a load that nobody *)
(* ends, unless WithKey has left the lock behind (ConfigByScopedGetter).    *)
(* One that began before may reach DoChan late and load a second time.      *)
LoadedBefore == S!LoadedBefore /\ S!NobodyIsStuck

(* ScopedService: a request gets what the options have set for its scope,   *)
(* or for one above it, and the complete set of options of a load, unless   *)
(* its first look-up falls between two of them (ConfigByScopedGetter,       *)
(* ConfigByScopeID).                                                        *)
ResultIsEffective == S!ResultIsEffective

(* ScopedService: an option changes the configurations of its target and of *)
(* what is below it only.                                                   *)
OnlyTheTargetChanges == S!OnlyTheTargetChanges
=============================================================================
