---------------------------- MODULE ScopedService ----------------------------
(***************************************************************************)
(* The scoped configurations of a middleware: net/internal/scopedservice,  *)
(* which is copied into net/auth, cors, geoip, jwt, ratelimit and signed.  *)
(* Requests look up the configuration of their scope, and load it through  *)
(* an OptionFactory, while options change the configurations of scopes.    *)
(*                                                                         *)
(* own, half, shaken, valid, loaded and again are history: own has what    *)
(* the options have set, without pointers and caches, and half the scopes  *)
(* for which only some of the options of a load have been applied.         *)
(***************************************************************************)
EXTENDS Naturals, Sequences, SequencesExt, FiniteSets

CONSTANTS Default,      \* the default scope
          Parent,       \* scope -> its parent, Default -> Default
          Level,        \* scope -> its type, as a number
          Requests,     \* requests, numbered as they begin
          Options,      \* what the program applies at run time
          Factories,    \* OptionFactoryFuncs, scope -> sequence of options; <<>> for none
          MaxChanges    \* bound on the options at run time

VARIABLES heap,         \* the ScopedConfigs
          scopeCache,   \* scope -> index of heap, or 0
          locked,       \* who has left rwmu locked, or ""
          factory,      \* optionFactory
          flight,       \* optionInflight: scope -> its call
          pc, current, res,
          changes,
          own, half, shaken, valid, loaded, again

Scopes == DOMAIN Parent
callVars == <<pc, current, res, valid>>
vars == <<heap, scopeCache, locked, factory, flight, callVars, changes, own, half, shaken, loaded, again>>

None == [value |-> 0, partial |-> FALSE, set |-> FALSE]
newScopedConfig(target, parent) == [value |-> 1, partial |-> FALSE, scope |-> target, parent |-> parent]
NoFlight == [pc |-> "none", left |-> <<>>, res |-> [kind |-> "", value |-> 0]]

(* isValid and the errors of a look-up.                                     *)
Ok(v) == [kind |-> "ok", value |-> v]
NotFound == [kind |-> "notfound", value |-> 0]
Failed == [kind |-> "error", value |-> 0]
isValid(c) == IF c.partial THEN [kind |-> "partial", value |-> 0] ELSE Ok(c.value)

(* TargetAndParents of a list of scopes.                                    *)
Parents(ids) == LET up == SelectSeq(Tail(ids), LAMBDA p : Level[p] < Level[ids[1]])
                IN  IF Contains(up, Default) THEN up ELSE Append(up, Default)
-----------------------------------------------------------------------------
(* findScopedConfig: the pointer of the target, or a copy of the first      *)
(* parent that has a configuration, or a new one.                           *)
\* as findScopedConfig, but without the copy
findScopedConfigShared(ids) ==
  LET found == SelectSeq(ids \o Parents(ids), LAMBDA p : scopeCache[p] # 0)
  IN  IF found # <<>> THEN [at |-> scopeCache[found[1]], cfg |-> heap[scopeCache[found[1]]]]
      ELSE [at |-> Len(heap) + 1, cfg |-> newScopedConfig(ids[1], Parents(ids)[1])]

findScopedConfig(ids) ==
  LET found == SelectSeq(Parents(ids), LAMBDA p : scopeCache[p] # 0)
  IN  CASE scopeCache[ids[1]] # 0 -> [at |-> scopeCache[ids[1]], cfg |-> heap[scopeCache[ids[1]]]]
        [] scopeCache[ids[1]] = 0 /\ found # <<>> ->
             [at |-> Len(heap) + 1, cfg |-> [heap[scopeCache[found[1]]] EXCEPT !.parent = found[1], !.scope = ids[1]]]
        [] OTHER -> [at |-> Len(heap) + 1, cfg |-> newScopedConfig(ids[1], Parents(ids)[1])]

(* What an option writes: WithDisable and the like a value,                 *)
(* WithMarkPartiallyApplied an error, withDefaultConfig everything.         *)
Written(o, c) == CASE o.kind = "value" -> [c EXCEPT !.value = o.value]
                   [] o.kind = "partial" -> [c EXCEPT !.partial = (o.value = 1)]
                   [] OTHER -> [c EXCEPT !.value = 1, !.partial = FALSE]

(* The same without pointers.                                               *)
SetBy(o) == LET bases == SelectSeq(<<o.ids[1]>> \o Parents(o.ids), LAMBDA p : own[p].set)
                base == IF bases # <<>> THEN own[bases[1]] ELSE [None EXCEPT !.value = 1]
            IN  [own EXCEPT ![o.ids[1]] = [Written(o, base) EXCEPT !.set = TRUE]]
Effective(o, s) == LET chain == SelectSeq(<<s, Parent[s], Default>>, LAMBDA p : o[p].set)
                   IN  IF chain = <<>> THEN NotFound ELSE isValid(o[chain[1]])

(* The scopes that keep another configuration than the options say: those   *)
(* that share a pointer with a target that fell back, or own it, those that *)
(* fell back past the target, those that share a pointer which is replaced, and those *)
(* that get their configuration from one of them.                           *)
Borrowed(t) == scopeCache[t] # 0 /\ heap[scopeCache[t]].scope # t
Sharing(t) == {s \in Scopes : scopeCache[s] # 0 /\ scopeCache[s] = scopeCache[t]}
FellPast(t) == {s \in Scopes : Parent[s] = t /\ Borrowed(s) /\ scopeCache[s] # scopeCache[t]}
Heirs(s, from) == IF \E p \in from : p \in shaken /\ scopeCache[p] # 0 THEN {s} ELSE {}
ShakenBy(o) ==
  LET t == o.ids[1]
  IN  CASE o.kind = "default" -> (Sharing(t) \ {t}) \cup {s \in Scopes : Parent[s] = t /\ Borrowed(s)}
        [] o.kind # "default" /\ scopeCache[t] = 0 -> FellPast(t) \cup Heirs(t, ToSet(Parents(o.ids)))
        [] OTHER -> IF Borrowed(t) THEN Sharing(t) \cup {heap[scopeCache[t]].scope} ELSE {}

(* ClearCache takes no lock, so that it also happens while another one has  *)
(* it.  Loading is the scopes whose load it disturbs.                       *)
ChangeCount(n) == changes + n <= MaxChanges /\ changes' = changes + n
Only(s, f, none) == [t \in Scopes |-> IF t = s THEN f[s] ELSE none]
Loading == {s \in Scopes : flight[s].pc # "none"}

(* updateScopedConfig: stores the configuration under the scope it carries, *)
(* perhaps in a map that ClearCache has just made.                          *)
updateScopedConfig(at, c, cleared) ==
  /\ heap' = IF at > Len(heap) THEN Append(heap, c) ELSE [heap EXCEPT ![at] = c]
  /\ \E stored \in {[scopeCache EXCEPT ![c.scope] = at]} :
       scopeCache' = IF cleared THEN Only(c.scope, stored, 0) ELSE stored

(* What the requests under way may get from now on, too.                    *)
AlsoValid(o) == [g \in Requests |-> IF pc[g] \in {"idle", "done"} \/ current[g] \in half' THEN valid[g]
                                   ELSE valid[g] \cup {Effective(o, current[g])}]

(* An option: the lock is held from findScopedConfig to updateScopedConfig. *)
(* The map may be cleared in between.                                       *)
Apply(o, cleared) ==
  /\ locked = ""
  /\ CASE o.kind = "default" ->
            updateScopedConfig(Len(heap) + 1, newScopedConfig(o.ids[1], Parents(o.ids)[1]), cleared)
       [] o.kind \in {"value", "partial"} ->
            \E f \in {findScopedConfig(o.ids)} : updateScopedConfig(f.at, Written(o, f.cfg), cleared)
  /\ own' = IF cleared THEN Only(o.ids[1], SetBy(o), None) ELSE SetBy(o)
  /\ shaken' = ShakenBy(o) \cup IF cleared THEN Loading \cup (shaken \cap {o.ids[1]}) ELSE shaken
  /\ valid' = AlsoValid(own')
-----------------------------------------------------------------------------
(* New: the default configuration, and perhaps an OptionFactory.            *)
Init ==
  /\ heap = <<newScopedConfig(Default, Default)>>
  /\ scopeCache = [s \in Scopes |-> IF s = Default THEN 1 ELSE 0]
  /\ locked = "" /\ factory \in Factories
  /\ flight = [s \in Scopes |-> NoFlight]
  /\ pc = [g \in Requests |-> "idle"] /\ current = [g \in Requests |-> Default]
  /\ res = [g \in Requests |-> NotFound] /\ changes = 0
  /\ own = [s \in Scopes |-> IF s = Default THEN [None EXCEPT !.value = 1, !.set = TRUE] ELSE None]
  /\ half = {} /\ shaken = {} /\ valid = [g \in Requests |-> {}]
  /\ loaded = [s \in Scopes |-> FALSE] /\ again = {}

(* The program applies an option at run time.                               *)
ApplyOption(o, cleared) ==
  /\ ChangeCount(IF cleared THEN 2 ELSE 1) /\ UNCHANGED half
  /\ Apply(o, cleared)
  /\ loaded' = [s \in Scopes |-> loaded[s] /\ o.kind # "partial" /\ ~cleared]
  /\ UNCHANGED <<locked, factory, flight, pc, current, res, again>>

(* jwt.WithKey returns an error between the two and leaves rwmu locked.     *)
WithKeyFails ==
  /\ ChangeCount(1)
  /\ locked = "" /\ locked' = "WithKey"
  /\ UNCHANGED <<heap, scopeCache, factory, flight, callVars, own, half, shaken, loaded, again>>

(* ClearCache while nobody is inside of the lock.                           *)
ClearCache ==
  /\ ChangeCount(1)
  /\ scopeCache' = [s \in Scopes |-> 0]
  /\ own' = [s \in Scopes |-> None]
  /\ half' = {} /\ shaken' = Loading
  /\ valid' = AlsoValid(own')
  /\ loaded' = [s \in Scopes |-> FALSE]
  /\ UNCHANGED <<heap, locked, factory, flight, pc, current, res, again>>
-----------------------------------------------------------------------------
Returns(g, r) == pc' = [pc EXCEPT ![g] = "done"] /\ res' = [res EXCEPT ![g] = r]

(* ConfigByScopedGetter, the look-up of the scope itself.                   *)
Lookup(g, s) ==
  /\ pc[g] = "idle" /\ locked = "" /\ \A h \in Requests : h < g => pc[h] # "idle"
  /\ current' = [current EXCEPT ![g] = s]
  /\ valid' = [valid EXCEPT ![g] = IF s \in half THEN {} ELSE {Effective(own, s)}]
  /\ IF scopeCache[s] # 0 /\ isValid(heap[scopeCache[s]]).kind = "ok"
     THEN Returns(g, isValid(heap[scopeCache[s]])) /\ UNCHANGED again
     ELSE /\ pc' = [pc EXCEPT ![g] = IF factory = <<>> THEN "direct" ELSE "inflight"]
          /\ again' = IF loaded[s] THEN again \cup {s} ELSE again
          /\ UNCHANGED res
  /\ UNCHANGED <<heap, scopeCache, locked, factory, flight, changes, own, half, shaken, loaded>>

(* ConfigByScopeID with a parent, under the read lock.                      *)
LookupDirect(g) ==
  /\ pc[g] = "direct" /\ locked = ""
  /\ IF scopeCache[current[g]] # 0 THEN Returns(g, isValid(heap[scopeCache[current[g]]]))
     ELSE pc' = [pc EXCEPT ![g] = "fallback"] /\ UNCHANGED res
  /\ UNCHANGED <<heap, scopeCache, locked, factory, flight, current, valid, changes, own, half, shaken, loaded, again>>

(* The slow path of ConfigByScopeID: the website, then the default; the     *)
(* pointer is stored under the scope, which is not looked up again.         *)
\* as fallback, but the pointer is not stored
fallbackForgets(s) ==
  LET found == SelectSeq(<<Parent[s], Default>>, LAMBDA p : scopeCache[p] # 0)
      at == IF found = <<>> THEN 0 ELSE scopeCache[found[1]]
  IN  IF at = 0 THEN [res |-> NotFound, heap |-> heap, cache |-> scopeCache]
      ELSE [res |-> isValid(heap[at]), heap |-> [heap EXCEPT ![at].parent = found[1]], cache |-> scopeCache]

fallback(s) ==
  LET found == SelectSeq(<<Parent[s], Default>>, LAMBDA p : scopeCache[p] # 0)
      at == IF found = <<>> THEN 0 ELSE scopeCache[found[1]]
  IN  IF at = 0 THEN [res |-> NotFound, heap |-> heap, cache |-> scopeCache]
      ELSE [res |-> isValid(heap[at]), heap |-> [heap EXCEPT ![at].parent = found[1]],
            cache |-> IF heap[at].partial THEN scopeCache ELSE [scopeCache EXCEPT ![s] = at]]

(* An option for the scope that came after the look-up is lost.             *)
OvertakenBy(s) == Heirs(s, {Parent[s], Default}) \cup (IF own[s].set THEN {s} ELSE {})

(* The map that the fall back leaves, if it is cleared in between too.      *)
FallsBack(s, f, cleared) ==
  /\ heap' = f.heap
  /\ IF cleared
     THEN /\ ChangeCount(1) /\ own' = [t \in Scopes |-> None] /\ half' = {}
          /\ scopeCache' = Only(s, f.cache, 0) /\ shaken' = Loading \cup {s} /\ valid' = AlsoValid(own')
     ELSE /\ scopeCache' = f.cache /\ shaken' = shaken \cup OvertakenBy(s)
          /\ UNCHANGED <<changes, own, half, valid>>

Fallback(g, cleared) ==
  /\ pc[g] = "fallback" /\ locked = ""
  /\ \E f \in {fallback(current[g])} : FallsBack(current[g], f, cleared) /\ Returns(g, f.res)
  /\ loaded' = [s \in Scopes |-> loaded[s] /\ ~cleared]
  /\ UNCHANGED <<locked, factory, flight, current, again>>

(* DoChan: starts the call, or waits for the one that is there.             *)
DoChan(g) ==
  /\ pc[g] = "inflight"
  /\ pc' = [pc EXCEPT ![g] = "wait"]
  /\ flight' = IF flight[current[g]].pc # "none" THEN flight
               ELSE [flight EXCEPT ![current[g]] = [NoFlight EXCEPT !.pc = "options", !.left = factory[current[g]]]]
  /\ valid' = IF flight[current[g]].pc # "done" THEN valid ELSE [valid EXCEPT ![g] = @ \cup {flight[current[g]].res}]
  /\ UNCHANGED <<heap, scopeCache, locked, factory, current, res, changes, own, half, shaken, loaded, again>>

(* The goroutine of the call: the options one after the other, ...          *)
FlightOption(s, cleared) ==
  /\ flight[s].pc = "options" /\ flight[s].left # <<>>
  /\ IF cleared THEN ChangeCount(1) ELSE UNCHANGED changes
  /\ half' = IF Len(flight[s].left) > 1 THEN half \cup {s} ELSE half \ {s}
  /\ Apply(Head(flight[s].left), cleared)
  /\ flight' = [flight EXCEPT ![s].left = Tail(@)]
  /\ loaded' = [t \in Scopes |-> loaded[t] /\ ~cleared]
  /\ UNCHANGED <<locked, factory, pc, current, res, again>>

FlightOptionFails(s) ==
  /\ flight[s].pc = "options"
  /\ flight' = [flight EXCEPT ![s].pc = "done", ![s].res = Failed]
  /\ UNCHANGED <<heap, scopeCache, locked, factory, callVars, changes, own, half, shaken, loaded, again>>

(* ... ConfigByScopeID, ...                                                 *)
FlightLookup(s) ==
  /\ flight[s].pc = "options" /\ flight[s].left = <<>> /\ locked = ""
  /\ flight' = IF scopeCache[s] # 0 THEN [flight EXCEPT ![s].pc = "done", ![s].res = isValid(heap[scopeCache[s]])]
               ELSE [flight EXCEPT ![s].pc = "fallback"]
  /\ loaded' = [loaded EXCEPT ![s] = @ \/ flight'[s].res.kind = "ok"]
  /\ UNCHANGED <<heap, scopeCache, locked, factory, callVars, changes, own, half, shaken, again>>

FlightFallback(s, cleared) ==
  /\ flight[s].pc = "fallback" /\ locked = ""
  /\ \E f \in {fallback(s)} :
       /\ FallsBack(s, f, cleared)
       /\ flight' = [flight EXCEPT ![s].pc = "done", ![s].res = f.res]
       /\ loaded' = [t \in Scopes |-> ~cleared /\ (loaded[t] \/ (t = s /\ f.res.kind = "ok"))]
  /\ UNCHANGED <<locked, factory, pc, current, res, again>>

(* ... and the end of doCall, which answers everyone who waits.             *)
FlightEnd(s) ==
  /\ flight[s].pc = "done"
  /\ flight' = [flight EXCEPT ![s] = NoFlight]
  /\ LET waiting == {g \in Requests : pc[g] = "wait" /\ current[g] = s}
     IN  /\ pc' = [g \in Requests |-> IF g \in waiting THEN "done" ELSE pc[g]]
         /\ res' = [g \in Requests |-> IF g \in waiting THEN flight[s].res ELSE res[g]]
  /\ UNCHANGED <<heap, scopeCache, locked, factory, current, valid, changes, own, half, shaken, loaded, again>>

Request(g) == LookupDirect(g) \/ DoChan(g) \/ \E cleared \in BOOLEAN : Fallback(g, cleared)
Flight(s) == \/ FlightOptionFails(s) \/ FlightLookup(s) \/ FlightEnd(s)
             \/ \E cleared \in BOOLEAN : FlightOption(s, cleared) \/ FlightFallback(s, cleared)
(* What a request does after its look-up, and the calls of optionInflight.  *)
Run == (\E g \in Requests : Request(g)) \/ (\E s \in Scopes : Flight(s))

Next == \/ \E g \in Requests, s \in Scopes : Lookup(g, s)
        \/ Run
        \/ \E o \in Options, cleared \in BOOLEAN : ApplyOption(o, cleared)
        \/ WithKeyFails \/ ClearCache

Spec == Init /\ [][Next]_vars
-----------------------------------------------------------------------------
(* A request gets what the options have set for its scope, or else for its  *)
(* website, or else for the default, at some moment of the request or of    *)
(* the load it takes part in, and never what only some of the options of a  *)
(* load have set.  The one way to such a configuration is the first look-up *)
(* of a request, while a load applies its options or after one of them has  *)
(* failed: it does not wait, although optionInflight "stops the execution   *)
(* of other Goroutines ... until the configuration has been fully loaded    *)
(* and applied" (service_generic.go:51).  Out of this are the scopes whose  *)
(* configuration was shared before an option came (shaken), and a factory   *)
(* that fails.                                                              *)
ResultIsEffective ==
  [][\A g \in Requests : pc[g] # "done" /\ pc'[g] = "done" /\ current'[g] \notin shaken' =>
       \/ res'[g] \in valid'[g] \cup {Failed}
       \/ pc[g] = "idle" /\ current'[g] \in half /\ res'[g] = Effective(own, current'[g])]_vars

(* ConfigByScopedGetter: a request that begins after the configuration of   *)
(* its scope was loaded does not load it again, unless the cache is cleared *)
(* or a configuration is marked as partially applied.  Of requests that     *)
(* begin before the load has ended, one that reaches DoChan after it loads  *)
(* once more (service_generic.go:204), although the comment says that the   *)
(* configuration is pulled out "only one time" (service_generic.go:176).    *)
LoadedBefore == again = {}

(* Until all requests are answered one of them, or a load, can go on, so    *)
(* that nobody waits for ever (each makes a bounded number of steps), unless*)
(* jwt.WithKey has left the lock behind.                                    *)
Answered == \A g \in Requests : pc[g] \in {"idle", "done"}
NobodyIsStuck == Answered \/ locked = "WithKey" \/ ENABLED Run

(* WithDisable and every other option: the scopeIDs "define to which scope  *)
(* the value gets applied".  The configuration of a scope changes only with *)
(* an option for it or for a scope above it.                                *)
OnlyTheTargetChanges ==
  [][\A s \in Scopes : scopeCache[s] # 0 /\ scopeCache'[s] = scopeCache[s]
                       /\ heap'[scopeCache[s]].value # heap[scopeCache[s]].value
       => \E t \in {s, Parent[s], Default} : own'[t] # own[t]]_vars
=============================================================================
