-------------------------- MODULE StoreModeProofs --------------------------
(***************************************************************************)
(* Theorems about store.Service, with the run mode middleware as one of    *)
(* its callers: whatever calls and reloads interleave, its caches are      *)
(* those of the last reload that went well and alone, only a call that met *)
(* a reload leaves anything else behind, and one that did not answers from *)
(* the tables of that reload.  So a visitor gets the store that the query  *)
(* or the cookie names, and the cookie keeps the first choice.             *)
(***************************************************************************)
EXTENDS StoreServiceProofs, RunMode

(* Zenon first: most leaves are first-order and fast; SMT has the rest.     *)
USE ZenonT(20), SMTT(60), ZenonT(60)
-----------------------------------------------------------------------------
(* The calls that ask about the single store mode, and what they cache.     *)
(* IsSingleStoreMode and HasSingleStore.                                    *)
LEMMA YesNoFacts ==
  \A b \in BOOLEAN : Flag(YesNo(b)) = FlagOf(b) /\ YesNo(b) \in {"yes", "no"} /\ (YesNo(b) = "yes" <=> b)
BY DEF Flag, YesNo, FlagOf

(* What IsSingleStoreMode finds in the cache, or writes there, is due.      *)
LEMMA FlagIsDue ==
  ASSUME NEW op, IsOp(op), op.op = "single", NEW x \in Flags(installed.t, op.key),
         op.key = "scope" => scen.flag["scope"] # "fails"
  PROVE  Flag(x) \in DueAnswers(op)
<1>1. CASE op.key = "default" \/ scen.flag[op.key] = "on"
  BY <1>1 DEF DueAnswers, Flags
<1>2. CASE ~(op.key = "default" \/ scen.flag[op.key] = "on")
  <2>1. x = "no" /\ scen.flag[op.key] # "fails"
    BY <1>2 DEF Flags, IsOp, Keys
  <2>2. Due(op) = FlagOf(Single(installed.t, scen.enabled) /\ scen.flag[op.key] = "on")
    BY <2>1, DueFacts
  <2>3. Due(op) = Flag("no")
    BY <1>2, <2>2 DEF Flag, FlagOf
  <2> QED BY <2>1, <2>3, DueIsAnAnswer
<1> QED BY <1>1, <1>2

LEMMA SingleStoreModeInv ==
  ASSUME IInv, NEW p \in Procs, SingleStoreMode(p) PROVE IInv' /\ AnsweredTruly(p)
<1>1. pc[p] = "single" /\ p \in Callers
  BY WhoIs DEF SingleStoreMode, CallPcs, IInv
<1>2. Quiet /\ wlock' = wlock
  BY DEF SingleStoreMode, ReadsOnly, Quiet, dataVars, histVars
<1>3. IsLoc(loc[p]) /\ loc[p].f \in DOMAIN heap /\ LocalFlag(p)
  BY <1>1, CallerFacts
<1> DEFINE op == loc[p].op
           k == op.key
<1>4. op.op = "single" /\ IsOp(op) /\ k \in Keys
  <2>1. op.op = "single"
    BY <1>1, <1>3 DEF LocalFlag
  <2>2. IsOp(op)
    BY <1>3, <2>1, IsOpFacts DEF OpNames
  <2> QED BY <2>1, <2>2 DEF IsOp
<1>5. CASE single[k] # "none"
  <2>1. Finish(p, Flag(single[k]))
    BY <1>5 DEF SingleStoreMode
  <2>2. IInv' /\ ans'[p] = Flag(single[k])
    BY <1>1, <1>2, <2>1, CallerFinishes DEF Writing
  <2>3. ASSUME installed.ok, k \notin shaky PROVE Flag(single[k]) \in DueAnswers(op)
    <3>1. single[k] \in Flags(installed.t, k)
      BY <1>4, <1>5, <2>3 DEF IInv, OkInv
    <3>2. k = "scope" => scen.flag["scope"] # "fails"
      BY <1>5 DEF IInv, FlagInv
    <3> HIDE DEF op
    <3> QED BY <1>4, <3>1, <3>2, FlagIsDue
  <2>4. k \in shaky => Excused(op)
    BY <1>2, <1>4 DEF Excused, Quiet
  <2> QED BY <2>2, <2>3, <2>4 DEF AnsweredTruly
<1>6. CASE single[k] = "none" /\ scen.flag[k] = "fails"
  <2>1. Finish(p, Fail("Config"))
    BY <1>6 DEF SingleStoreMode
  <2>2. IInv' /\ ans'[p] = Fail("Config")
    BY <1>1, <1>2, <2>1, CallerFinishes DEF Writing
  <2>3. Due(op) = Fail("Config")
    <3> HIDE DEF op
    <3> QED BY <1>4, <1>6, DueFacts
  <2> QED BY <2>2, <2>3, DueIsAnAnswer DEF AnsweredTruly
<1>7. CASE single[k] = "none" /\ scen.flag[k] # "fails"
  <2>1. Goto(p, "has", loc[p]) /\ ans' = ans
    BY <1>7 DEF SingleStoreMode
  <2>2. Moves(p, "has", loc[p]) /\ "has" \in CallPcs \ Writing
    BY <1>1, <1>2, <1>3, <2>1 DEF Moves, LocksMove, Writing, CallPcs
  <2>3. pc'[p] = "has" /\ loc'[p] = loc[p]
    BY <2>2, MoveFacts DEF IInv
  <2>4. LocalFlag(p)'
    BY <1>2, <1>4, <1>7, <2>3 DEF LocalFlag, Quiet
  <2>5. ans' = [q \in Procs |-> ans'[q]]
    BY <2>1, AnsFacts DEF IInv
  <2>6. Carries(p, installed.t)'
    BY <2>3 DEF Carries
  <2>7. IInv'
    BY <1>1, <1>2, <1>3, <2>2, <2>4, <2>5, <2>6, CallerGoes
  <2> QED BY <2>3, <2>7 DEF AnsweredTruly
<1> QED BY <1>5, <1>6, <1>7

LEMMA HasIsInv ==
  ASSUME IInv, NEW p \in Callers, pc[p] \in {"has", "setHas"}, NEW x \in {"yes", "no"}, HasIs(p, x),
         LocksMove(p, "idle"), LocksMove(p, "toSingle"),
         UNCHANGED <<scen, db, heap, cur, fmu, slices, caches, installed>>,
         met' \in [Procs -> BOOLEAN], \A q \in Procs \ {p} : met'[q] = met[q], met[p] => met'[p],
         FlagsWritten(p), installed.ok /\ ~met'[p] => x \in HasFlags(installed.t)
  PROVE  IInv' /\ (pc'[p] = "idle" => loc[p].op.op = "has" /\ ans'[p] = Flag(x))
<1>1. p \in Procs /\ IsLoc(loc[p]) /\ loc[p].f \in DOMAIN heap /\ LocalFlag(p)
  BY CallerFacts
<1>2. DOMAIN ans = Procs
  <2>1. ans = [q \in Procs |-> ans[q]]
    BY DEF IInv, TypeInv
  <2> QED BY <2>1
<1>3. CASE loc[p].op.op = "has"
  <2>1. Finish(p, Flag(x))
    BY <1>3 DEF HasIs
  <2>2. IsLoc(Idle) /\ Idle.f \in DOMAIN heap
    BY IdleFacts DEF IInv
  <2>3. Moves(p, "idle", Idle) /\ "idle" \in CallPcs
    BY <2>1, <2>2 DEF Finish, Moves, CallPcs
  <2>4. ans' = [q \in Procs |-> ans'[q]] /\ ans'[p] = Flag(x)
    BY <1>1, <1>2, <2>1, AnsFacts DEF Finish, IInv
  <2>5. LocalFlag(p)'
    <3>1. pc'[p] = "idle"
      BY <1>1, <2>3, MoveFacts DEF IInv
    <3> QED BY <3>1 DEF LocalFlag
  <2>6. IInv'
    BY <2>2, <2>3, <2>4, <2>5, CallerMoves
  <2> QED BY <1>3, <2>4, <2>6
<1>4. CASE loc[p].op.op # "has"
  <2>1. loc[p].op.op = "single" /\ scen.flag[loc[p].op.key] # "fails"
    BY <1>1, <1>4 DEF LocalFlag
  <2>2. PICK b \in BOOLEAN : b = (x = "yes" /\ scen.flag[loc[p].op.key] = "on")
    OBVIOUS
  <2> DEFINE y == [loc[p] EXCEPT !.bad = b]
  <2>3. Goto(p, "toSingle", y) /\ ans' = ans
    BY <1>4, <2>2 DEF HasIs
  <2>4. IsLoc(y) /\ y.f = loc[p].f /\ y.bad = b /\ y.op = loc[p].op
    BY SMTT(60), Z3T(60), <1>1, LocBad
  <2> HIDE DEF y
  <2>5. Moves(p, "toSingle", y) /\ "toSingle" \in CallPcs
    BY <2>3, <2>4 DEF Moves, CallPcs
  <2>6. pc'[p] = "toSingle" /\ loc'[p] = y
    BY <1>1, <2>5, MoveFacts DEF IInv
  <2>7. LocalFlag(p)'
    BY <2>1, <2>4, <2>6 DEF LocalFlag
  <2>8. ans' = [q \in Procs |-> ans'[q]]
    BY <1>1, <2>3, AnsFacts DEF IInv
  <2>9. ASSUME installed.ok, ~met'[p] PROVE Carries(p, installed.t)'
    <3> DEFINE k == loc[p].op.key
    <3>1. CASE scen.flag[k] = "on"
      <4>1. YesNo(b) = x
        BY <2>2, <3>1 DEF YesNo
      <4> QED BY <2>4, <2>6, <2>9, <3>1, <4>1 DEF Carries, Flags, HasFlags
    <3>2. CASE scen.flag[k] # "on"
      <4>1. YesNo(b) = "no"
        BY <2>2, <3>2 DEF YesNo
      <4>2. "no" \in Flags(installed.t, k)
        BY <2>1, <3>2 DEF Flags, HasFlags
      <4> QED BY <2>4, <2>6, <4>1, <4>2 DEF Carries, Flags, HasFlags
    <3> QED BY <3>1, <3>2
  <2>10. IInv'
    BY <1>1, <2>4, <2>5, <2>7, <2>8, <2>9, CallerMoves
  <2> QED BY <2>6, <2>10
<1> QED BY <1>3, <1>4

LEMMA HasSingleStoreInv ==
  ASSUME IInv, NEW p \in Procs, HasSingleStore(p) PROVE IInv' /\ AnsweredTruly(p)
<1>1. pc[p] = "has" /\ p \in Callers
  BY WhoIs DEF HasSingleStore, CallPcs, IInv
<1>2. UNCHANGED <<scen, db, heap, cur, fmu, slices, caches, single, defID, wlock, installed, shaky>>
  BY DEF HasSingleStore, dataVars
<1>3. IsLoc(loc[p]) /\ loc[p].f \in DOMAIN heap /\ LocalFlag(p)
  BY <1>1, CallerFacts
<1>4. FlagsWritten(p)
  BY <1>2 DEF FlagsWritten, IInv, TypeInv, FlagInv
<1>5. CASE single["default"] = "none"
  <2>1. Goto(p, "toHas", loc[p]) /\ ans' = ans /\ met' = met
    BY <1>5 DEF HasSingleStore
  <2>2. Moves(p, "toHas", loc[p]) /\ "toHas" \in CallPcs \ Writing
    BY <1>1, <1>2, <1>3, <2>1 DEF Moves, LocksMove, Writing, CallPcs
  <2>3. pc'[p] = "toHas" /\ loc'[p] = loc[p]
    BY <2>2, MoveFacts DEF IInv
  <2>4. LocalFlag(p)'
    BY <1>1, <1>2, <1>3, <2>3 DEF LocalFlag
  <2>5. ans' = [q \in Procs |-> ans'[q]]
    BY <2>1, AnsFacts DEF IInv
  <2>6. Carries(p, installed.t)'
    BY <2>3 DEF Carries
  <2>7. Quiet
    BY <1>2, <2>1 DEF Quiet
  <2>8. IInv'
    BY <1>1, <1>3, <2>2, <2>4, <2>5, <2>6, <2>7, CallerGoes
  <2> QED BY <2>3, <2>8 DEF AnsweredTruly
<1>6. CASE single["default"] # "none"
  <2> DEFINE x == single["default"]
  <2>1. HasIs(p, x) /\ met' = [met EXCEPT ![p] = @ \/ "default" \in shaky]
    BY <1>6 DEF HasSingleStore
  <2>2. x \in {"yes", "no"} /\ met \in [Procs -> BOOLEAN]
    BY <1>6 DEF IInv, TypeInv, Keys
  <2>3. /\ met' \in [Procs -> BOOLEAN] /\ (\A q \in Procs \ {p} : met'[q] = met[q]) /\ (met[p] => met'[p])
        /\ ~met'[p] => ~met[p] /\ "default" \notin shaky
    BY <2>1, <2>2
  <2>4. LocksMove(p, "idle") /\ LocksMove(p, "toSingle")
    BY <1>1, <1>2 DEF LocksMove, Writing
  <2>5. ASSUME installed.ok, "default" \notin shaky PROVE x \in HasFlags(installed.t)
    BY <1>6, <2>5 DEF IInv, OkInv, Keys, Flags
  <2>6. IInv' /\ (pc'[p] = "idle" => loc[p].op.op = "has" /\ ans'[p] = Flag(x))
    <3> HIDE DEF x
    <3> QED BY <1>1, <1>2, <1>4, <2>1, <2>2, <2>3, <2>4, <2>5, HasIsInv
  <2>7. loc[p].op.op = "has" /\ "default" \in shaky => Excused(loc[p].op)
    BY <1>2 DEF Excused
  <2> HIDE DEF x
  <2>8. loc[p].op.op = "has" /\ x \in HasFlags(installed.t) => Flag(x) \in DueAnswers(loc[p].op)
    BY DEF DueAnswers
  <2> QED BY <2>5, <2>6, <2>7, <2>8 DEF AnsweredTruly
<1> QED BY <1>5, <1>6

LEMMA SetHasInv ==
  ASSUME IInv, NEW p \in Procs, SetHas(p) PROVE IInv' /\ AnsweredTruly(p)
<1>1. pc[p] = "setHas" /\ p \in Callers
  BY WhoIs DEF SetHas, CallPcs, IInv
<1>2. UNCHANGED <<scen, db, heap, cur, fmu, slices, caches, defID, installed, met>> /\ wlock' = 0
  BY DEF SetHas
<1> DEFINE x == YesNo(Single(slices.s, scen.enabled))
<1>3. /\ single' = [single EXCEPT !["default"] = x] /\ HasIs(p, x)
      /\ shaky' = IF met[p] THEN shaky \cup {"default"} ELSE shaky \ {"default"}
  BY DEF SetHas
<1>4. x \in {"yes", "no"}
  BY DEF YesNo
<1>5. ASSUME ~met[p], installed.ok PROVE x \in HasFlags(installed.t)
  BY <1>1, <1>5, CallerFacts DEF HasFlags
<1>6. IsLoc(loc[p])
  BY <1>1, CallerFacts
<1>7. FlagsWritten(p)
  <2>1. single \in [Keys -> {"none", "yes", "no"}] /\ (single["scope"] # "none" => scen.flag["scope"] # "fails")
    BY DEF IInv, TypeInv, FlagInv
  <2>2. single' \in [Keys -> {"none", "yes", "no"}] /\ single'["default"] = x /\ single'["scope"] = single["scope"]
    <3> HIDE DEF x
    <3> QED BY <1>3, <1>4, <2>1 DEF Keys
  <2>3. "default" \notin shaky' => ~met[p]
    BY <1>3
  <2>4. ~met[p] /\ installed.ok => x \in Flags(installed.t, "default")
    <3> HIDE DEF x
    <3> QED BY <1>5 DEF Flags
  <2>5. ("scope" \notin shaky' => "scope" \notin shaky) /\ ("view" \notin shaky' => "view" \notin shaky)
    BY <1>3
  <2> HIDE DEF x
  <2> QED BY <1>2, <2>1, <2>2, <2>3, <2>4, <2>5 DEF FlagsWritten, Keys
<1>8. LocksMove(p, "idle") /\ LocksMove(p, "toSingle")
  BY <1>1, <1>2 DEF LocksMove, Writing
<1>9. met' = met /\ met \in [Procs -> BOOLEAN]
  BY <1>2 DEF IInv, TypeInv
<1>10. IInv' /\ (pc'[p] = "idle" => loc[p].op.op = "has" /\ ans'[p] = Flag(x))
  <2> HIDE DEF x
  <2> QED BY <1>1, <1>2, <1>3, <1>4, <1>5, <1>7, <1>8, <1>9, HasIsInv
<1> HIDE DEF x
<1>11. loc[p].op.op = "has" /\ x \in HasFlags(installed.t) => Flag(x) \in DueAnswers(loc[p].op)
  BY DEF DueAnswers
<1> QED BY <1>5, <1>10, <1>11 DEF AnsweredTruly

LEMMA SetSingleInv ==
  ASSUME IInv, NEW p \in Procs, SetSingle(p) PROVE IInv' /\ AnsweredTruly(p)
<1>1. pc[p] = "setSingle" /\ p \in Callers
  BY WhoIs DEF SetSingle, CallPcs, IInv
<1>2. UNCHANGED <<scen, db, heap, cur, fmu, slices, caches, defID, installed, met>> /\ wlock' = 0
  BY DEF SetSingle
<1> DEFINE op == loc[p].op
           k == op.key
           x == YesNo(loc[p].bad)
<1>3. /\ single' = [single EXCEPT ![k] = x] /\ Finish(p, Flag(x))
      /\ shaky' = IF met[p] THEN shaky \cup {k} ELSE shaky \ {k}
  BY DEF SetSingle
<1>4. IsLoc(loc[p]) /\ LocalFlag(p) /\ p \in Procs
  BY <1>1, CallerFacts
<1>5. op.op = "single" /\ scen.flag[k] # "fails" /\ IsOp(op) /\ k \in Keys
  <2>1. op.op = "single" /\ scen.flag[k] # "fails"
    BY <1>1, <1>4 DEF LocalFlag
  <2>2. IsOp(op)
    BY <1>4, <2>1, IsOpFacts DEF OpNames
  <2> QED BY <2>1, <2>2 DEF IsOp
<1>6. ASSUME ~met[p], installed.ok PROVE x \in Flags(installed.t, k)
  <2>1. Carries(p, installed.t)
    BY <1>1, <1>6, CallerFacts
  <2> QED BY <1>1, <2>1 DEF Carries
<1>7. FlagsWritten(p)
  <2>1. single \in [Keys -> {"none", "yes", "no"}] /\ (single["scope"] # "none" => scen.flag["scope"] # "fails")
    BY DEF IInv, TypeInv, FlagInv
  <2>2. x \in {"yes", "no"}
    BY DEF YesNo
  <2>3. single' \in [Keys -> {"none", "yes", "no"}] /\ single'[k] = x /\ \A j \in Keys \ {k} : single'[j] = single[j]
    <3> HIDE DEF x, k
    <3> QED BY <1>3, <1>5, <2>1, <2>2
  <2>4. single'["scope"] # "none" => scen.flag["scope"] # "fails"
    BY <1>5, <2>1, <2>3 DEF Keys
  <2>5. k \notin shaky' => ~met[p]
    BY <1>3
  <2>6. \A j : j # k /\ j \notin shaky' => j \notin shaky
    BY <1>3
  <2>7. k # "view"
    BY <1>5 DEF Keys
  <2> HIDE DEF x, k
  <2> QED BY <1>2, <1>6, <2>3, <2>4, <2>5, <2>6, <2>7 DEF FlagsWritten
<1>8. IsLoc(Idle) /\ Idle.f \in DOMAIN heap
  BY IdleFacts DEF IInv
<1>9. Moves(p, "idle", Idle) /\ "idle" \in CallPcs
  BY <1>1, <1>2, <1>3, <1>8 DEF Finish, Moves, LocksMove, Writing, CallPcs
<1>10. pc'[p] = "idle"
  BY <1>4, <1>9, MoveFacts DEF IInv
<1>11. ans' = [q \in Procs |-> ans'[q]] /\ ans'[p] = Flag(x)
  <2>1. ans = [q \in Procs |-> ans[q]]
    BY DEF IInv, TypeInv
  <2>2. DOMAIN ans = Procs
    BY <2>1
  <2> HIDE DEF x
  <2> QED BY <1>3, <1>4, <2>2, AnsFacts DEF Finish, IInv
<1>12. LocalFlag(p)'
  BY <1>10 DEF LocalFlag
<1>13. met' = met /\ met \in [Procs -> BOOLEAN]
  BY <1>2 DEF IInv, TypeInv
<1>14. IInv'
  BY <1>1, <1>2, <1>7, <1>8, <1>9, <1>11, <1>12, <1>13, CallerMoves
<1>15. ASSUME ~met[p], installed.ok PROVE Flag(x) \in DueAnswers(op)
  <2> HIDE DEF x, op
  <2> QED BY <1>5, <1>6, <1>15, FlagIsDue
<1> HIDE DEF x
<1> QED BY <1>11, <1>14, <1>15 DEF AnsweredTruly
-----------------------------------------------------------------------------
LEMMA InitInv ==
  ASSUME Init PROVE IInv
<1>1. scen \in Scenarios /\ db \in DOMAIN Rows
  <2>1. scen \in Scenarios /\ db = scen.versions[1]
    BY DEF Init
  <2> QED BY <2>1, StoreAssumption
<1> DEFINE t == Whole(db)
<1>2. t \in Contents
  BY <1>1 DEF Whole, Contents, Versions
<1>3. /\ heap = <<t>> /\ cur = 1 /\ fmu = {}
      /\ slices = [w |-> t, g |-> t, s |-> t] /\ installed = [ok |-> TRUE, t |-> t]
      /\ caches = [w |-> MapW(t), g |-> MapG(t), s |-> MapS(t)]
  BY DEF Init, MapW, MapG, MapS
<1>4. /\ single = [k \in Keys |-> "none"] /\ defID = -1 /\ wlock = 0
      /\ pc = [p \in Procs |-> "idle"] /\ loc = [p \in Procs |-> Idle] /\ ans = [p \in Procs |-> Ok(<<>>)]
      /\ met = [p \in Procs |-> FALSE] /\ shaky = {}
  BY DEF Init
<1> HIDE DEF t
<1>5. heap \in Seq(Contents) /\ cur \in DOMAIN heap /\ 1 \in DOMAIN heap
  BY <1>2, <1>3
<1>6. \A p \in Procs : pc[p] = "idle" /\ loc[p] = Idle /\ ~met[p]
  BY <1>4
<1>7. TypeInv
  <2>1. pc \in [Procs -> ReloadPcs \cup CallPcs] /\ "idle" \in ReloadPcs /\ "idle" \in CallPcs
    BY <1>4 DEF ReloadPcs, CallPcs
  <2>2. loc = [p \in Procs |-> loc[p]] /\ ans = [p \in Procs |-> ans[p]]
    BY <1>4
  <2>3. Reloaders \subseteq Procs /\ Callers \subseteq Procs
    BY DEF Procs
  <2>4. \A p \in Procs : IsLoc(loc[p]) /\ loc[p].f \in DOMAIN heap
    <3>1. IsLoc(Idle) /\ Idle.f = 1
      BY NilFacts DEF Idle, IsLoc
    <3> QED BY <1>5, <1>6, <3>1
  <2>5. met \in [Procs -> BOOLEAN] /\ single \in [Keys -> {"none", "yes", "no"}] /\ wlock = 0
    BY <1>4
  <2>6. caches = [w |-> caches.w, g |-> caches.g, s |-> caches.s] /\ cur = 1 /\ fmu = {}
    BY <1>3
  <2>7. slices \in [w : Contents, g : Contents, s : Contents] /\ installed \in [ok : BOOLEAN, t : Contents]
    BY <1>2, <1>3
  <2>8. defID = -1 /\ shaky = {}
    BY <1>4
  <2> QED BY <1>1, <1>5, <1>6, <2>1, <2>2, <2>3, <2>4, <2>5, <2>6, <2>7, <2>8 DEF TypeInv
<1>8. LockInv
  BY <1>3, <1>4, <1>6 DEF LockInv, Writing
<1>9. AloneInv
  BY <1>4, <1>6 DEF AloneInv
<1>10. LoadInv
  BY <1>6 DEF LoadInv, Loading, Procs
<1>11. OkInv
  <2>1. \A p \in Reloaders : pc[p] \notin Loading
    BY <1>6 DEF Loading, Procs
  <2>2. installed.t = t /\ fmu = {} /\ cur = 1 /\ heap[1] = t /\ slices = [w |-> t, g |-> t, s |-> t]
    BY <1>3
  <2>3. \A k \in Keys : single[k] = "none"
    BY <1>4
  <2> QED BY <1>3, <1>4, <2>1, <2>2, <2>3 DEF OkInv
<1>12. FlagInv
  BY <1>4, <1>6 DEF FlagInv, LocalFlag, Keys, Procs
<1>13. CarryInv
  BY <1>6 DEF CarryInv, Procs
<1> QED BY <1>7, <1>8, <1>9, <1>10, <1>11, <1>12, <1>13 DEF IInv

OthersStay(p) == \A q \in Procs \ {p} : pc'[q] = pc[q]

LEMMA StepsAreLocal ==
  ASSUME NEW p \in Procs, Step(p), DOMAIN pc = Procs
  PROVE  OthersStay(p)
<1> USE DEF OthersStay, Goto, Finish
<1>1. CASE ReloadStep(p)
  <2>1. LockFactory(p) \/ ReadBackend(p) \/ ClearCache(p) => OthersStay(p)
    BY DEF LockFactory, ReadBackend, ClearCache
  <2>2. Select(p) \/ Selected(p) => OthersStay(p)
    BY DEF Select, Selected
  <2>3. LoadWebsites(p) => OthersStay(p)
    BY DEF LoadWebsites, LoadFails
  <2>4. LoadGroups(p) => OthersStay(p)
    BY DEF LoadGroups, LoadFails
  <2>5. LoadStores(p) => OthersStay(p)
    BY DEF LoadStores, LoadFails
  <2> HIDE DEF OthersStay
  <2> QED BY <1>1, <2>1, <2>2, <2>3, <2>4, <2>5 DEF ReloadStep
<1>2. CASE CallStep(p)
  <2>1. Lookup(p) \/ OfWebsite(p) \/ OfStore(p) \/ Torn(p) \/ ReadStores(p) \/ StoreIDbyCode(p) => OthersStay(p)
    BY DEF Lookup, OfWebsite, OfStore, Torn, ReadStores, StoreIDbyCode
  <2>2. OfGroup(p) \/ ReadWebsites(p) \/ View(p) \/ ViewCache(p) => OthersStay(p)
    BY DEF OfGroup, ReadWebsites, View, ViewCache
  <2>3. Backend(p) => OthersStay(p)
    BY DEF Backend
  <2>4. SingleStoreMode(p) \/ HasSingleStore(p) \/ SetHas(p) \/ SetSingle(p) => OthersStay(p)
    BY DEF SingleStoreMode, HasSingleStore, SetHas, SetSingle, HasIs
  <2> HIDE DEF OthersStay
  <2> QED BY <1>2, <2>1, <2>2, <2>3, <2>4 DEF CallStep
<1>3. CASE Announce(p)
  BY <1>3 DEF Announce
<1> QED BY <1>1, <1>2, <1>3 DEF Step

LEMMA StepInv ==
  ASSUME IInv, NEW p \in Procs, Step(p)
  PROVE  IInv' /\ \A q \in Callers : AnsweredTruly(q)
<1>1. OthersStay(p) /\ Callers \subseteq Procs
  BY StepsAreLocal DEF IInv, TypeInv, Procs
<1>2. \A q \in Callers \ {p} : AnsweredTruly(q)
  BY <1>1 DEF OthersStay, AnsweredTruly
<1>3. CASE ReloadStep(p)
  <2>1. IInv'
    BY <1>3, LockFactoryInv, SelectInv, SelectedInv, ClearCacheInv, ReadBackendInv, LoadWebsitesInv, LoadGroupsInv, LoadStoresInv
    DEF ReloadStep
  <2>2. p \notin Callers
    <3>1. pc[p] \in ReloadPcs \ {"idle"}
      BY <1>3 DEF ReloadStep, LockFactory, Select, Selected, ClearCache, ReadBackend, LoadWebsites, LoadGroups, LoadStores,
                  ReloadPcs, Loading
    <3>2. p \in Reloaders
      BY <3>1, WhoIs DEF IInv
    <3> QED BY <3>2, StoreAssumption
  <2> QED BY <1>2, <2>1, <2>2
<1>4. CASE CallStep(p)
  <2>1. IInv' /\ AnsweredTruly(p)
    BY <1>4, LookupInv, OfWebsiteInv, OfGroupInv, OfStoreInv, TornInv, ReadWebsitesInv, ReadStoresInv, StoreIDbyCodeInv, ViewInv,
       ViewCacheInv, BackendInv, SingleStoreModeInv, HasSingleStoreInv, SetHasInv, SetSingleInv
    DEF CallStep
  <2> QED BY <1>2, <2>1
<1>5. CASE Announce(p)
  <2>1. IInv' /\ AnsweredTruly(p)
    BY <1>5, AnnounceInv DEF AnsweredTruly
  <2> QED BY <1>2, <2>1
<1> QED BY <1>3, <1>4, <1>5 DEF Step

LEMMA CallAnswers ==
  ASSUME IInv, NEW p \in Callers, NEW op, IsOp(op), pc[p] = "idle", Call(p, op)
  PROVE  IInv' /\ \A q \in Callers : AnsweredTruly(q)
<1>1. IInv'
  BY CallInv
<1>2. \A q \in Callers \ {p} : pc'[q] = pc[q]
  BY DEF Call, Goto, IInv, TypeInv, Procs
<1> QED BY <1>1, <1>2 DEF AnsweredTruly

LEMMA NextInv ==
  ASSUME IInv, [Next]_vars
  PROVE  IInv' /\ \A q \in Callers : AnsweredTruly(q)
<1>1. CASE \E p \in Procs : Step(p)
  BY <1>1, StepInv
<1>2. CASE \E p \in Reloaders : Reload(p)
  <2>1. PICK p \in Reloaders : Reload(p)
    BY <1>2
  <2>2. IInv'
    BY <2>1, ReloadInv
  <2>3. p \in Procs /\ Callers \subseteq Procs \ {p}
    BY StoreAssumption DEF Procs
  <2>4. \A q \in Callers : pc'[q] = pc[q]
    BY <2>1, <2>3 DEF Reload, Goto, IInv, TypeInv
  <2> QED BY <2>2, <2>4 DEF AnsweredTruly
<1>3. CASE \E p \in Callers : \E op \in scen.ops : Begin(p, op)
  <2>1. PICK p \in Callers : \E op \in scen.ops : Begin(p, op)
    BY <1>3
  <2>2. PICK op \in scen.ops : Begin(p, op)
    BY <2>1
  <2>3. IsOp(op)
    BY StoreAssumption DEF IInv, TypeInv, IsOp
  <2>4. pc[p] = "idle" /\ Call(p, op)
    BY <2>2 DEF Begin
  <2> QED BY <2>3, <2>4, CallAnswers
<1>4. CASE Commit
  <2>1. pc' = pc
    BY <1>4 DEF Commit
  <2> QED BY <1>4, <2>1, CommitInv DEF AnsweredTruly
<1>5. CASE UNCHANGED vars
  <2>1. UNCHANGED <<scen, db, heap, cur, fmu, slices, caches, single, defID, wlock, pc, loc, installed, met, shaky, ans>>
    BY <1>5 DEF vars, dataVars, histVars
  <2>2. db \in DOMAIN Rows /\ ans = [q \in Procs |-> ans[q]]
    BY DEF IInv, TypeInv
  <2>3. IInv'
    BY <2>1, <2>2, AsideInv
  <2> QED BY <2>1, <2>3 DEF AnsweredTruly
<1> QED BY <1>1, <1>2, <1>3, <1>4, <1>5 DEF Next

(* With the middleware: a request calls the Service, or is answered.        *)
LEMMA RespondInv ==
  ASSUME IInv, NEW p \in Callers, NEW status, NEW scope, NEW cookie, Respond(p, status, scope, cookie)
  PROVE  IInv' /\ \A q \in Callers : AnsweredTruly(q)
<1>1. UNCHANGED <<scen, db, heap, cur, fmu, slices, caches, single, defID, wlock, pc, loc, installed, met, shaky>>
  BY DEF Respond, dataVars, histVars
<1>2. ans' = [q \in Procs |-> ans'[q]]
  BY AnsFacts DEF Respond, IInv, Procs
<1>3. db \in DOMAIN Rows
  BY DEF IInv, TypeInv
<1>4. IInv'
  BY <1>1, <1>2, <1>3, AsideInv
<1> QED BY <1>1, <1>4 DEF AnsweredTruly

LEMMA RunModeNextInv ==
  ASSUME IInv, [RunModeNext]_allVars
  PROVE  IInv' /\ \A q \in Callers : AnsweredTruly(q)
<1>1. CASE ServiceStep \/ UNCHANGED allVars
  BY <1>1, NextInv DEF ServiceStep, allVars
<1>2. \A o \in {"default", "code"} : \A n : IsOp(ModeOp(o, n))
  BY StoreAssumption DEF IInv, TypeInv, IsOp, ModeOp, OpNames, Keys
<1>3. ASSUME NEW p \in Callers, HaveDefault(p) PROVE IInv' /\ \A q \in Callers : AnsweredTruly(q)
  <2>1. \/ \E status, scope, cookie : Respond(p, status, scope, cookie)
        \/ Call(p, ModeOp("code", fromRequest(req[p])))
    BY <1>3 DEF HaveDefault
  <2>2. pc[p] = "idle"
    BY <1>3 DEF HaveDefault
  <2> QED BY <1>2, <2>1, <2>2, RespondInv, CallAnswers
<1>4. ASSUME NEW p \in Callers, HaveStore(p) PROVE IInv' /\ \A q \in Callers : AnsweredTruly(q)
  <2>1. \E status, scope, cookie : Respond(p, status, scope, cookie)
    BY <1>4 DEF HaveStore
  <2> QED BY <2>1, RespondInv
<1>5. ASSUME NEW p \in Callers, NEW n \in scen.queries, Request(p, n) PROVE IInv' /\ \A q \in Callers : AnsweredTruly(q)
  <2>1. pc[p] = "idle" /\ Call(p, ModeOp("default", 0))
    BY <1>5 DEF Request
  <2> QED BY <1>2, <2>1, CallAnswers
<1> QED BY <1>1, <1>3, <1>4, <1>5 DEF RunModeNext
-----------------------------------------------------------------------------
(* The invariant holds, of the Service alone and beneath the middleware.    *)
THEOREM Invariance ==
  (Spec => []IInv) /\ (RunModeSpec => []IInv)
<1>1. Init => IInv
  BY InitInv
<1>2. IInv /\ [Next]_vars => IInv'
  BY NextInv
<1>3. IInv /\ [RunModeNext]_allVars => IInv'
  BY RunModeNextInv
<1>4. Spec => []IInv
  BY <1>1, <1>2, PTL DEF Spec
<1>5. RunModeSpec => []IInv
  BY <1>1, <1>3, PTL DEF RunModeSpec, RunModeInit
<1> QED BY <1>4, <1>5

(* Whenever the last reload went well alone, the three maps of              *)
(* store.Service are those of the tables it has selected.  A cached default *)
(* id is theirs too, and a cached flag is what HasSingleStore or            *)
(* IsSingleStoreMode finds in them; one that differs was written by a call  *)
(* that LoadFromResource has overtaken (shaky).                             *)
THEOREM CachesHoldTheLastReload ==
  (Spec => []CachesAreTrue) /\ (RunModeSpec => []CachesAreTrue)
<1>1. IInv => CachesAreTrue
  <2> SUFFICES ASSUME IInv, installed.ok PROVE CachesAreTrue
    BY DEF CachesAreTrue
  <2> DEFINE t == installed.t
  <2>1. /\ caches = [w |-> MapW(t), g |-> MapG(t), s |-> MapS(t)]
        /\ \A k \in Keys : k \notin shaky => single[k] \in {"none"} \cup Flags(t, k)
        /\ "view" \notin shaky => defID = -1 \/ Ok(<<defID>>) = FactoryDefaultStoreID(t)
    BY DEF IInv, OkInv
  <2> HIDE DEF t
  <2> QED BY <2>1 DEF CachesAreTrue, MapW, MapG, MapS, t
<1> QED BY <1>1, Invariance, PTL

(* A call of store.Service that has met no reload answers from the tables   *)
(* that the last one has selected, if it went well alone.  The answer may   *)
(* differ where Excused says so: a flag or id that a call beside a reload   *)
(* has cached, and DefaultStoreView after a failed select.                  *)
THEOREM CallsAnswerFromTheLastReload ==
  (Spec => AnswersAreTrue) /\ (RunModeSpec => AnswersAreTrue)
<1> DEFINE A == \A p \in Callers : AnsweredTruly(p)
<1>1. IInv /\ [Next]_vars => [A]_vars
  BY NextInv
<1>2. IInv /\ [RunModeNext]_allVars => [A]_vars
  BY RunModeNextInv
<1>3. A <=> \A p \in Callers : pc[p] # "idle" /\ pc'[p] = "idle" /\ ~met[p] /\ installed.ok =>
                                 Excused(loc[p].op) \/ ans'[p] \in DueAnswers(loc[p].op)
  BY DEF AnsweredTruly
<1> HIDE DEF A
<1>4. Spec => [][A]_vars
  BY <1>1, Invariance, PTL DEF Spec
<1>5. RunModeSpec => [][A]_vars
  BY <1>2, Invariance, PTL DEF RunModeSpec
<1> QED BY <1>3, <1>4, <1>5, PTL DEF AnswersAreTrue
-----------------------------------------------------------------------------
(* What a step of a call leaves alone.                                      *)
Onward(p) == \E l, x : Goto(p, l, x) /\ (l = "idle" \/ x.op = loc[p].op)
Proceeds(p) ==
  /\ Onward(p)
  /\ ans' = ans \/ \E a : ans' = [ans EXCEPT ![p] = a]
  /\ UNCHANGED <<scen, installed, reloads>>
  /\ \A q \in Procs : met'[q] = met[q] \/ (q = p /\ loc[p].op.op \in {"has", "single"})
  /\ pc[p] # "idle"

LEMMA CallStepsProceed ==
  ASSUME IInv, NEW p \in Callers, CallStep(p) \/ Announce(p)
  PROVE  Proceeds(p)
<1>1. p \in Procs /\ IsLoc(loc[p]) /\ met \in [Procs -> BOOLEAN] /\ LocalFlag(p)
  BY DEF IInv, TypeInv, FlagInv, Procs
<1>2. \A l, v : /\ Goto(p, l, [loc[p] EXCEPT !.id = v]) => Onward(p)
                /\ Goto(p, l, [loc[p] EXCEPT !.t = v]) => Onward(p)
                /\ Goto(p, l, [loc[p] EXCEPT !.bad = v]) => Onward(p)
                /\ Goto(p, l, loc[p]) => Onward(p)
  <2>1. \A v : /\ [loc[p] EXCEPT !.id = v].op = loc[p].op /\ [loc[p] EXCEPT !.t = v].op = loc[p].op
               /\ [loc[p] EXCEPT !.bad = v].op = loc[p].op
    BY <1>1 DEF IsLoc
  <2> QED BY <2>1 DEF Onward
<1>3. /\ ReadsOnly => UNCHANGED <<scen, installed, reloads, met>>
      /\ \A a : Finish(p, a) => Onward(p) /\ \E b : ans' = [ans EXCEPT ![p] = b]
  BY DEF ReadsOnly, histVars, Finish, Onward
<1>4. Lookup(p) \/ OfWebsite(p) \/ OfStore(p) \/ Torn(p) \/ ReadStores(p) \/ StoreIDbyCode(p) => Proceeds(p)
  BY <1>3 DEF Lookup, OfWebsite, OfStore, Torn, ReadStores, StoreIDbyCode, Proceeds, histVars
<1>5. OfGroup(p) \/ ReadWebsites(p) => Proceeds(p)
  <2>1. OfGroup(p) \/ ReadWebsites(p) => Onward(p) /\ (ans' = ans \/ \E a : ans' = [ans EXCEPT ![p] = a])
    BY <1>2, <1>3 DEF OfGroup, ReadWebsites
  <2> QED BY <1>3, <2>1 DEF OfGroup, ReadWebsites, Proceeds
<1>6. View(p) \/ ViewCache(p) => Proceeds(p)
  BY <1>2, <1>3 DEF View, ViewCache, Proceeds, histVars
<1>7. Backend(p) => Proceeds(p)
  <2>1. Backend(p) => Onward(p) /\ (ans' = ans \/ \E a : ans' = [ans EXCEPT ![p] = a])
    BY <1>2, <1>3 DEF Backend
  <2> QED BY <2>1 DEF Backend, Proceeds
<1>8. SingleStoreMode(p) \/ SetSingle(p) => Proceeds(p)
  BY <1>2, <1>3 DEF SingleStoreMode, SetSingle, Proceeds
<1>9. \A x : HasIs(p, x) => Onward(p) /\ (ans' = ans \/ \E a : ans' = [ans EXCEPT ![p] = a])
  BY <1>2, <1>3 DEF HasIs
<1>10. SetHas(p) => Proceeds(p)
  BY <1>9 DEF SetHas, Proceeds
<1>11. HasSingleStore(p) => Proceeds(p)
  <2> SUFFICES ASSUME HasSingleStore(p) PROVE Proceeds(p)
    OBVIOUS
  <2>1. loc[p].op.op \in {"has", "single"} /\ pc[p] # "idle"
    BY <1>1 DEF HasSingleStore, LocalFlag
  <2>2. \A q \in Procs \ {p} : met'[q] = met[q]
    BY <1>1 DEF HasSingleStore
  <2> QED BY <1>2, <1>9, <2>1, <2>2 DEF HasSingleStore, Proceeds
<1>12. Announce(p) => Proceeds(p)
  BY <1>2 DEF Announce, Proceeds, histVars
<1> QED BY <1>4, <1>5, <1>6, <1>7, <1>8, <1>10, <1>11, <1>12 DEF CallStep
-----------------------------------------------------------------------------
(* A request that no reload has disturbed has, or waits for, the answers    *)
(* that are due.                                                            *)
IsRequest(r) ==
  /\ r = [stage |-> r.stage, query |-> r.query, cookie |-> r.cookie, calm |-> r.calm, old |-> r.old]
  /\ r.stage \in {"none", "default", "code"} /\ r.calm \in Int
  /\ r.stage = "code" => fromRequest(r) # 0
Asks(p) == IF req[p].stage = "default" THEN ModeOp("default", 0) ELSE ModeOp("code", fromRequest(req[p]))
Calm(p) == req[p].stage # "none" /\ req[p].calm = reloads
Served(p) ==
  /\ Reloading = {} /\ installed.ok
  /\ IF pc[p] = "idle" THEN ans[p] = Due(Asks(p)) ELSE loc[p].op = Asks(p) /\ ~met[p]
  /\ req[p].stage = "code" => Due(ModeOp("default", 0)).err = "none" /\ req[p].old = Due(ModeOp("default", 0)).val
RequestInv ==
  /\ reloads \in Nat
  /\ req = [p \in Callers |-> req[p]]
  /\ \A p \in Callers : IsRequest(req[p]) /\ req[p].calm <= reloads
  /\ \A p \in Callers : Calm(p) => Served(p)

(* Only the goroutine p moves, and it does not reload.                      *)
Beside(p) ==
  /\ UNCHANGED <<scen, installed, reloads>>
  /\ \A q \in Procs \ {p} : pc'[q] = pc[q] /\ loc'[q] = loc[q] /\ ans'[q] = ans[q] /\ met'[q] = met[q]
  /\ \A q \in Callers \ {p} : req'[q] = req[q]

LEMMA BesideFacts ==
  ASSUME NEW p \in Callers, Beside(p)
  PROVE  /\ Reloading' = Reloading
         /\ \A op : Due(op)' = Due(op)
         /\ \A o, n : ModeOp(o, n)' = ModeOp(o, n)
<1>1. Reloaders \subseteq Procs \ {p}
  BY StoreAssumption DEF Procs
<1> QED BY <1>1 DEF Beside, Reloading, Due, ModeOp

LEMMA RequestMoves ==
  ASSUME RequestInv, NEW p \in Callers, Beside(p),
         req' = [q \in Callers |-> req'[q]], IsRequest(req'[p]), req'[p].calm <= reloads,
         Calm(p)' => Served(p)'
  PROVE  RequestInv'
<1>1. ASSUME NEW q \in Callers \ {p}, Calm(q)' PROVE Served(q)'
  <2>1. /\ req'[q] = req[q] /\ pc'[q] = pc[q] /\ loc'[q] = loc[q] /\ ans'[q] = ans[q] /\ met'[q] = met[q]
        /\ reloads' = reloads /\ installed' = installed
    BY DEF Beside, Procs
  <2>2. Served(q)
    BY <1>1, <2>1 DEF RequestInv, Calm
  <2>3. Asks(q)' = Asks(q)
    BY <2>1, BesideFacts DEF Asks, fromRequest
  <2> QED BY SMTT(60), Z3T(60), <2>1, <2>2, <2>3, BesideFacts DEF Served
<1>2. \A q \in Callers : IsRequest(req[q])' /\ (req[q].calm <= reloads)'
  <2>1. \A q \in Callers : IsRequest(req'[q]) /\ req'[q].calm <= reloads
    BY DEF RequestInv, Beside
  <2> QED BY <2>1 DEF IsRequest, Beside, fromRequest
<1>3. reloads' \in Nat
  BY DEF RequestInv, Beside
<1> QED BY <1>1, <1>2, <1>3 DEF RequestInv
LEMMA StepFacts ==
  ASSUME IInv, NEW p \in Procs, Step(p)
  PROVE  UNCHANGED <<scen, reloads>> /\ pc[p] # "idle" /\ (p \in Callers => CallStep(p) \/ Announce(p))
<1>1. ReloadStep(p) => UNCHANGED <<scen, reloads>> /\ pc[p] \in ReloadPcs \ {"idle"}
  <2>1. LockFactory(p) \/ Select(p) \/ Selected(p) \/ ClearCache(p) \/ ReadBackend(p) =>
          UNCHANGED <<scen, reloads>> /\ pc[p] \in ReloadPcs \ {"idle"}
    BY DEF LockFactory, Select, Selected, ClearCache, ReadBackend, ReloadPcs, Loading
  <2>2. LoadWebsites(p) \/ LoadGroups(p) \/ LoadStores(p) =>
          UNCHANGED <<scen, reloads>> /\ pc[p] \in ReloadPcs \ {"idle"}
    BY DEF LoadWebsites, LoadGroups, LoadStores, LoadFails, ReloadPcs, Loading
  <2> QED BY <2>1, <2>2 DEF ReloadStep
<1>2. ReloadStep(p) => p \notin Callers
  BY <1>1, WhoIs, StoreAssumption DEF IInv
<1>3. CallStep(p) => UNCHANGED <<scen, reloads>> /\ pc[p] # "idle"
  <2>1. CallStep(p) => p \in Callers
    BY WhoIs DEF IInv, CallStep, CallPcs, Lookup, OfWebsite, OfGroup, OfStore, Torn, ReadWebsites, ReadStores, StoreIDbyCode, View,
                 ViewCache, Backend, SingleStoreMode, HasSingleStore, SetHas, SetSingle
  <2> QED BY <2>1, CallStepsProceed DEF Proceeds
<1>4. Announce(p) => UNCHANGED <<scen, reloads>> /\ pc[p] # "idle"
  BY DEF Announce
<1> QED BY <1>1, <1>2, <1>3, <1>4 DEF Step, ReloadPcs

LEMMA CallRequests ==
  ASSUME IInv, RequestInv, NEW p \in Callers, CallStep(p) \/ Announce(p), AnsweredTruly(p), req' = req
  PROVE  RequestInv'
<1>1. Proceeds(p) /\ p \in Procs
  BY CallStepsProceed DEF Procs
<1>2. PICK l, x : Goto(p, l, x) /\ (l = "idle" \/ x.op = loc[p].op)
  BY <1>1 DEF Proceeds, Onward
<1>3. pc'[p] = l /\ loc'[p] = x /\ \A q \in Procs \ {p} : pc'[q] = pc[q] /\ loc'[q] = loc[q] /\ ans'[q] = ans[q]
  <2>1. loc = [q \in Procs |-> loc[q]] /\ DOMAIN pc = Procs /\ ans = [q \in Procs |-> ans[q]]
    BY DEF IInv, TypeInv
  <2>2. DOMAIN loc = Procs /\ DOMAIN ans = Procs
    BY <2>1
  <2>3. \A q \in Procs \ {p} : ans'[q] = ans[q]
    BY <1>1, <2>2 DEF Proceeds
  <2> QED BY <1>1, <1>2, <2>1, <2>2, <2>3 DEF Goto
<1>4. Beside(p)
  BY <1>1, <1>3 DEF Beside, Proceeds
<1>5. ASSUME Calm(p)' PROVE Served(p)'
  <2>1. Served(p) /\ pc[p] # "idle" /\ installed' = installed
    BY <1>1, <1>4, <1>5 DEF RequestInv, Calm, Beside, Proceeds
  <2>2. Asks(p)' = Asks(p)
    BY <1>4, BesideFacts DEF Asks, fromRequest
  <2>3. loc[p].op = Asks(p) /\ ~met[p] /\ installed.ok
    BY <2>1 DEF Served
  <2>4. Asks(p).op \in {"default", "code"}
    BY DEF Asks, ModeOp
  <2>5. met'[p] = met[p]
    BY <1>1, <2>3, <2>4 DEF Proceeds
  <2>6. ~Excused(Asks(p))
    BY <2>4 DEF Excused
  <2>7. pc'[p] = "idle" => ans'[p] = Due(Asks(p))
    <3>1. DueAnswers(Asks(p)) = {Due(Asks(p))}
      BY <2>4 DEF DueAnswers
    <3> QED BY <2>1, <2>3, <2>6, <3>1 DEF AnsweredTruly
  <2>8. pc'[p] # "idle" => loc'[p].op = Asks(p)
    BY <1>2, <1>3, <2>3
  <2> QED BY <1>4, <2>1, <2>2, <2>3, <2>5, <2>7, <2>8, BesideFacts DEF Served
<1> QED BY <1>4, <1>5, RequestMoves DEF RequestInv

LEMMA ServiceRequests ==
  ASSUME IInv, RequestInv, ServiceStep PROVE RequestInv'
<1>1. req' = req
  BY DEF ServiceStep, requestVars
<1>2. ASSUME NEW p \in Procs, Step(p) PROVE RequestInv'
  <2>1. CASE p \in Callers
    BY <1>1, <1>2, <2>1, StepFacts, StepInv, CallRequests
  <2>2. CASE p \in Reloaders
    <3>1. Reloading # {} /\ reloads' = reloads
      BY <1>2, <2>2, StepFacts DEF Reloading
    <3>2. \A q \in Callers : ~Calm(q)'
      BY <1>1, <3>1 DEF RequestInv, Calm, Served
    <3> QED BY <1>1, <3>1, <3>2 DEF RequestInv, IsRequest, fromRequest
  <2> QED BY <2>1, <2>2 DEF Procs
<1>3. ASSUME NEW p \in Reloaders, Reload(p) PROVE RequestInv'
  <2>1. reloads' = reloads + 1
    BY <1>3 DEF Reload
  <2>2. \A q \in Callers : req[q].calm \in Int /\ req[q].calm <= reloads /\ reloads \in Nat
    BY DEF RequestInv, IsRequest
  <2>3. \A q \in Callers : req[q].calm <= reloads' /\ req[q].calm # reloads' /\ reloads' \in Nat
    BY <2>1, <2>2
  <2>4. reloads' \in Nat
    BY <2>1 DEF RequestInv
  <2> QED BY <1>1, <2>3, <2>4 DEF RequestInv, Calm, IsRequest, fromRequest
<1>4. ASSUME NEW p \in Callers, NEW op \in scen.ops, Begin(p, op) PROVE RequestInv'
  <2>1. Beside(p) /\ pc[p] = "idle" /\ pc'[p] # "idle"
    <3>1. pc[p] = "idle" /\ Call(p, op) /\ IsOp(op)
      BY <1>4, StoreAssumption DEF Begin, IInv, TypeInv, IsOp
    <3>2. loc = [q \in Procs |-> loc[q]] /\ DOMAIN pc = Procs /\ met \in [Procs -> BOOLEAN] /\ p \in Procs
      BY DEF IInv, TypeInv, Procs
    <3>3. Entry(op) # "idle"
      BY <3>1 DEF Entry, IsOp, OpNames, ModeTypes
    <3>4. DOMAIN loc = Procs
      BY <3>2
    <3> QED BY <1>1, <3>1, <3>2, <3>3, <3>4 DEF Beside, Call, Goto
  <2>2. req[p].stage = "none"
    BY <2>1 DEF ServiceStep, RequestInv, IsRequest
  <2> QED BY <1>1, <2>1, <2>2, RequestMoves DEF RequestInv, Calm
<1>5. CASE Commit
  BY SMTT(60), Z3T(60), <1>1, <1>5 DEF Commit, RequestInv, Calm, Served, Asks, IsRequest, fromRequest, Due, ModeOp, Reloading, histVars
<1> QED BY <1>2, <1>3, <1>4, <1>5 DEF ServiceStep, Next
LEMMA CallBeside ==
  ASSUME IInv, NEW p \in Callers, NEW op, IsOp(op), Call(p, op), reloads' = reloads, \A q \in Callers \ {p} : req'[q] = req[q]
  PROVE  Beside(p) /\ pc'[p] # "idle" /\ loc'[p].op = op /\ (met'[p] <=> Reloading # {})
<1>1. loc = [q \in Procs |-> loc[q]] /\ DOMAIN pc = Procs /\ met \in [Procs -> BOOLEAN] /\ p \in Procs
  BY DEF IInv, TypeInv, Procs
<1>2. Entry(op) # "idle"
  BY DEF Entry, IsOp, OpNames, ModeTypes
<1>3. DOMAIN loc = Procs
  BY <1>1
<1>4. [Idle EXCEPT !.op = op, !.id = op.mode.id].op = op
  BY DEF Idle
<1>5. pc' = [pc EXCEPT ![p] = Entry(op)] /\ loc' = [loc EXCEPT ![p] = [Idle EXCEPT !.op = op, !.id = op.mode.id]]
      /\ met' = [met EXCEPT ![p] = Reloading # {}] /\ UNCHANGED <<scen, ans, installed>>
  BY DEF Call, Goto
<1>6. pc'[p] = Entry(op) /\ loc'[p] = [Idle EXCEPT !.op = op, !.id = op.mode.id] /\ (met'[p] <=> Reloading # {})
  BY <1>1, <1>3, <1>5
<1> QED BY <1>1, <1>2, <1>3, <1>4, <1>5, <1>6 DEF Beside

LEMMA RespondRequests ==
  ASSUME IInv, RequestInv, NEW p \in Callers, NEW status, NEW scope, NEW cookie, Respond(p, status, scope, cookie)
  PROVE  RequestInv' /\ \A q \in Callers \ {p} : req'[q] = req[q]
<1>1. req' = [req EXCEPT ![p] = NoRequest] /\ ans' = [ans EXCEPT ![p] = Ok(<<>>)]
      /\ UNCHANGED <<scen, pc, loc, met, installed, reloads>>
  BY DEF Respond, histVars
<1>2. req = [q \in Callers |-> req[q]] /\ ans = [q \in Procs |-> ans[q]] /\ reloads \in Nat
  BY DEF RequestInv, IInv, TypeInv
<1>3. req'[p] = NoRequest /\ (\A q \in Callers \ {p} : req'[q] = req[q]) /\ req' = [q \in Callers |-> req'[q]]
  <2>1. DOMAIN req = Callers
    BY <1>2
  <2> QED BY <1>1, <2>1
<1>4. \A q \in Procs \ {p} : ans'[q] = ans[q]
  <2>1. DOMAIN ans = Procs
    BY <1>2
  <2> QED BY <1>1, <2>1
<1>5. Beside(p)
  BY <1>1, <1>3, <1>4 DEF Beside
<1>6. IsRequest(NoRequest) /\ NoRequest.stage = "none" /\ NoRequest.calm = -1
  BY DEF IsRequest, NoRequest
<1>7. NoRequest.calm <= reloads
  BY <1>2, <1>6
<1> QED BY <1>3, <1>5, <1>6, <1>7, RequestMoves DEF Calm

(* A request that ends has got what is due.                                 *)
ServedNow(p) ==
  req[p].stage # "none" /\ req'[p].stage = "none" /\ req[p].calm = reloads =>
    done'.status = DueResponse(req[p]) /\ (done'.status = "next" => done'.scope = DueStore(req[p]).val)

LEMMA ModeOps ==
  ASSUME IInv PROVE \A o \in {"default", "code"} : \A n : IsOp(ModeOp(o, n))
BY StoreAssumption DEF IInv, TypeInv, IsOp, ModeOp, OpNames, Keys

LEMMA HaveDefaultRequests ==
  ASSUME IInv, RequestInv, NEW p \in Callers, HaveDefault(p)
  PROVE  RequestInv' /\ \A q \in Callers : ServedNow(q)
<1> DEFINE d == Due(ModeOp("default", 0))
<1>1. pc[p] = "idle" /\ req[p].stage = "default"
  BY DEF HaveDefault
<1>2. Calm(p) => Served(p) /\ ans[p] = d
  BY <1>1 DEF RequestInv, Served, Asks
<1> HIDE DEF d
<1>3. CASE ans[p].err # "none"
  <2>1. Respond(p, "error", <<>>, "keep")
    BY <1>3 DEF HaveDefault
  <2>2. done' = [status |-> "error", scope |-> <<>>]
    BY <2>1 DEF Respond
  <2>3. RequestInv' /\ \A q \in Callers \ {p} : req'[q] = req[q]
    BY <2>1, RespondRequests
  <2>4. ServedNow(p)
    BY <1>2, <1>3, <2>2 DEF ServedNow, DueResponse, Calm, d
  <2> QED BY <2>3, <2>4 DEF ServedNow
<1>4. CASE ans[p].err = "none" /\ fromRequest(req[p]) = 0
  <2>1. Respond(p, "next", ans[p].val, ProcessAllowed(p, ans[p].val[1], ans[p].val[1]))
    BY <1>4 DEF HaveDefault
  <2>2. done' = [status |-> "next", scope |-> ans[p].val]
    BY <2>1 DEF Respond
  <2>3. RequestInv' /\ \A q \in Callers \ {p} : req'[q] = req[q]
    BY <2>1, RespondRequests
  <2>4. ServedNow(p)
    BY <1>2, <1>4, <2>2 DEF ServedNow, DueResponse, DueStore, Calm, d
  <2> QED BY <2>3, <2>4 DEF ServedNow
<1>5. CASE ans[p].err = "none" /\ fromRequest(req[p]) # 0
  <2> DEFINE op == ModeOp("code", fromRequest(req[p]))
  <2>1. /\ req' = [req EXCEPT ![p].stage = "code", ![p].old = ans[p].val]
        /\ Call(p, op)
    BY <1>5 DEF HaveDefault
  <2>2. reloads' = reloads
    BY <2>1 DEF Call
  <2>3. /\ req'[p] = [req[p] EXCEPT !.stage = "code", !.old = ans[p].val]
        /\ \A q \in Callers \ {p} : req'[q] = req[q]
        /\ req' = [q \in Callers |-> req'[q]]
    <3>1. req = [q \in Callers |-> req[q]]
      BY DEF RequestInv
    <3>2. DOMAIN req = Callers
      BY <3>1
    <3> QED BY <2>1, <3>2
  <2>4. /\ req'[p] = [stage |-> "code", query |-> req[p].query, cookie |-> req[p].cookie, calm |-> req[p].calm, old |-> ans[p].val]
        /\ req[p].calm \in Int /\ req[p].calm <= reloads
    <3>1. IsRequest(req[p]) /\ req[p].calm <= reloads
      BY DEF RequestInv
    <3> QED BY <2>3, <3>1 DEF IsRequest
  <2>5. fromRequest(req'[p]) = fromRequest(req[p])
    BY <2>4 DEF fromRequest
  <2>6. IsRequest(req'[p]) /\ req'[p].calm <= reloads
    BY <1>5, <2>4, <2>5 DEF IsRequest
  <2>7. Beside(p) /\ pc'[p] # "idle" /\ loc'[p].op = op /\ (met'[p] <=> Reloading # {})
    <3>1. IsOp(op)
      BY ModeOps
    <3> QED BY <2>1, <2>2, <2>3, <3>1, CallBeside
  <2>8. Asks(p)' = op
    <3>1. fromRequest(req[p])' = fromRequest(req[p])
      BY <2>5 DEF fromRequest
    <3>2. scen' = scen
      BY <2>7 DEF Beside
    <3> QED BY SMTT(60), Z3T(60), <2>4, <3>1, <3>2 DEF Asks, ModeOp
  <2>9. Calm(p)' => Served(p)'
    <3> SUFFICES ASSUME Calm(p)' PROVE Served(p)'
      OBVIOUS
    <3>1. Calm(p) /\ installed' = installed
      BY SMTT(60), Z3T(60), <1>1, <2>4, <2>7 DEF Calm, Beside
    <3>2. Served(p) /\ ans[p] = d
      BY <1>2, <3>1
    <3>3. d.err = "none" /\ req'[p].old = d.val
      BY <1>5, <2>4, <3>2
    <3>4. Due(ModeOp("default", 0))' = d
      BY <2>7, BesideFacts DEF d, Beside, ModeOp, Due
    <3> HIDE DEF op
    <3>5. ~met'[p] /\ Reloading' = {} /\ installed'.ok
      BY <2>7, <3>1, <3>2, BesideFacts DEF Served
    <3> QED BY <2>7, <2>8, <3>3, <3>4, <3>5 DEF Served
  <2>10. RequestInv'
    <3> HIDE DEF op
    <3> QED BY <2>3, <2>6, <2>7, <2>9, RequestMoves
  <2> QED BY <2>3, <2>4, <2>10 DEF ServedNow
<1> QED BY <1>3, <1>4, <1>5
LEMMA HaveStoreRequests ==
  ASSUME IInv, RequestInv, NEW p \in Callers, HaveStore(p)
  PROVE  RequestInv' /\ \A q \in Callers : ServedNow(q)
<1> DEFINE d == Due(ModeOp("default", 0))
           c == Due(ModeOp("code", fromRequest(req[p])))
<1>1. pc[p] = "idle" /\ req[p].stage = "code" /\ fromRequest(req[p]) # 0
  BY DEF HaveStore, RequestInv, IsRequest
<1>2. Calm(p) => ans[p] = c /\ d.err = "none"
  BY <1>1 DEF RequestInv, Served, Asks
<1>3. DueStore(req[p]) = c /\ (d.err = "none" => DueResponse(req[p]) = IF c.err = "none" THEN "next" ELSE "denied")
  BY <1>1 DEF DueStore, DueResponse
<1>4. c.err \in {"none", "NotFound"}
  <2>1. c = ByCode(installed.t, installed.t, scen.mode, fromRequest(req[p]))
    BY SMTT(60), Z3T(60), <1>1, ModeOps, DueFacts DEF ModeOp
  <2> HIDE DEF c
  <2> QED BY <2>1 DEF ByCode, NotFound, Fail, Ok
<1> HIDE DEF c, d
<1>5. CASE ans[p].err = "NotFound"
  <2>1. Respond(p, "denied", req[p].old, ProcessDenied(p))
    BY <1>5 DEF HaveStore
  <2>2. done' = [status |-> "denied", scope |-> req[p].old]
    BY <2>1 DEF Respond
  <2>3. RequestInv' /\ \A q \in Callers \ {p} : req'[q] = req[q]
    BY <2>1, RespondRequests
  <2>4. ServedNow(p)
    BY <1>2, <1>3, <1>5, <2>2 DEF ServedNow, Calm
  <2> QED BY <2>3, <2>4 DEF ServedNow
<1>6. CASE ans[p].err = "none"
  <2>1. Respond(p, "next", ans[p].val, ProcessAllowed(p, req[p].old[1], ans[p].val[1]))
    BY <1>6 DEF HaveStore
  <2>2. done' = [status |-> "next", scope |-> ans[p].val]
    BY <2>1 DEF Respond
  <2>3. RequestInv' /\ \A q \in Callers \ {p} : req'[q] = req[q]
    BY <2>1, RespondRequests
  <2>4. ServedNow(p)
    BY <1>2, <1>3, <1>6, <2>2 DEF ServedNow, Calm
  <2> QED BY <2>3, <2>4 DEF ServedNow
<1>7. CASE ans[p].err \notin {"none", "NotFound"}
  <2>1. Respond(p, "error", <<>>, "keep")
    BY <1>7 DEF HaveStore
  <2>2. RequestInv' /\ \A q \in Callers \ {p} : req'[q] = req[q]
    BY <2>1, RespondRequests
  <2>3. ServedNow(p)
    BY <1>2, <1>4, <1>7 DEF ServedNow, Calm
  <2> QED BY <2>2, <2>3 DEF ServedNow
<1> QED BY <1>5, <1>6, <1>7

LEMMA RequestRequests ==
  ASSUME IInv, RequestInv, NEW p \in Callers, NEW n, Request(p, n)
  PROVE  RequestInv' /\ \A q \in Callers : ServedNow(q)
<1> DEFINE op == ModeOp("default", 0)
           calm == IF Reloading = {} /\ installed.ok THEN reloads ELSE -1
           r == [stage |-> "default", query |-> n, cookie |-> FromCookie, calm |-> calm, old |-> <<>>]
<1>1. pc[p] = "idle" /\ req[p].stage = "none" /\ Call(p, op) /\ req' = [req EXCEPT ![p] = r]
  BY DEF Request
<1>2. reloads' = reloads /\ reloads \in Nat
  BY <1>1 DEF Call, RequestInv
<1>3. req'[p] = r /\ (\A q \in Callers \ {p} : req'[q] = req[q]) /\ req' = [q \in Callers |-> req'[q]]
  <2>1. req = [q \in Callers |-> req[q]]
    BY DEF RequestInv
  <2>2. DOMAIN req = Callers
    BY <2>1
  <2> HIDE DEF r
  <2> QED BY <1>1, <2>2
<1>4. Beside(p) /\ pc'[p] # "idle" /\ loc'[p].op = op /\ (met'[p] <=> Reloading # {})
  <2>1. IsOp(op)
    BY ModeOps
  <2> HIDE DEF op, r
  <2> QED BY <1>1, <1>2, <1>3, <2>1, CallBeside
<1>5. calm \in Int /\ calm <= reloads /\ (calm = reloads => Reloading = {} /\ installed.ok)
  BY <1>2
<1>6. IsRequest(r) /\ r.stage = "default" /\ r.calm = calm
  <2> HIDE DEF calm
  <2> QED BY <1>5 DEF IsRequest
<1>7. Asks(p)' = op
  <2>1. scen' = scen
    BY <1>4 DEF Beside
  <2> QED BY <1>3, <1>6, <2>1 DEF Asks, ModeOp
<1> HIDE DEF op, calm, r
<1>8. ASSUME Calm(p)' PROVE Served(p)'
  <2>1. Reloading = {} /\ installed.ok /\ installed' = installed
    BY <1>2, <1>3, <1>4, <1>5, <1>6, <1>8 DEF Calm, Beside
  <2>2. Reloading' = {} /\ ~met'[p] /\ req'[p].stage = "default"
    BY <1>3, <1>4, <1>6, <2>1, BesideFacts
  <2> QED BY <1>4, <1>7, <2>1, <2>2 DEF Served
<1>9. RequestInv'
  BY <1>3, <1>4, <1>5, <1>6, <1>8, RequestMoves
<1> QED BY <1>1, <1>3, <1>9 DEF ServedNow
-----------------------------------------------------------------------------
(* The cookie holds the choice, also while the visitor's one request is     *)
(* under way: it read the cookie that is still there.                       *)
CookieInv ==
  /\ jar # Bad
  /\ ~overlapped =>
       /\ \A p, q \in Callers : req[p].stage # "none" /\ req[q].stage # "none" => p = q
       /\ ~scen.custom =>
            /\ jar = choice
            /\ \A p \in Callers : req[p].stage # "none" => req[p].cookie = jar

LEMMA FromRequestIsValid ==
  ASSUME NEW r PROVE fromRequest(r) # Bad
BY DEF fromRequest, Bad

LEMMA RespondCookie ==
  ASSUME RequestInv, CookieInv, NEW p \in Callers, req[p].stage # "none",
         NEW status, NEW scope, NEW cookie, Respond(p, status, scope, cookie),
         ~overlapped /\ ~scen.custom => jar' = choice'
  PROVE  CookieInv'
<1>1. UNCHANGED <<scen, overlapped>> /\ req' = [req EXCEPT ![p] = NoRequest]
  BY DEF Respond
<1>2. jar' # Bad
  <2>1. jar' \in {jar, 0, fromRequest(req[p])}
    BY DEF Respond
  <2>2. jar # Bad /\ 0 # Bad
    BY DEF CookieInv, Bad
  <2> QED BY <2>1, <2>2, FromRequestIsValid
<1>3. req'[p].stage = "none" /\ \A q \in Callers \ {p} : req'[q] = req[q]
  <2>1. req = [q \in Callers |-> req[q]]
    BY DEF RequestInv
  <2>2. DOMAIN req = Callers
    BY <2>1
  <2> QED BY <1>1, <2>2 DEF NoRequest
<1>4. ~overlapped => \A q \in Callers : req'[q].stage = "none"
  BY <1>3 DEF CookieInv
<1> QED BY <1>1, <1>2, <1>4 DEF CookieInv

(* What the cookie and the choice become, of the visitor's only request.    *)
LEMMA ChoiceKept ==
  ASSUME RequestInv, CookieInv, NEW p \in Callers, req[p].stage # "none", ~overlapped, ~scen.custom
  PROVE  /\ req[p].cookie = jar /\ jar = choice /\ jar # Bad
         /\ Respond(p, "error", <<>>, "keep") => jar' = choice'
BY DEF CookieInv, Respond

LEMMA HaveDefaultCookie ==
  ASSUME RequestInv, CookieInv, NEW p \in Callers, HaveDefault(p)
  PROVE  CookieInv'
<1>1. req[p].stage = "default"
  BY DEF HaveDefault
<1>2. CASE ans[p].err # "none"
  <2>1. Respond(p, "error", <<>>, "keep")
    BY <1>2 DEF HaveDefault
  <2> QED BY <1>1, <2>1, ChoiceKept, RespondCookie
<1>3. CASE ans[p].err = "none" /\ fromRequest(req[p]) = 0
  <2> DEFINE v == ans[p].val
  <2>1. Respond(p, "next", v, ProcessAllowed(p, v[1], v[1]))
    BY <1>3 DEF HaveDefault
  <2>2. ASSUME ~overlapped, ~scen.custom PROVE jar' = choice'
    <3>1. req[p].cookie = jar /\ jar = choice /\ jar # Bad
      BY <1>1, <2>2, ChoiceKept
    <3>2. req[p].query \in {0, Bad} /\ jar = 0
      BY <1>3, <3>1 DEF fromRequest
    <3>3. ProcessAllowed(p, v[1], v[1]) = "keep"
      BY <3>1, <3>2 DEF ProcessAllowed
    <3>4. Respond(p, "next", v, "keep")
      BY <2>1, <3>3
    <3>5. jar' = jar
      BY <3>4 DEF Respond
    <3>6. choice' = choice
      BY <3>1, <3>2, <3>4 DEF Respond
    <3> QED BY <3>1, <3>5, <3>6
  <2> HIDE DEF v
  <2> QED BY <1>1, <2>1, <2>2, RespondCookie
<1>4. CASE ans[p].err = "none" /\ fromRequest(req[p]) # 0
  <2>1. /\ req' = [req EXCEPT ![p].stage = "code", ![p].old = ans[p].val]
        /\ UNCHANGED <<jar, choice, overlapped, scen>>
    BY <1>4 DEF HaveDefault, Call
  <2>2. \A q \in Callers : /\ req'[q].cookie = req[q].cookie /\ req'[q].query = req[q].query
                           /\ req'[q].stage # "none" <=> req[q].stage # "none"
    <3>1. req = [q \in Callers |-> req[q]] /\ IsRequest(req[p])
      BY DEF RequestInv
    <3>2. DOMAIN req = Callers
      BY <3>1
    <3>3. /\ req'[p] = [req[p] EXCEPT !.stage = "code", !.old = ans[p].val]
          /\ \A q \in Callers \ {p} : req'[q] = req[q]
      BY <2>1, <3>2
    <3>4. req'[p].cookie = req[p].cookie /\ req'[p].query = req[p].query /\ req'[p].stage = "code"
      BY <3>1, <3>3 DEF IsRequest
    <3> QED BY <1>1, <3>3, <3>4
  <2>3. jar' # Bad
    BY <2>1 DEF CookieInv
  <2>4. ~overlapped => \A q, r \in Callers : req'[q].stage # "none" /\ req'[r].stage # "none" => q = r
    BY <2>2 DEF CookieInv
  <2>5. ~overlapped /\ ~scen.custom =>
          jar = choice /\ \A q \in Callers : req'[q].stage # "none" => req'[q].cookie = jar
    BY <2>2 DEF CookieInv
  <2> QED BY <2>1, <2>3, <2>4, <2>5 DEF CookieInv
<1> QED BY <1>2, <1>3, <1>4

LEMMA HaveStoreCookie ==
  ASSUME RequestInv, CookieInv, NEW p \in Callers, HaveStore(p)
  PROVE  CookieInv'
<1>1. req[p].stage = "code" /\ fromRequest(req[p]) # 0
  BY DEF HaveStore, RequestInv, IsRequest
<1> DEFINE r == req[p]
<1>2. ASSUME ~overlapped, ~scen.custom
      PROVE  /\ r.cookie = jar /\ jar = choice /\ jar # Bad
             /\ \/ r.query \notin {0, Bad} /\ fromRequest(r) = r.query
                \/ r.query \in {0, Bad} /\ jar # 0
  <2>1. r.cookie = jar /\ jar = choice /\ jar # Bad
    BY <1>1, <1>2, ChoiceKept
  <2> QED BY <1>1, <2>1 DEF fromRequest
<1>3. CASE ans[p].err = "NotFound"
  <2>1. Respond(p, "denied", r.old, ProcessDenied(p))
    BY <1>3 DEF HaveStore
  <2>2. ASSUME ~overlapped, ~scen.custom PROVE jar' = choice'
    <3>1. CASE jar = 0
      <4>1. ProcessDenied(p) = "keep"
        BY <1>2, <2>2, <3>1 DEF ProcessDenied
      <4>2. Respond(p, "denied", r.old, "keep")
        BY <2>1, <4>1
      <4> QED BY <1>2, <2>2, <3>1, <4>2 DEF Respond
    <3>2. CASE jar # 0
      <4>1. ProcessDenied(p) = "delete"
        BY <1>2, <2>2, <3>2 DEF ProcessDenied
      <4>2. Respond(p, "denied", r.old, "delete")
        BY <2>1, <4>1
      <4> QED BY <1>2, <2>2, <3>2, <4>2 DEF Respond
    <3> QED BY <3>1, <3>2
  <2> QED BY <1>1, <2>1, <2>2, RespondCookie
<1>4. CASE ans[p].err = "none"
  <2> DEFINE v == ans[p].val
             c == ProcessAllowed(p, r.old[1], v[1])
  <2>1. Respond(p, "next", v, c)
    BY <1>4 DEF HaveStore
  <2>2. ASSUME ~overlapped, ~scen.custom PROVE jar' = choice'
    <3>1. CASE r.query \notin {0, Bad}
      <4>1. /\ jar = choice /\ fromRequest(r) = r.query
            /\ c = IF jar # 0 /\ r.old[1] = v[1] THEN "delete" ELSE IF jar = 0 /\ r.old[1] # v[1] THEN "set" ELSE "keep"
        BY <1>2, <2>2, <3>1 DEF ProcessAllowed
      <4>2. choice' = IF v[1] = r.old[1] THEN 0 ELSE IF choice = 0 THEN r.query ELSE choice
        BY <2>1, <3>1 DEF Respond
      <4>3. jar' = IF c = "keep" THEN jar ELSE IF c = "delete" THEN 0 ELSE fromRequest(r)
        BY <2>1 DEF Respond
      <4> HIDE DEF r, v, c
      <4> QED BY <4>1, <4>2, <4>3
    <3>2. CASE r.query \in {0, Bad}
      <4>1. r.cookie = jar /\ jar \notin {0, Bad} /\ jar = choice
        BY <1>2, <2>2, <3>2
      <4>2. c = IF r.old[1] = v[1] THEN "delete" ELSE "keep"
        BY <4>1 DEF ProcessAllowed
      <4>3. choice' = IF v[1] = r.old[1] THEN 0 ELSE choice
        BY <2>1, <3>2, <4>1 DEF Respond
      <4>4. jar' = IF c = "keep" THEN jar ELSE IF c = "delete" THEN 0 ELSE fromRequest(r)
        BY <2>1 DEF Respond
      <4> HIDE DEF r, v, c
      <4> QED BY <4>1, <4>2, <4>3, <4>4
    <3> QED BY <3>1, <3>2
  <2> HIDE DEF v, c, r
  <2> QED BY <1>1, <2>1, <2>2, RespondCookie
<1>5. CASE ans[p].err \notin {"none", "NotFound"}
  <2>1. Respond(p, "error", <<>>, "keep")
    BY <1>5 DEF HaveStore
  <2> QED BY <1>1, <2>1, ChoiceKept, RespondCookie
<1> QED BY <1>3, <1>4, <1>5

LEMMA RequestCookie ==
  ASSUME RequestInv, CookieInv, NEW p \in Callers, NEW n, Request(p, n)
  PROVE  CookieInv'
<1>1. /\ UNCHANGED <<jar, choice, scen>> /\ overlapped' = (overlapped \/ Pending(p))
      /\ req[p].stage = "none"
  BY DEF Request, Call
<1>2. /\ req'[p].query = n /\ req'[p].cookie = FromCookie
      /\ \A q \in Callers \ {p} : req'[q] = req[q]
  <2>1. req = [q \in Callers |-> req[q]]
    BY DEF RequestInv
  <2>2. DOMAIN req = Callers
    BY <2>1
  <2>3. req'[p] = [stage |-> "default", query |-> n, cookie |-> FromCookie,
                   calm |-> IF Reloading = {} /\ installed.ok THEN reloads ELSE -1, old |-> <<>>]
    BY <2>2 DEF Request
  <2>4. \A q \in Callers \ {p} : req'[q] = req[q]
    BY <2>2 DEF Request
  <2> QED BY <2>3, <2>4
<1>3. ~overlapped' => ~overlapped /\ \A q \in Callers \ {p} : req[q].stage = "none"
  BY <1>1 DEF Pending
<1>4. jar' # Bad
  BY <1>1 DEF CookieInv
<1>5. ~overlapped' => \A q \in Callers \ {p} : req'[q].stage = "none"
  BY <1>2, <1>3
<1>6. ~scen.custom => req'[p].cookie = jar
  BY <1>2 DEF FromCookie
<1>7. ~overlapped' /\ ~scen.custom => jar = choice
  BY <1>3 DEF CookieInv
<1> QED BY <1>1, <1>2, <1>3, <1>4, <1>5, <1>6, <1>7 DEF CookieInv

LEMMA ServiceKeepsScenario ==
  ASSUME IInv, Next PROVE scen' = scen
<1>1. ASSUME NEW p \in Procs, Step(p) PROVE scen' = scen
  BY <1>1, StepFacts
<1> QED BY <1>1 DEF Next, Reload, Begin, Call, Commit

LEMMA RunModeNextRequests ==
  ASSUME IInv, RequestInv, CookieInv, [RunModeNext]_allVars
  PROVE  RequestInv' /\ CookieInv' /\ \A q \in Callers : ServedNow(q)
<1>1. CASE ServiceStep
  <2>1. UNCHANGED requestVars /\ scen' = scen
    BY <1>1, ServiceKeepsScenario DEF ServiceStep
  <2>2. CookieInv' /\ \A q \in Callers : ServedNow(q)
    BY <2>1 DEF CookieInv, ServedNow, requestVars
  <2> QED BY <1>1, <2>2, ServiceRequests
<1>2. CASE UNCHANGED allVars
  <2>1. UNCHANGED <<scen, installed, reloads, pc, loc, ans, met, jar, req, choice, overlapped>>
    BY <1>2 DEF allVars, vars, histVars, requestVars
  <2>2. RequestInv'
    BY SMTT(60), Z3T(60), <2>1 DEF RequestInv, Calm, Served, Asks, IsRequest, fromRequest, Due, ModeOp, Reloading
  <2> QED BY <2>1, <2>2 DEF CookieInv, ServedNow
<1>3. ASSUME NEW p \in Callers, HaveDefault(p) PROVE RequestInv' /\ CookieInv' /\ \A q \in Callers : ServedNow(q)
  BY <1>3, HaveDefaultRequests, HaveDefaultCookie
<1>4. ASSUME NEW p \in Callers, HaveStore(p) PROVE RequestInv' /\ CookieInv' /\ \A q \in Callers : ServedNow(q)
  BY <1>4, HaveStoreRequests, HaveStoreCookie
<1>5. ASSUME NEW p \in Callers, NEW n \in scen.queries, Request(p, n)
      PROVE  RequestInv' /\ CookieInv' /\ \A q \in Callers : ServedNow(q)
  BY <1>5, RequestRequests, RequestCookie
<1> QED BY <1>1, <1>2, <1>3, <1>4, <1>5 DEF RunModeNext

LEMMA RunModeInitRequests ==
  ASSUME RunModeInit PROVE RequestInv /\ CookieInv
<1>1. reloads = 0 /\ jar = 0 /\ choice = 0 /\ req = [p \in Callers |-> NoRequest]
  BY DEF RunModeInit, Init
<1>2. \A p \in Callers : req[p] = NoRequest
  BY <1>1
<1>3. IsRequest(NoRequest) /\ NoRequest.stage = "none" /\ NoRequest.calm = -1
  BY DEF IsRequest, NoRequest
<1>4. NoRequest.calm <= reloads
  BY <1>1, <1>3
<1>5. RequestInv
  BY <1>1, <1>2, <1>3, <1>4 DEF RequestInv, Calm
<1>6. jar # Bad
  BY <1>1 DEF Bad
<1> QED BY <1>1, <1>2, <1>3, <1>5, <1>6 DEF CookieInv
-----------------------------------------------------------------------------
(* WithRunMode: a request beside which nothing is reloaded is served with   *)
(* the store that its query, or else its cookie, names within the run mode, *)
(* or denied if there is none; and between the requests of a visitor, as    *)
(* long as they do not overlap, the cookie names the first store chosen     *)
(* since there was none.                                                    *)
THEOREM VisitorsAreServed ==
  RunModeSpec => VisitorsGetTheirStore
<1> DEFINE A == RequestsAreServed /\ CookieKeepsTheChoice'
<1>1. RunModeInit => IInv /\ RequestInv /\ CookieInv
  BY InitInv, RunModeInitRequests DEF RunModeInit
<1>2. IInv /\ RequestInv /\ CookieInv /\ [RunModeNext]_allVars => IInv' /\ RequestInv' /\ CookieInv'
  BY RunModeNextInv, RunModeNextRequests
<1>3. IInv /\ RequestInv /\ CookieInv /\ [RunModeNext]_allVars => [A]_allVars
  <2>1. CookieInv' => CookieKeepsTheChoice'
    BY DEF CookieInv, CookieKeepsTheChoice
  <2>2. (\A q \in Callers : ServedNow(q)) => RequestsAreServed
    BY DEF ServedNow, RequestsAreServed
  <2> QED BY <2>1, <2>2, RunModeNextRequests
<1> HIDE DEF A
<1>4. RunModeSpec => [][A]_allVars
  BY <1>1, <1>2, <1>3, PTL DEF RunModeSpec
<1> QED BY <1>4 DEF VisitorsGetTheirStore, A
=============================================================================
