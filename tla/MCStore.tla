------------------------------ MODULE MCStore ------------------------------
(***************************************************************************)
(* The store service and the run mode middleware on six versions of the    *)
(* tables: 2 has two stores less than 1, in 3 one is not active and the    *)
(* default store is missing, 4 to 6 do not load: two default websites, a   *)
(* store whose group is of another website, a group without its website.   *)
(* A scenario fixes the versions that the tables go through, the number of *)
(* reloads and calls, and either the operations called or the codes in the *)
(* queries of the requests.                                                *)
(***************************************************************************)
EXTENDS RunMode

W(i, d, g) == [id |-> i, default |-> d, dgroup |-> g]
G(i, w, s) == [id |-> i, website |-> w, dstore |-> s]
S(i, w, g, a) == [id |-> i, code |-> i + 10, website |-> w, group |-> g, active |-> a]
Tables(ws, gs, ss) == [websites |-> ws, groups |-> gs, stores |-> ss]
MCRows == <<
  Tables(<<W(0, FALSE, 0), W(1, TRUE, 1)>>, <<G(0, 0, 0), G(1, 1, 1)>>, 
         <<S(0, 0, 0, TRUE), S(1, 1, 1, TRUE), S(2, 1, 1, TRUE), S(3, 1, 1, TRUE)>>),
  Tables(<<W(0, FALSE, 0), W(1, TRUE, 1)>>, <<G(0, 0, 0), G(1, 1, 2)>>, <<S(0, 0, 0, TRUE), S(2, 1, 1, TRUE)>>),
  Tables(<<W(0, FALSE, 0), W(1, TRUE, 1)>>, <<G(0, 0, 0), G(1, 1, 3)>>, <<S(0, 0, 0, TRUE), S(1, 1, 1, FALSE), S(2, 1, 1, TRUE)>>),
  Tables(<<W(0, TRUE, 0), W(1, TRUE, 1)>>, <<G(0, 0, 0)>>, <<S(0, 0, 0, TRUE)>>),
  Tables(<<W(0, FALSE, 0), W(1, TRUE, 1)>>, <<G(0, 0, 0), G(1, 1, 1)>>, <<S(0, 0, 0, TRUE), S(1, 1, 0, TRUE)>>),
  Tables(<<W(0, TRUE, 0)>>, <<G(0, 0, 0), G(1, 1, 1)>>, <<S(0, 0, 0, TRUE)>>) >>
Mode(ty, i) == [type |-> ty, id |-> i]
Op(o, a, m, k) == [op |-> o, arg |-> a, mode |-> m, key |-> k]
D == Mode("default", 0)
Scenario(vs, r, c, ops) == [versions |-> vs, reloads |-> r, calls |-> c, ops |-> ops, atOnce |-> 1, fails |-> FALSE, enabled |-> TRUE,
                            flag |-> [default |-> "on", scope |-> "on"], mode |-> D, queries |-> {}, custom |-> FALSE,
                            visitors |-> 1]
Lookups == {Op(o, a, D, "default") : o \in {"website", "group", "store"}, a \in {1}}
           \cup {Op("default", 0, m, "default") : m \in {D, Mode("store", 1), Mode("group", 1), Mode("website", 1)}}
Lists == {Op("code", a, m, "default") : a \in {0, 12}, m \in {D, Mode("store", 0), Mode("group", 1), Mode("website", 1)}}
         \cup {Op("isAllowed", 2, m, "default") : m \in {D, Mode("store", 0), Mode("group", 1), Mode("website", 0)}}
         \cup {Op("allowed", 0, m, "default") : m \in {D, Mode("store", 0), Mode("group", 1), Mode("website", 1)}}
View1 == Op("view", 0, D, "default")
Has == Op("has", 0, D, "default")
IsSingle(k) == Op("single", 0, D, k)
Visits(vs, r, n, m, qs) == [Scenario(vs, r, n, {}) EXCEPT !.mode = m, !.queries = qs]
MCScenarios == {
  Visits(<<1, 2>>, 1, 2, D, {0, 12}),
  Visits(<<1, 2>>, 1, 2, Mode("store", 2), {11, Bad}),
  [Visits(<<1, 3>>, 1, 2, Mode("website", 1), {12}) EXCEPT !.custom = TRUE],
  [Visits(<<1>>, 0, 4, Mode("group", 1), {0, 11, 12, 13, 10}) EXCEPT !.visitors = 2],
  Scenario(<<1, 2>>, 1, 1, Lookups \cup Lists),
  Scenario(<<3, 5>>, 1, 1, Lookups \cup Lists),
  [Scenario(<<1, 2>>, 2, 1, {Op("store", 1, D, "default")}) EXCEPT !.atOnce = 2],
  Scenario(<<1, 2>>, 1, 2, {View1}),
  Scenario(<<1, 3>>, 1, 2, {View1}),
  [Scenario(<<2, 1>>, 1, 2, {View1}) EXCEPT !.fails = TRUE],
  [Scenario(<<2, 4, 1>>, 2, 1, {Has}) EXCEPT !.flag = [default |-> "off", scope |-> "off"]],
  [Scenario(<<2, 6>>, 1, 2, {IsSingle("default"), IsSingle("scope")}) EXCEPT !.flag = [default |-> "on", scope |-> "fails"]],
  [Scenario(<<2>>, 0, 3, {Has, IsSingle("default"), IsSingle("scope")}) EXCEPT !.enabled = FALSE, !.flag = [default |-> "off", scope |-> "on"]],
  [Scenario(<<2>>, 0, 3, {Has, IsSingle("default"), IsSingle("scope")}) EXCEPT !.flag = [default |-> "off", scope |-> "on"]],
  [Scenario(<<2>>, 0, 3, {Has, IsSingle("default"), IsSingle("scope")}) EXCEPT !.flag = [default |-> "fails", scope |-> "off"]] }
=============================================================================
