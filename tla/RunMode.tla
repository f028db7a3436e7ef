------------------------------ MODULE RunMode ------------------------------
(***************************************************************************)
(* net/runmode: the middleware WithRunMode, which finds the store of a     *)
(* request with the store Service, and its code processor, which keeps the *)
(* store that a visitor has chosen in a cookie.                            *)
(*                                                                         *)
(* A code is a number; 0 is no code, and Bad is not a valid code.  A       *)
(* scenario has the run mode, what goes into the query, how many requests  *)
(* there are at a time, and whether FieldName is set.  choice and          *)
(* overlapped are history: the store that stands as the visitor's choice,  *)
(* and whether two requests of the visitor have overlapped.                *)
(***************************************************************************)
EXTENDS StoreService

Bad == -1

VARIABLES jar,          \* the cookie "store" of the visitor, 0: none
          req,          \* process -> its request
          done,         \* what became of the last request that ended
          choice, overlapped

requestVars == <<jar, req, done, choice, overlapped>>
NoRequest == [stage |-> "none", query |-> 0, cookie |-> 0, calm |-> -1, old |-> <<>>]
NotDone == [status |-> "none", scope |-> <<>>]

RunModeInit == /\ Init /\ jar = 0 /\ req = [p \in Callers |-> NoRequest] /\ done = NotDone
               /\ choice = 0 /\ overlapped = FALSE

(* FromRequest: a valid code in the query, or else in the cookie that the   *)
(* FieldName names.                                                         *)
fromRequest(r) == IF r.query \notin {0, Bad} THEN r.query ELSE IF r.cookie # Bad THEN r.cookie ELSE 0
FromCookie == IF scen.custom THEN 0 ELSE jar
ModeOp(o, code) == [op |-> o, arg |-> code, mode |-> scen.mode, key |-> "default"]
Pending(p) == \E q \in Callers \ {p} : req[q].stage # "none"
-----------------------------------------------------------------------------
(* The handler asks for the default store of the run mode.                  *)
Request(p, q) ==
  /\ pc[p] = "idle" /\ req[p].stage = "none" /\ (\A d \in Callers : d < p => req[d].stage # "none")
  /\ Cardinality({d \in Callers : req[d].stage # "none"}) < scen.visitors
  /\ calls < scen.calls /\ calls' = calls + 1
  /\ Call(p, ModeOp("default", 0))
  /\ req' = [req EXCEPT ![p] = [stage |-> "default", query |-> q, cookie |-> FromCookie,
                                calm |-> IF Reloading = {} /\ installed.ok THEN reloads ELSE -1, old |-> <<>>]]
  /\ overlapped' = (overlapped \/ Pending(p))
  /\ UNCHANGED <<jar, done, choice>>

Respond(p, status, scope, cookie) ==
  /\ req' = [req EXCEPT ![p] = NoRequest] /\ done' = [status |-> status, scope |-> scope]
  /\ jar' = IF cookie = "keep" THEN jar ELSE IF cookie = "delete" THEN 0 ELSE fromRequest(req[p])
  /\ choice' = CASE status = "next" /\ req[p].query \notin {0, Bad} ->
                      IF scope[1] = req[p].old[1] THEN 0 ELSE IF choice = 0 THEN req[p].query ELSE choice
                 [] status = "next" /\ req[p].cookie # 0 /\ scope[1] = req[p].old[1] -> 0
                 [] status = "denied" /\ req[p].cookie # 0 -> 0
                 [] OTHER -> choice
  /\ ans' = [ans EXCEPT ![p] = Ok(<<>>)]
  /\ UNCHANGED <<overlapped, scen, db, dataVars, wlock, held, pc, loc, reloads, calls, histVars>>

(* ProcessAllowed and ProcessDenied.                                        *)
ProcessAllowed(p, old, new) == IF req[p].cookie \notin {0, Bad} /\ old = new THEN "delete"
                               ELSE IF req[p].cookie \in {0, Bad} /\ old # new THEN "set" ELSE "keep"
ProcessDenied(p) == IF req[p].cookie \in {0, Bad} THEN "keep" ELSE "delete"

(* The default store is known: without a code the request goes on to the    *)
(* next handler, with one its store is looked up.                           *)
HaveDefault(p) ==
  /\ pc[p] = "idle" /\ req[p].stage = "default"
  /\ CASE ans[p].err # "none" -> Respond(p, "error", <<>>, "keep")
       [] ans[p].err = "none" /\ fromRequest(req[p]) = 0 ->
            Respond(p, "next", ans[p].val, ProcessAllowed(p, ans[p].val[1], ans[p].val[1]))
       [] OTHER -> /\ req' = [req EXCEPT ![p].stage = "code", ![p].old = ans[p].val]
                   /\ Call(p, ModeOp("code", fromRequest(req[p])))
                   /\ UNCHANGED <<jar, done, choice, overlapped, calls>>

\* as HaveStore, but a code that names no store gets the default store
HaveStoreAlways(p) ==
  /\ pc[p] = "idle" /\ req[p].stage = "code"
  /\ CASE ans[p].err = "NotFound" -> Respond(p, "next", req[p].old, ProcessDenied(p))
       [] ans[p].err = "none" -> Respond(p, "next", ans[p].val, ProcessAllowed(p, req[p].old[1], ans[p].val[1]))
       [] OTHER -> Respond(p, "error", <<>>, "keep")

(* The store of the code is known, or there is none.                        *)
HaveStore(p) ==
  /\ pc[p] = "idle" /\ req[p].stage = "code"
  /\ CASE ans[p].err = "NotFound" -> Respond(p, "denied", req[p].old, ProcessDenied(p))
       [] ans[p].err = "none" -> Respond(p, "next", ans[p].val, ProcessAllowed(p, req[p].old[1], ans[p].val[1]))
       [] OTHER -> Respond(p, "error", <<>>, "keep")

(* Whoever handles a request makes no other calls.                          *)
ServiceStep == /\ Next /\ UNCHANGED requestVars
               /\ \A p \in Callers : pc[p] = "idle" /\ req[p].stage # "none" => pc'[p] = "idle"
RunModeNext == \/ ServiceStep
               \/ \E p \in Callers : HaveDefault(p) \/ HaveStore(p) \/ \E q \in scen.queries : Request(p, q)

allVars == <<vars, requestVars>>
RunModeSpec == /\ RunModeInit /\ [][RunModeNext]_allVars
               /\ WF_allVars(\E p \in Procs : Step(p) /\ UNCHANGED requestVars)
-----------------------------------------------------------------------------
(* WithRunMode: what becomes of a request that meets no reload.             *)
DueStore(r) == IF fromRequest(r) = 0 THEN Due(ModeOp("default", 0)) ELSE Due(ModeOp("code", fromRequest(r)))
DueResponse(r) ==
  IF Due(ModeOp("default", 0)).err # "none" THEN "error"
  ELSE IF DueStore(r).err = "none" THEN "next" ELSE "denied"

(* A request is served with the active store that its query, or else its    *)
(* cookie, names within the run mode, or without a code with the default    *)
(* store; it is denied if there is no such store.                           *)
RequestsAreServed ==
  \A p \in Callers : req[p].stage # "none" /\ req'[p].stage = "none" /\ req[p].calm = reloads =>
    done'.status = DueResponse(req[p]) /\ (done'.status = "next" => done'.scope = DueStore(req[p]).val)

(* A visitor who sends one request after the other has a choice: the first  *)
(* store named by a query, until the default store is chosen or a store is  *)
(* denied.  Between the requests the cookie names this choice.  A second    *)
(* store that is named meanwhile is served, but does not become the choice: *)
(* the cookie is set "once" (code.go:173), although the comment on           *)
(* ProcessAllowed says that it is set "if the stores differ" (code.go:161).  *)
(* Left out is a custom FieldName, which is read and not written.           *)
CookieKeepsTheChoice ==
  (\A p \in Callers : req[p].stage = "none") /\ ~overlapped /\ ~scen.custom => jar = choice

(* WithRunMode: a request is served with the store that its query or the    *)
(* cookie names, and the cookie keeps the first choice of the visitor.      *)
VisitorsGetTheirStore == [][RequestsAreServed /\ CookieKeepsTheChoice']_allVars
=============================================================================
