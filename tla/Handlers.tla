------------------------------- MODULE Handlers -------------------------------
(***************************************************************************)
(* The twenty handlers of src/routes and the gRPC wrappers of src/xray     *)
(* they call, without their awaits: which requests a handler rejects by    *)
(* itself, the one call it makes otherwise, and the answer it gives for    *)
(* each reply.  Where the awaits lie is the business of Bridge.            *)
(*                                                                         *)
(* A request is one record for all routes; fields its route does not have  *)
(* are NoId, FALSE, "none":                                                *)
(*   method, path        of the request line, see Router                   *)
(*   domain, port, token, name    X-Node-* headers, see NodeHeaders        *)
(*   auth                Authorization: NoAuth, or a scheme and a token    *)
(*   params              do Path and Query deserialize                     *)
(*   flag                ?reset, or ?ignore_missing of DELETE /v1/users    *)
(*   arg                 ?tag of DELETE /v1/users, or ?pattern             *)
(*   body                "ok", or how Json<T> fails: "syntax" (malformed), *)
(*                       "data" (a required field missing or of the wrong  *)
(*                       type), "media" (no JSON content type), "large"    *)
(*   in_tag, in_id       the tag, and the email or target, in the body     *)
(*   spec                the rest of the body, see Accounts                *)
(* Routed adds to it                                                       *)
(*   op                  the handler the router picked                     *)
(*   tag, id             the inbound, outbound, rule or balancer it names; *)
(*                       the email, stat name, pattern or target           *)
(***************************************************************************)
EXTENDS XrayNode, Router, Accounts

CONSTANTS
  NoAuth,       \* Authorization missing or not visible ASCII
  BridgeToken,  \* BRIDGE_TOKEN, never empty
  AllUsers,     \* the pattern "user>>>"
  IdPart        \* IdPart[s]: the second ">>>" part of stat name s, or NoId

(* f, and g where f says nothing: f @@ g of module TLC, spelled out for    *)
(* the proofs, which cannot look into that one.                            *)
Over(f, g) ==
  [x \in DOMAIN f \cup DOMAIN g |-> IF x \in DOMAIN f THEN f[x] ELSE g[x]]

(* The call each handler makes, by the service of the node it goes to.     *)
HandlerService ==
  [add_user |-> "AddUser", remove_user |-> "RemoveUser",
   list_inbounds |-> "ListInbounds", add_inbound |-> "AddInbound",
   remove_inbound |-> "RemoveInbound", list_outbounds |-> "ListOutbounds",
   add_outbound |-> "AddOutbound", remove_outbound |-> "RemoveOutbound"]

StatsService ==
  [get_sys_stats |-> "GetSysStats", list_users |-> "QueryStats",
   get_online_users |-> "GetAllOnlineUsers",
   get_users_stats |-> "GetUsersStats", query_stats |-> "QueryStats",
   get_stat |-> "GetStats"]

RoutingAndLoggerService ==
  [test_route |-> "TestRoute", list_rules |-> "ListRule",
   remove_rule |-> "RemoveRule", get_balancer |-> "GetBalancerInfo",
   override_balancer |-> "OverrideBalancerTarget",
   restart_logger |-> "RestartLogger"]

(* Mutant: add_outbound was copied from add_inbound, call and all.         *)
MethodOfCopied ==
  Over([HandlerService EXCEPT !.add_outbound = "AddInbound"],
       Over(StatsService, RoutingAndLoggerService))

(* The handlers the router knows.                                          *)
MethodOf ==
  Over(HandlerService, Over(StatsService, RoutingAndLoggerService))

Op == DOMAIN MethodOf

Adds == {"add_user", "add_inbound", "add_outbound"}

(* Handlers whose last extractor is Json<T>, and those that pass ?reset on.*)
TakesBody == Adds \cup {"test_route", "override_balancer"}
Resets == {"get_stat", "query_stats", "get_users_stats"}

-----------------------------------------------------------------------------
(* Where a handler takes its identifiers from: the path's parameter, the   *)
(* query, or the body.                                                     *)
TagOf(op, q) ==
  CASE op = "remove_user" -> q.arg
    [] op \in {"remove_inbound", "remove_outbound", "remove_rule",
               "get_balancer", "override_balancer"} -> Capture(q.path)
    [] op \in Adds \cup {"test_route"} -> q.in_tag
    [] OTHER -> NoId

NameOf(op, q) ==
  CASE op \in {"remove_user", "get_stat"} -> Capture(q.path)
    [] op = "query_stats" -> q.arg
    [] op \in {"add_user", "test_route", "override_balancer"} -> q.in_id
    [] OTHER -> NoId

(* The request as its handler gets it.                                     *)
RequestFields ==
  {"method", "path", "domain", "port", "token", "name", "auth", "params",
   "flag", "arg", "body", "in_tag", "in_id", "spec"}

Routed(q) ==
  LET op == OpFor(q.method, q.path)
  IN  Over([op |-> op, tag |-> TagOf(op, q), id |-> NameOf(op, q)], q)

(* Mutant: any bearer token will do.                                       *)
AuthorizedByScheme(in) == in.auth # NoAuth /\ in.auth.scheme = "bearer"

(* BearerAuth: the scheme counts in any case, an empty token never, and    *)
(* the token has to be the bridge's, byte for byte.                        *)
Authorized(in) ==
  /\ in.auth # NoAuth
  /\ in.auth.scheme = "bearer"
  /\ in.auth.token = BridgeToken

(* What the handler of in answers before it calls anybody, if it does: the *)
(* rejection of its body, then of what the body says.                      *)
Rejections(in) ==
  CASE in.body = "syntax" -> {PlainError(400)}
    [] in.body = "data" -> {PlainError(422)}
    [] in.body = "media" -> {PlainError(415)}
    [] in.body = "large" -> {PlainError(413)}
    [] in.op = "add_user" /\ in.body = "ok" ->
         IF InvalidAccount(in.spec) THEN {UnprocessableEntity} ELSE {}
    [] in.op \in {"add_inbound", "add_outbound"} /\ in.body = "ok" ->
         IF InvalidConfig(in.spec) THEN {UnprocessableEntity} ELSE {}
    [] OTHER -> {}

(* Mutants: ?reset is forgotten by query_stats; list_users resets the      *)
(* counters it reads.                                                      *)
ResetForgotten(in) == in.op \in Resets \ {"query_stats"} /\ in.flag

ResetAlways(in) == in.op = "list_users" \/ (in.op \in Resets /\ in.flag)

(* Whether the call resets the counters it reads.                          *)
ResetOf(in) == in.op \in Resets /\ in.flag

(* list_users reads the counters that match "user>>>".                     *)
IdOf(in) == IF in.op = "list_users" THEN AllUsers ELSE in.id

(* The body of the request as the call carries it.                         *)
WhatOf(in) ==
  CASE in.op = "add_user" -> UserOf(in.spec)
    [] in.op \in {"add_inbound", "add_outbound"} -> ConfigOf(in.spec)
    [] in.op = "test_route" -> NetworkOf(in.spec)
    [] OTHER -> NoId

(* The call made for in.                                                   *)
CallOf(in) ==
  [method |-> MethodOf[in.op], tag |-> in.tag, id |-> IdOf(in),
   reset |-> ResetOf(in), what |-> WhatOf(in)]

(* The body of a 2xx answer.  list_users keeps the second part of every    *)
(* name that has one; get_stat puts the value under the name asked for.    *)
BodyOf(in, payload) ==
  CASE in.op = "list_users" ->
         Items({IdPart[i.id] : i \in payload} \ {NoId})
    [] in.op = "get_stat" -> {Item(in.id, i.value) : i \in payload}
    [] OTHER -> payload

(* Mutants: ignore_missing ignores every error; an empty reply is taken    *)
(* for an error; a counter that cannot be read is taken for 0.             *)
FinishIgnoring(in, reply) ==
  CASE reply.status = StatusOK ->
         Answer(IF in.op \in Adds THEN 201 ELSE 200, "",
                BodyOf(in, reply.payload), FALSE)
    [] in.op = "remove_user" /\ reply.status # StatusOK /\ in.flag ->
         Answer(200, "", {}, TRUE)
    [] OTHER -> Grpc(reply.status)

FinishStrict(in, reply) ==
  CASE reply.status = StatusOK ->
         IF reply.payload = {} THEN Internal
         ELSE Answer(200, "", BodyOf(in, reply.payload), FALSE)
    [] OTHER -> Grpc(reply.status)

FinishZero(in, reply) ==
  CASE reply.status = StatusOK ->
         Answer(200, "", BodyOf(in, reply.payload), FALSE)
    [] in.op = "get_stat" /\ reply.status # StatusOK ->
         Answer(200, "", {Item(in.id, 0)}, FALSE)
    [] OTHER -> Grpc(reply.status)

(* The answer for a reply.  Absence is no error for get_stat (a counter    *)
(* not created yet is 0) nor for remove_user with ignore_missing.          *)
Finish(in, reply) ==
  LET absent == IsNotFound(reply.status)
  IN  CASE reply.status = StatusOK ->
             Answer(IF in.op \in Adds THEN 201 ELSE 200, "",
                    BodyOf(in, reply.payload), FALSE)
        [] in.op = "get_stat" /\ absent ->
             Answer(200, "", {Item(in.id, 0)}, FALSE)
        [] in.op = "remove_user" /\ absent /\ in.flag ->
             Answer(200, "", {}, TRUE)
        [] OTHER -> Grpc(reply.status)
===============================================================================
