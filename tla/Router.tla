-------------------------------- MODULE Router --------------------------------
(***************************************************************************)
(* The routing table of src/routes/mod.rs: which handler a method and a    *)
(* path lead to, what the path's parameter captures, and the answers axum  *)
(* gives when there is no handler.  A path is the sequence of its segments *)
(* as they were sent: they are matched before they are percent-decoded.    *)
(***************************************************************************)
EXTENDS AppError, Sequences

CONSTANT
  Decoded  \* Decoded[c]: the text of a capture c (a sequence of segments)
           \* that was percent-encoded or has slashes in it

(* A route: the segments that stand for themselves, what may follow them   *)
(* (nothing, one ":" segment, or all the rest for "*"), and the handler.   *)
At(prefix, last, method, op) ==
  [prefix |-> prefix, last |-> last, method |-> method, op |-> op]

StatsRoutes ==
  {At(<<"v1", "sys">>, "none", "GET", "get_sys_stats"),
   At(<<"v1", "users">>, "none", "GET", "list_users"),
   At(<<"v1", "users", "online">>, "none", "GET", "get_online_users"),
   At(<<"v1", "users", "stats">>, "none", "GET", "get_users_stats"),
   At(<<"v1", "stats">>, "none", "GET", "query_stats"),
   At(<<"v1", "stats">>, "rest", "GET", "get_stat")}

HandlerRoutes ==
  {At(<<"v1", "users">>, "none", "POST", "add_user"),
   At(<<"v1", "users">>, "param", "DELETE", "remove_user"),
   At(<<"v1", "inbounds">>, "none", "GET", "list_inbounds"),
   At(<<"v1", "inbounds">>, "none", "POST", "add_inbound"),
   At(<<"v1", "inbounds">>, "param", "DELETE", "remove_inbound"),
   At(<<"v1", "outbounds">>, "none", "GET", "list_outbounds"),
   At(<<"v1", "outbounds">>, "none", "POST", "add_outbound"),
   At(<<"v1", "outbounds">>, "param", "DELETE", "remove_outbound"),
   At(<<"v1", "logger", "restart">>, "none", "POST", "restart_logger")}

RoutingRoutes ==
  {At(<<"v1", "routing", "test">>, "none", "POST", "test_route"),
   At(<<"v1", "routing", "rules">>, "none", "GET", "list_rules"),
   At(<<"v1", "routing", "rules">>, "param", "DELETE", "remove_rule"),
   At(<<"v1", "routing", "balancers">>, "param", "GET", "get_balancer"),
   At(<<"v1", "routing", "balancers">>, "param", "PUT", "override_balancer")}

Routes ==
  {At(<<"healthz">>, "none", "GET", "healthz")} \cup
  StatsRoutes \cup HandlerRoutes \cup RoutingRoutes

(* A parameter takes one segment, the wildcard all that are left; neither  *)
(* matches the empty rest of a path that ends in a slash.                  *)
Fits(route, path) ==
  LET n == Len(route.prefix) IN
  /\ Len(path) >= n
  /\ SubSeq(path, 1, n) = route.prefix
  /\ CASE route.last = "none" -> Len(path) = n
       [] route.last = "param" -> Len(path) = n + 1 /\ path[n+1] # ""
       [] route.last = "rest" -> Len(path) > n /\ path # route.prefix \o <<"">>

Fitting(path) == {route \in Routes : Fits(route, path)}

(* Mutant: a parameter is preferred to what stands for itself.             *)
MatchedParamsFirst(path) ==
  LET params == {route \in Fitting(path) : route.last # "none"}
  IN  IF params # {} THEN params ELSE Fitting(path)

(* The routes matchit picks: those without a parameter, if any.            *)
Matched(path) ==
  LET fixed == {route \in Fitting(path) : route.last = "none"}
  IN  IF fixed # {} THEN fixed ELSE Fitting(path)

(* axum lets the handler of GET serve HEAD.                                *)
ServedAs(method) == IF method = "HEAD" THEN "GET" ELSE method

Offered(method, path) ==
  {route \in Matched(path) : route.method = ServedAs(method)}

OpFor(method, path) ==
  CASE Matched(path) = {} -> "not_found"
    [] Matched(path) # {} /\ Offered(method, path) = {} ->
         "method_not_allowed"
    [] OTHER -> (CHOOSE route \in Offered(method, path) : TRUE).op

(* Path<String>: the text of what the parameter captured.                  *)
Capture(path) ==
  LET n == Len((CHOOSE route \in Matched(path) : TRUE).prefix)
      captured == SubSeq(path, n + 1, Len(path))
  IN  IF captured \in DOMAIN Decoded THEN Decoded[captured] ELSE captured[1]

(* A rejection by axum itself: no JSON envelope, hence no code field.      *)
PlainError(http) == ErrorAnswer(http, "")

(* What is answered without one of the handlers of src/routes.             *)
RouterAnswer ==
  [not_found |-> PlainError(404), method_not_allowed |-> PlainError(405),
   healthz |-> Answer(200, "", {}, FALSE)]

(* What goes over the wire: HEAD gets the status and no body.              *)
ToClient(method, a) ==
  IF method = "HEAD" THEN Answer(a.http, "", {}, FALSE) ELSE a
===============================================================================
