---------------------------- MODULE HandlersProofs ----------------------------
(***************************************************************************)
(* What the routing table and the rejections of the handlers come to, and  *)
(* what calls they make, for every request.                                *)
(***************************************************************************)
EXTENDS Handlers, XrayNodeProofs, SequenceTheorems

-----------------------------------------------------------------------------
(* Lists.                                                                  *)

(* A part of one element.                                                  *)
LEMMA SubSeqOfOne ==
  ASSUME NEW T, NEW path \in Seq(T), NEW k \in 1..Len(path)
  PROVE  SubSeq(path, k, k) = <<path[k]>> /\ SubSeq(path, k, k)[1] = path[k]
<1>1. path[k] \in T
  BY ElementOfSeq
<1>2. \A i \in k..k : path[i] \in T
  BY <1>1
<1>3. /\ SubSeq(path, k, k) \in Seq(T) /\ Len(SubSeq(path, k, k)) = 1
      /\ SubSeq(path, k, k)[1] = path[k]
  BY <1>2, LenProperties, SubSeqProperties
<1>4. /\ <<path[k]>> \in Seq(T) /\ Len(<<path[k]>>) = 1
      /\ <<path[k]>>[1] = path[k]
  BY <1>1
<1>5. \A i \in 1..1 : SubSeq(path, k, k)[i] = <<path[k]>>[i]
  BY <1>3, <1>4
<1>6. SubSeq(path, k, k) = <<path[k]>>
  BY <1>3, <1>4, <1>5, SeqEqual
<1> QED
  BY <1>3, <1>6

(* The first two elements.                                                 *)
LEMMA SubSeqOfTwo ==
  ASSUME NEW T, NEW path \in Seq(T), NEW a, NEW b, Len(path) > 2,
         SubSeq(path, 1, 2) = <<a, b>>
  PROVE  path[1] = a /\ path[2] = b
<1>1. SubSeq(path, 1, 2)[1] = path[1] /\ SubSeq(path, 1, 2)[2] = path[2]
  OBVIOUS
<1>2. <<a, b>>[1] = a /\ <<a, b>>[2] = b
  OBVIOUS
<1> QED
  BY <1>1, <1>2

-----------------------------------------------------------------------------
(* The routing table.                                                      *)

(* The handlers of each service of the node.                               *)
HandlerOps ==
  {"add_user", "remove_user", "list_inbounds", "add_inbound",
   "remove_inbound", "list_outbounds", "add_outbound", "remove_outbound"}

(* The same of its counters.                                               *)
StatsOps ==
  {"get_sys_stats", "list_users", "get_online_users", "get_users_stats",
   "query_stats", "get_stat"}

(* The same of its routing and its logger.                                 *)
RoutingAndLoggerOps ==
  {"test_route", "list_rules", "remove_rule", "get_balancer",
   "override_balancer", "restart_logger"}

(* The handlers, and what is answered without one.                         *)
LEMMA OpNames ==
  /\ Op = HandlerOps \cup StatsOps \cup RoutingAndLoggerOps
  /\ DOMAIN RouterAnswer = {"not_found", "method_not_allowed", "healthz"}
<1>1. DOMAIN HandlerService = HandlerOps
  BY DEF HandlerService, HandlerOps
<1>2. DOMAIN StatsService = StatsOps
  BY DEF StatsService, StatsOps
<1>3. DOMAIN RoutingAndLoggerService = RoutingAndLoggerOps
  BY DEF RoutingAndLoggerService, RoutingAndLoggerOps
<1>4. DOMAIN RouterAnswer = {"not_found", "method_not_allowed", "healthz"}
  BY DEF RouterAnswer
<1> QED
  BY <1>1, <1>2, <1>3, <1>4 DEF Op, MethodOf, Over

(* Every route has a handler, and a parameter only below certain prefixes. *)
LEMMA RouteCases ==
  ASSUME NEW route \in Routes
  PROVE  /\ route.op \in Op \cup {"healthz"}
         /\ \/ route.last = "none"
            \/ /\ route.last = "param"
               /\ route.prefix \in
                    {<<"v1", "users">>, <<"v1", "inbounds">>,
                     <<"v1", "outbounds">>, <<"v1", "routing", "rules">>,
                     <<"v1", "routing", "balancers">>}
            \/ route.last = "rest" /\ route.prefix = <<"v1", "stats">>
<1>1. CASE route \in StatsRoutes
  BY <1>1, OpNames DEF StatsRoutes, At, StatsOps
<1>2. CASE route \in HandlerRoutes
  BY <1>2, OpNames DEF HandlerRoutes, At, HandlerOps, RoutingAndLoggerOps
<1>3. CASE route \in RoutingRoutes
  BY <1>3, OpNames DEF RoutingRoutes, At, RoutingAndLoggerOps
<1> QED
  BY <1>1, <1>2, <1>3 DEF Routes, At

(* The one route to each handler that changes or resets something.         *)
LEMMA RouteOfOp ==
  ASSUME NEW route \in Routes
  PROVE  /\ route.op = "healthz" =>
              route = At(<<"healthz">>, "none", "GET", "healthz")
         /\ route.op = "add_user" =>
              route = At(<<"v1", "users">>, "none", "POST", "add_user")
         /\ route.op = "add_inbound" =>
              route = At(<<"v1", "inbounds">>, "none", "POST", "add_inbound")
         /\ route.op = "add_outbound" =>
              route = At(<<"v1", "outbounds">>, "none", "POST", "add_outbound")
         /\ route.op = "remove_user" =>
              route = At(<<"v1", "users">>, "param", "DELETE", "remove_user")
         /\ route.op = "remove_inbound" =>
              route = At(<<"v1", "inbounds">>, "param", "DELETE",
                         "remove_inbound")
         /\ route.op = "remove_outbound" =>
              route = At(<<"v1", "outbounds">>, "param", "DELETE",
                         "remove_outbound")
         /\ route.op = "remove_rule" =>
              route = At(<<"v1", "routing", "rules">>, "param", "DELETE",
                         "remove_rule")
         /\ route.op = "override_balancer" =>
              route = At(<<"v1", "routing", "balancers">>, "param", "PUT",
                         "override_balancer")
         /\ route.op = "get_stat" =>
              route = At(<<"v1", "stats">>, "rest", "GET", "get_stat")
         /\ route.op = "query_stats" =>
              route = At(<<"v1", "stats">>, "none", "GET", "query_stats")
         /\ route.op = "get_users_stats" =>
              route = At(<<"v1", "users", "stats">>, "none", "GET",
                         "get_users_stats")
<1>1. CASE route \in StatsRoutes
  BY <1>1 DEF StatsRoutes, At
<1>2. CASE route \in HandlerRoutes
  BY <1>2 DEF HandlerRoutes, At
<1>3. CASE route \in RoutingRoutes
  BY <1>3 DEF RoutingRoutes, At
<1> QED
  BY <1>1, <1>2, <1>3 DEF Routes, At

(* A request gets to a handler by a route that fits it.                    *)
LEMMA OpForRoute ==
  ASSUME NEW method, NEW path
  PROVE  \/ OpFor(method, path) \in {"not_found", "method_not_allowed"}
         \/ \E route \in Routes : /\ Fits(route, path)
                                  /\ route \in Matched(path)
                                  /\ route.method = ServedAs(method)
                                  /\ route.op = OpFor(method, path)
BY DEF OpFor, Offered, Matched, Fitting

(* What a route that fits says of the path.                                *)
LEMMA WholeFits ==
  ASSUME NEW T, NEW path \in Seq(T), NEW route, Fits(route, path),
         route.last = "none"
  PROVE  path = route.prefix
BY DEF Fits

(* A route that ends in a parameter.                                       *)
LEMMA ParamFits ==
  ASSUME NEW T, NEW path \in Seq(T), NEW route \in Routes, Fits(route, path),
         route.last = "param"
  PROVE  /\ Len(path) = Len(route.prefix) + 1
         /\ SubSeq(path, 1, Len(route.prefix)) = route.prefix
         /\ Len(route.prefix) \in {2, 3}
         /\ path[2] # "stats"
<1>1. /\ Len(path) = Len(route.prefix) + 1
      /\ SubSeq(path, 1, Len(route.prefix)) = route.prefix
  BY DEF Fits
<1>2. Len(route.prefix) \in {2, 3} /\ route.prefix[2] # "stats"
  BY RouteCases
<1>3. path[2] = SubSeq(path, 1, Len(route.prefix))[2]
  BY <1>1, <1>2
<1> QED
  BY <1>1, <1>2, <1>3

(* The one that ends in a wildcard.                                        *)
LEMMA RestFits ==
  ASSUME NEW T, NEW path \in Seq(T), NEW route \in Routes, Fits(route, path),
         route.last = "rest"
  PROVE  Len(path) > 2 /\ path[1] = "v1" /\ path[2] = "stats"
<1>1. route.prefix = <<"v1", "stats">>
  BY RouteCases
<1>2. Len(path) > 2 /\ SubSeq(path, 1, 2) = <<"v1", "stats">>
  BY <1>1 DEF Fits
<1> QED
  BY <1>2, SubSeqOfTwo

(* The parameter of a route is the last segment, decoded: no route that    *)
(* matches the same path cuts it elsewhere.                                *)
LEMMA CaptureOfParam ==
  ASSUME NEW T, NEW path \in Seq(T), NEW route \in Matched(path),
         route.last = "param"
  PROVE  LET last == path[Len(path)] IN
         /\ Len(path) \in {3, 4}
         /\ Capture(path) = IF <<last>> \in DOMAIN Decoded
                            THEN Decoded[<<last>>] ELSE last
<1> DEFINE any == CHOOSE x \in Matched(path) : TRUE
<1>1. /\ any \in Matched(path)
      /\ \A x \in Matched(path) :
           x \in Routes /\ Fits(x, path) /\ x.last # "none"
  BY DEF Matched, Fitting
<1>2. Len(path) = Len(route.prefix) + 1 /\ path[2] # "stats"
  BY <1>1, ParamFits
<1> DEFINE n == Len(any.prefix)
<1>3. Capture(path) =
        IF SubSeq(path, n + 1, Len(path)) \in DOMAIN Decoded
        THEN Decoded[SubSeq(path, n + 1, Len(path))]
        ELSE SubSeq(path, n + 1, Len(path))[1]
  BY DEF Capture
<1> HIDE DEF any
<1>4. any.last = "param"
  BY <1>1, <1>2, RouteCases, RestFits
<1>5. n \in {2, 3} /\ Len(path) = n + 1
  BY <1>1, <1>4, ParamFits
<1> HIDE DEF n
<1>6. Len(path) \in {3, 4} /\ Len(path) \in 1..Len(path)
  BY <1>5
<1>7. /\ SubSeq(path, Len(path), Len(path)) = <<path[Len(path)]>>
      /\ SubSeq(path, Len(path), Len(path))[1] = path[Len(path)]
  BY <1>6, SubSeqOfOne
<1> QED
  BY <1>3, <1>5, <1>6, <1>7

(* A request keeps its fields, and gets the handler its line asks for.     *)
LEMMA RoutedFields ==
  ASSUME NEW q, DOMAIN q = RequestFields
  PROVE  /\ Routed(q).op = OpFor(q.method, q.path)
         /\ Routed(q).tag = TagOf(OpFor(q.method, q.path), q)
         /\ Routed(q).id = NameOf(OpFor(q.method, q.path), q)
         /\ \A f \in RequestFields : Routed(q)[f] = q[f]
BY DEF Routed, Over, RequestFields

(* It has one, or is told that there is none.                              *)
LEMMA RoutedOp ==
  ASSUME NEW q, DOMAIN q = RequestFields
  PROVE  Routed(q).op \in Op \cup DOMAIN RouterAnswer
BY RoutedFields, OpForRoute, RouteCases, OpNames

-----------------------------------------------------------------------------
(* What is below /v1/users and /v1/stats.                                  *)

(* DELETE /v1/users/:email.                                                *)
RemoveUserRoute == At(<<"v1", "users">>, "param", "DELETE", "remove_user")

(* GET /v1/users/online.                                                   *)
OnlineRoute == At(<<"v1", "users", "online">>, "none", "GET", "get_online_users")

(* GET /v1/users/stats.                                                    *)
UsersStatsRoute == At(<<"v1", "users", "stats">>, "none", "GET", "get_users_stats")

(* GET /v1/stats/*name.                                                    *)
GetStatRoute == At(<<"v1", "stats">>, "rest", "GET", "get_stat")

(* What these routes are made of.                                          *)
LEMMA RouteFields ==
  /\ RemoveUserRoute.last = "param" /\ RemoveUserRoute.method = "DELETE"
  /\ RemoveUserRoute.op = "remove_user"
  /\ RemoveUserRoute.prefix = <<"v1", "users">>
  /\ OnlineRoute.last = "none" /\ OnlineRoute.method = "GET"
  /\ OnlineRoute.op = "get_online_users"
  /\ OnlineRoute.prefix = <<"v1", "users", "online">>
  /\ UsersStatsRoute.last = "none" /\ UsersStatsRoute.method = "GET"
  /\ UsersStatsRoute.op = "get_users_stats"
  /\ UsersStatsRoute.prefix = <<"v1", "users", "stats">>
  /\ GetStatRoute.last = "rest" /\ GetStatRoute.method = "GET"
  /\ GetStatRoute.op = "get_stat"
  /\ GetStatRoute.prefix = <<"v1", "stats">>
BY DEF RemoveUserRoute, OnlineRoute, UsersStatsRoute, GetStatRoute, At

(* They are in the table.                                                  *)
LEMMA TheirRoutes ==
  {RemoveUserRoute, OnlineRoute, UsersStatsRoute, GetStatRoute} \subseteq Routes
BY DEF RemoveUserRoute, OnlineRoute, UsersStatsRoute, GetStatRoute, Routes,
       StatsRoutes, HandlerRoutes

(* No other route leads below these two.                                   *)
LEMMA OtherRoutes ==
  ASSUME NEW route \in Routes,
         route \notin {RemoveUserRoute, OnlineRoute, UsersStatsRoute,
                       GetStatRoute}
  PROVE  \/ /\ route.last = "none"
            /\ \/ Len(route.prefix) < 3
               \/ route.prefix[2] \notin {"users", "stats"}
         \/ /\ route.last = "param"
            /\ route.prefix[2] \notin {"users", "stats"}
            /\ Len(route.prefix) \in {2, 3}
<1>1. CASE route \in StatsRoutes
  BY <1>1 DEF StatsRoutes, At, OnlineRoute, UsersStatsRoute, GetStatRoute
<1>2. CASE route \in HandlerRoutes
  BY <1>2 DEF HandlerRoutes, At, RemoveUserRoute
<1>3. CASE route \in RoutingRoutes
  BY <1>3 DEF RoutingRoutes, At
<1> QED
  BY <1>1, <1>2, <1>3 DEF Routes, At

(* Short lists.                                                            *)
LEMMA ListOfTwo ==
  ASSUME NEW a, NEW b
  PROVE  /\ <<a, b>> \in Seq({a, b}) /\ Len(<<a, b>>) = 2
         /\ <<a, b>>[1] = a /\ <<a, b>>[2] = b
OBVIOUS

(* A list of three.                                                        *)
LEMMA ListOfThree ==
  ASSUME NEW a, NEW b, NEW c
  PROVE  /\ <<a, b, c>> \in Seq({a, b, c}) /\ Len(<<a, b, c>>) = 3
         /\ <<a, b, c>>[1] = a /\ <<a, b, c>>[2] = b /\ <<a, b, c>>[3] = c
OBVIOUS

(* A list of two and one more.                                             *)
LEMMA ListOfTwoAndOne ==
  ASSUME NEW a, NEW b, NEW c
  PROVE  <<a, b>> \o <<c>> = <<a, b, c>>
<1> DEFINE long == <<a, b>> \o <<c>>
           list == <<a, b, c>>
           all == {a, b, c}
<1>1. /\ long \in Seq(all) /\ Len(long) = 3
      /\ long[1] = a /\ long[2] = b /\ long[3] = c
  OBVIOUS
<1>2. /\ list \in Seq(all) /\ Len(list) = 3
      /\ list[1] = a /\ list[2] = b /\ list[3] = c
  BY ListOfThree
<1> HIDE DEF long, list, all
<1>3. \A i \in 1..3 : long[i] = list[i]
  BY <1>1, <1>2
<1>4. long = list
  BY <1>1, <1>2, <1>3, SeqEqual
<1> QED
  BY <1>4 DEF long, list

(* Whether a path is a list of three.                                      *)
LEMMA IsListOfThree ==
  ASSUME NEW T, NEW path \in Seq(T), NEW a, NEW b, NEW c
  PROVE  path = <<a, b, c>> <=>
           Len(path) = 3 /\ path[1] = a /\ path[2] = b /\ path[3] = c
<1> DEFINE list == <<a, b, c>>
           all == T \cup {a, b, c}
<1>1. /\ list \in Seq({a, b, c}) /\ Len(list) = 3
      /\ list[1] = a /\ list[2] = b /\ list[3] = c
  BY ListOfThree
<1> HIDE DEF list
<1>2. T \subseteq all /\ {a, b, c} \subseteq all
  OBVIOUS
<1> HIDE DEF all
<1>3. path \in Seq(all) /\ list \in Seq(all)
  BY <1>1, <1>2, SeqMonotonic
<1>4. ASSUME Len(path) = 3, path[1] = a, path[2] = b, path[3] = c
      PROVE  path = list
  <2>1. \A i \in 1..3 : path[i] = list[i]
    BY <1>1, <1>4
  <2> QED
    BY <1>1, <1>3, <1>4, <2>1, SeqEqual
<1> QED
  BY <1>1, <1>4 DEF list

(* Whether it starts with a list of two.                                   *)
LEMMA StartsWithTwo ==
  ASSUME NEW T, NEW path \in Seq(T), Len(path) > 2, NEW a, NEW b
  PROVE  SubSeq(path, 1, 2) = <<a, b>> <=> path[1] = a /\ path[2] = b
<1> DEFINE start == SubSeq(path, 1, 2)
           list == <<a, b>>
           all == T \cup {a, b}
<1>1. /\ start \in Seq(T) /\ Len(start) = 2
      /\ start[1] = path[1] /\ start[2] = path[2]
  OBVIOUS
<1>2. list \in Seq({a, b}) /\ Len(list) = 2 /\ list[1] = a /\ list[2] = b
  BY ListOfTwo
<1> HIDE DEF list, start
<1>3. T \subseteq all /\ {a, b} \subseteq all
  OBVIOUS
<1> HIDE DEF all
<1>4. start \in Seq(all) /\ list \in Seq(all)
  BY <1>1, <1>2, <1>3, SeqMonotonic
<1>5. ASSUME path[1] = a, path[2] = b
      PROVE  start = list
  <2>1. \A i \in 1..2 : start[i] = list[i]
    BY <1>1, <1>2, <1>5
  <2> QED
    BY <1>1, <1>2, <1>4, <2>1, SeqEqual
<1> QED
  BY <1>1, <1>2, <1>5 DEF list, start

(* Which paths a route of each kind fits.                                  *)
LEMMA WholeFitsThree ==
  ASSUME NEW T, NEW path \in Seq(T), NEW a, NEW b, NEW c, NEW route,
         route.prefix = <<a, b, c>>, route.last = "none"
  PROVE  Fits(route, path) <=>
           Len(path) = 3 /\ path[1] = a /\ path[2] = b /\ path[3] = c
<1> DEFINE n == Len(route.prefix)
<1>1. Fits(route, path) <=>
        Len(path) >= n /\ SubSeq(path, 1, n) = route.prefix /\ Len(path) = n
  BY Zenon DEF Fits
<1>2. SubSeq(path, 1, Len(path)) = path /\ Len(path) \in Nat
  BY SubSeqFull, LenProperties
<1>3. ASSUME path = route.prefix PROVE n = Len(path)
  BY <1>3
<1> HIDE DEF n
<1>4. ASSUME n = Len(path) PROVE Fits(route, path) <=> path = route.prefix
  <2>1. SubSeq(path, 1, n) = path /\ Len(path) >= n
    BY <1>2, <1>4
  <2> QED
    BY <1>1, <1>4, <2>1
<1>5. Fits(route, path) <=> path = route.prefix
  BY <1>1, <1>3, <1>4
<1> QED
  BY <1>5, IsListOfThree

(* A parameter after two segments takes one that is not empty.             *)
LEMMA ParamFitsTwo ==
  ASSUME NEW T, NEW path \in Seq(T), NEW a, NEW b, NEW route,
         route.prefix = <<a, b>>, route.last = "param"
  PROVE  Fits(route, path) <=>
           Len(path) = 3 /\ path[1] = a /\ path[2] = b /\ path[3] # ""
<1> DEFINE n == Len(route.prefix)
           empty == ""
<1>1. Fits(route, path) <=>
        /\ Len(path) >= n
        /\ SubSeq(path, 1, n) = route.prefix
        /\ Len(path) = n + 1 /\ path[n + 1] # empty
  BY Zenon DEF Fits
<1>2. n = 2
  BY ListOfTwo
<1> HIDE DEF n, empty
<1>3. Fits(route, path) <=>
        Len(path) = 3 /\ SubSeq(path, 1, 2) = <<a, b>> /\ path[3] # empty
  BY <1>1, <1>2
<1>4. ASSUME Len(path) = 3
      PROVE  SubSeq(path, 1, 2) = <<a, b>> <=> path[1] = a /\ path[2] = b
  <2>1. Len(path) > 2
    BY <1>4
  <2> QED
    BY <2>1, StartsWithTwo
<1>5. Fits(route, path) <=>
        Len(path) = 3 /\ path[1] = a /\ path[2] = b /\ path[3] # empty
  BY <1>3, <1>4
<1> QED
  BY <1>5 DEF empty

(* A wildcard after two segments takes all but an empty one.               *)
LEMMA RestFitsTwo ==
  ASSUME NEW T, NEW path \in Seq(T), NEW a, NEW b, NEW route,
         route.prefix = <<a, b>>, route.last = "rest"
  PROVE  Fits(route, path) <=>
           /\ Len(path) > 2 /\ path[1] = a /\ path[2] = b
           /\ Len(path) = 3 => path[3] # ""
<1> DEFINE n == Len(route.prefix)
           empty == ""
<1>1. Fits(route, path) <=>
        /\ Len(path) >= n
        /\ SubSeq(path, 1, n) = route.prefix
        /\ Len(path) > n /\ path # route.prefix \o <<empty>>
  BY Zenon DEF Fits
<1>0. n = 2
  BY ListOfTwo
<1> HIDE DEF n, empty
<1>2. Fits(route, path) <=>
        /\ Len(path) > 2 /\ SubSeq(path, 1, 2) = <<a, b>>
        /\ path # <<a, b>> \o <<empty>>
  BY <1>0, <1>1
<1>3. path = <<a, b>> \o <<empty>> <=>
        Len(path) = 3 /\ path[1] = a /\ path[2] = b /\ path[3] = empty
  BY ListOfTwoAndOne, IsListOfThree
<1>4. Fits(route, path) <=>
        /\ Len(path) > 2 /\ path[1] = a /\ path[2] = b
        /\ Len(path) = 3 => path[3] # empty
  BY <1>2, <1>3, StartsWithTwo
<1> QED
  BY <1>4 DEF empty


(* A parameter or a whole path is below what its route is below.           *)
LEMMA FitsBelow ==
  ASSUME NEW T, NEW path \in Seq(T), Len(path) > 2, NEW route \in Routes,
         Fits(route, path),
         route \notin {RemoveUserRoute, OnlineRoute, UsersStatsRoute,
                       GetStatRoute}
  PROVE  path[2] \notin {"users", "stats"}
<1>1. CASE route.last = "none"
  <2>1. path = route.prefix
    BY <1>1, WholeFits
  <2> QED
    BY <1>1, <2>1, OtherRoutes
<1>2. CASE route.last = "param"
  <2>1. route.prefix[2] \notin {"users", "stats"} /\ Len(route.prefix) \in {2, 3}
    BY <1>2, OtherRoutes
  <2>2. /\ Len(path) = Len(route.prefix) + 1
        /\ SubSeq(path, 1, Len(route.prefix)) = route.prefix
    BY <1>2, ParamFits
  <2>3. path[2] = SubSeq(path, 1, Len(route.prefix))[2]
    BY <2>1, <2>2
  <2> QED
    BY <2>1, <2>2, <2>3
<1> QED
  BY <1>1, <1>2, OtherRoutes

(* What the four routes fit.                                               *)
LEMMA FitsTheirs ==
  ASSUME NEW T, NEW path \in Seq(T)
  PROVE  /\ Fits(RemoveUserRoute, path) <=>
              /\ Len(path) = 3 /\ path[1] = "v1" /\ path[2] = "users"
              /\ path[3] # ""
         /\ Fits(OnlineRoute, path) <=>
              /\ Len(path) = 3 /\ path[1] = "v1" /\ path[2] = "users"
              /\ path[3] = "online"
         /\ Fits(UsersStatsRoute, path) <=>
              /\ Len(path) = 3 /\ path[1] = "v1" /\ path[2] = "users"
              /\ path[3] = "stats"
         /\ Fits(GetStatRoute, path) <=>
              /\ Len(path) > 2 /\ path[1] = "v1" /\ path[2] = "stats"
              /\ Len(path) = 3 => path[3] # ""
<1>1. Fits(RemoveUserRoute, path) <=>
        /\ Len(path) = 3 /\ path[1] = "v1" /\ path[2] = "users"
        /\ path[3] # ""
  <2>1. /\ RemoveUserRoute.prefix = <<"v1", "users">>
        /\ RemoveUserRoute.last = "param"
    BY RouteFields
  <2> QED
    BY <2>1, ParamFitsTwo, Zenon
<1>2. Fits(OnlineRoute, path) <=>
        /\ Len(path) = 3 /\ path[1] = "v1" /\ path[2] = "users"
        /\ path[3] = "online"
  <2> DEFINE a == "v1"
             b == "users"
             c == "online"
             route == OnlineRoute
  <2>1. route.prefix = <<a, b, c>> /\ route.last = "none"
    BY RouteFields
  <2> HIDE DEF a, b, c, route
  <2>2. Fits(route, path) <=>
          Len(path) = 3 /\ path[1] = a /\ path[2] = b /\ path[3] = c
    BY <2>1, WholeFitsThree
  <2> QED
    BY <2>2, Zenon DEF a, b, c, route
<1>3. Fits(UsersStatsRoute, path) <=>
        /\ Len(path) = 3 /\ path[1] = "v1" /\ path[2] = "users"
        /\ path[3] = "stats"
  <2> DEFINE a == "v1"
             b == "users"
             c == "stats"
             route == UsersStatsRoute
  <2>1. route.prefix = <<a, b, c>> /\ route.last = "none"
    BY RouteFields
  <2> HIDE DEF a, b, c, route
  <2>2. Fits(route, path) <=>
          Len(path) = 3 /\ path[1] = a /\ path[2] = b /\ path[3] = c
    BY <2>1, WholeFitsThree
  <2> QED
    BY <2>2, Zenon DEF a, b, c, route
<1>4. Fits(GetStatRoute, path) <=>
        /\ Len(path) > 2 /\ path[1] = "v1" /\ path[2] = "stats"
        /\ Len(path) = 3 => path[3] # ""
  <2>1. /\ GetStatRoute.prefix = <<"v1", "stats">>
        /\ GetStatRoute.last = "rest"
    BY RouteFields
  <2> QED
    BY <2>1, RestFitsTwo, Zenon
<1> QED
  BY <1>1, <1>2, <1>3, <1>4

(* Said apart from the text of paths, which arithmetic does not mix with.  *)
LEMMA MoreThanTwo ==
  ASSUME NEW n, n = 3
  PROVE  n > 2
OBVIOUS

(* Below /v1/users: a user to remove, or one of two listings as well.      *)
LEMMA FittingBelowUsers ==
  ASSUME NEW T, NEW path \in Seq(T), Len(path) = 3,
         path[1] = "v1", path[2] = "users", path[3] # ""
  PROVE  \A route : route \in Fitting(path) <=>
           \/ route = RemoveUserRoute
           \/ route = OnlineRoute /\ path[3] = "online"
           \/ route = UsersStatsRoute /\ path[3] = "stats"
<1>1. /\ Fits(RemoveUserRoute, path)
      /\ Fits(OnlineRoute, path) <=> path[3] = "online"
      /\ Fits(UsersStatsRoute, path) <=> path[3] = "stats"
      /\ ~Fits(GetStatRoute, path)
  BY FitsTheirs
<1>2. Len(path) > 2
  BY MoreThanTwo, Zenon
<1>3. \A route \in Routes :
        Fits(route, path) =>
          route \in {RemoveUserRoute, OnlineRoute, UsersStatsRoute, GetStatRoute}
  BY <1>2, FitsBelow
<1>4. \A route : route \in Fitting(path) <=> route \in Routes /\ Fits(route, path)
  BY DEF Fitting
<1> QED
  BY <1>1, <1>3, <1>4, TheirRoutes

(* Below /v1/stats: a counter.                                             *)
LEMMA FittingBelowStats ==
  ASSUME NEW T, NEW path \in Seq(T), Len(path) > 2,
         path[1] = "v1", path[2] = "stats", Len(path) = 3 => path[3] # ""
  PROVE  \A route : route \in Fitting(path) <=> route = GetStatRoute
<1>1. /\ ~Fits(RemoveUserRoute, path) /\ ~Fits(OnlineRoute, path)
      /\ ~Fits(UsersStatsRoute, path) /\ Fits(GetStatRoute, path)
  BY FitsTheirs
<1>2. \A route \in Routes :
        Fits(route, path) =>
          route \in {RemoveUserRoute, OnlineRoute, UsersStatsRoute, GetStatRoute}
  BY FitsBelow
<1>3. \A route : route \in Fitting(path) <=> route \in Routes /\ Fits(route, path)
  BY DEF Fitting
<1> QED
  BY <1>1, <1>2, <1>3, TheirRoutes

(* The answer to a path that matches one route.                            *)
LEMMA OneMatch ==
  ASSUME NEW method, NEW path, NEW only, Matched(path) = {only}
  PROVE  OpFor(method, path) = IF only.method = ServedAs(method)
                               THEN only.op ELSE "method_not_allowed"
<1>1. CASE only.method = ServedAs(method)
  <2>1. Offered(method, path) = {only}
    BY <1>1 DEF Offered
  <2>2. (CHOOSE route \in Offered(method, path) : TRUE) = only
    BY <2>1
  <2> QED
    BY <1>1, <2>1, <2>2 DEF OpFor
<1>2. CASE only.method # ServedAs(method)
  <2>1. Offered(method, path) = {}
    BY <1>2 DEF Offered
  <2> QED
    BY <1>2, <2>1 DEF OpFor
<1> QED
  BY <1>1, <1>2

(* The route that stands for itself is preferred to the parameter.         *)
LEMMA MatchedBelowUsers ==
  ASSUME NEW T, NEW path \in Seq(T), Len(path) = 3,
         path[1] = "v1", path[2] = "users", path[3] # ""
  PROVE  /\ path[3] = "online" => Matched(path) = {OnlineRoute}
         /\ path[3] = "stats" => Matched(path) = {UsersStatsRoute}
         /\ path[3] \notin {"online", "stats"} =>
              Matched(path) = {RemoveUserRoute}
<1>1. \A route : route \in Fitting(path) <=>
        \/ route = RemoveUserRoute
        \/ route = OnlineRoute /\ path[3] = "online"
        \/ route = UsersStatsRoute /\ path[3] = "stats"
  BY FittingBelowUsers
<1>2. /\ RemoveUserRoute.last # "none"
      /\ OnlineRoute.last = "none" /\ UsersStatsRoute.last = "none"
  BY RouteFields
<1>3. CASE path[3] = "online"
  <2>1. {route \in Fitting(path) : route.last = "none"} = {OnlineRoute}
    BY <1>1, <1>2, <1>3
  <2> QED
    BY <1>3, <2>1 DEF Matched
<1>4. CASE path[3] = "stats"
  <2>1. {route \in Fitting(path) : route.last = "none"} = {UsersStatsRoute}
    BY <1>1, <1>2, <1>4
  <2> QED
    BY <1>4, <2>1 DEF Matched
<1>5. CASE path[3] \notin {"online", "stats"}
  <2>1. \A route \in Fitting(path) : route.last # "none"
    BY <1>1, <1>2, <1>5, Zenon
  <2>2. Fitting(path) = {RemoveUserRoute}
    BY <1>1, <1>5
  <2> QED
    BY <1>5, <2>1, <2>2 DEF Matched
<1> QED
  BY <1>3, <1>4, <1>5

(* There is nothing to prefer below /v1/stats.                             *)
LEMMA MatchedBelowStats ==
  ASSUME NEW T, NEW path \in Seq(T), Len(path) > 2,
         path[1] = "v1", path[2] = "stats", Len(path) = 3 => path[3] # ""
  PROVE  Matched(path) = {GetStatRoute}
<1>1. \A route : route \in Fitting(path) <=> route = GetStatRoute
  BY FittingBelowStats
<1>2. GetStatRoute.last # "none"
  BY RouteFields
<1>3. /\ {route \in Fitting(path) : route.last = "none"} = {}
      /\ Fitting(path) = {GetStatRoute}
  BY <1>1, <1>2
<1> QED
  BY <1>3 DEF Matched

(* What is captured there: all that is below.                              *)
LEMMA CaptureBelow ==
  ASSUME NEW path, NEW only, Matched(path) = {only}, Len(only.prefix) = 2
  PROVE  LET rest == SubSeq(path, 3, Len(path)) IN
         Capture(path) = IF rest \in DOMAIN Decoded THEN Decoded[rest]
                         ELSE rest[1]
<1>1. (CHOOSE route \in Matched(path) : TRUE) = only
  OBVIOUS
<1> DEFINE n == Len(only.prefix)
<1>2. Capture(path) =
        IF SubSeq(path, n + 1, Len(path)) \in DOMAIN Decoded
        THEN Decoded[SubSeq(path, n + 1, Len(path))]
        ELSE SubSeq(path, n + 1, Len(path))[1]
  BY <1>1 DEF Capture
<1>3. n + 1 = 3
  OBVIOUS
<1> QED
  BY <1>2, <1>3

(* Which handler is found below /v1/users, and for whom.                   *)
LEMMA OpBelowUsers ==
  ASSUME NEW T, NEW path \in Seq(T), Len(path) = 3, path[1] = "v1",
         path[2] = "users", path[3] # "", NEW method
  PROVE  LET user == path[3] \notin {"online", "stats"}
             read == method \in {"GET", "HEAD"}
         IN  /\ method = "DELETE" /\ user =>
                  /\ OpFor(method, path) = "remove_user"
                  /\ Capture(path) = IF <<path[3]>> \in DOMAIN Decoded
                                     THEN Decoded[<<path[3]>>] ELSE path[3]
             /\ read /\ path[3] = "online" =>
                  OpFor(method, path) = "get_online_users"
             /\ read /\ path[3] = "stats" =>
                  OpFor(method, path) = "get_users_stats"
             /\ ~(method = "DELETE" /\ user) /\ ~(read /\ ~user) =>
                  OpFor(method, path) = "method_not_allowed"
<1> DEFINE user == path[3] \notin {"online", "stats"}
           read == method \in {"GET", "HEAD"}
<1>1. /\ path[3] = "online" => Matched(path) = {OnlineRoute}
      /\ path[3] = "stats" => Matched(path) = {UsersStatsRoute}
      /\ user => Matched(path) = {RemoveUserRoute}
  BY MatchedBelowUsers
<1>2. /\ ServedAs(method) = "GET" <=> read
      /\ ServedAs(method) = "DELETE" <=> method = "DELETE"
  BY DEF ServedAs
<1>3. CASE path[3] = "online"
  <2>1. OpFor(method, path) = IF read THEN "get_online_users"
                              ELSE "method_not_allowed"
    BY <1>1, <1>2, <1>3, OneMatch, RouteFields
  <2> QED
    BY <1>3, <2>1
<1>4. CASE path[3] = "stats"
  <2>1. OpFor(method, path) = IF read THEN "get_users_stats"
                              ELSE "method_not_allowed"
    BY <1>1, <1>2, <1>4, OneMatch, RouteFields
  <2> QED
    BY <1>4, <2>1
<1>5. CASE user
  <2>1. OpFor(method, path) = IF method = "DELETE" THEN "remove_user"
                              ELSE "method_not_allowed"
    BY <1>1, <1>2, <1>5, OneMatch, RouteFields
  <2>2. RemoveUserRoute \in Matched(path) /\ RemoveUserRoute.last = "param"
    BY <1>1, <1>5, RouteFields
  <2>3. Capture(path) = IF <<path[3]>> \in DOMAIN Decoded
                        THEN Decoded[<<path[3]>>] ELSE path[3]
    BY <2>2, CaptureOfParam, Zenon
  <2> QED
    BY <1>5, <2>1, <2>3
<1> QED
  BY <1>3, <1>4, <1>5

(* Below /v1/stats a counter is read, whatever its name.                   *)
LEMMA OpBelowStats ==
  ASSUME NEW T, NEW path \in Seq(T), Len(path) > 2, path[1] = "v1",
         path[2] = "stats", Len(path) = 3 => path[3] # "", NEW method
  PROVE  LET rest == SubSeq(path, 3, Len(path)) IN
         IF method \in {"GET", "HEAD"}
         THEN /\ OpFor(method, path) = "get_stat"
              /\ Capture(path) = IF rest \in DOMAIN Decoded THEN Decoded[rest]
                                 ELSE rest[1]
         ELSE OpFor(method, path) = "method_not_allowed"
<1>1. Matched(path) = {GetStatRoute}
  BY MatchedBelowStats
<1>2. ServedAs(method) = "GET" <=> method \in {"GET", "HEAD"}
  BY DEF ServedAs
<1>3. OpFor(method, path) = IF method \in {"GET", "HEAD"} THEN "get_stat"
                            ELSE "method_not_allowed"
  BY <1>1, <1>2, OneMatch, RouteFields
<1>4. Len(GetStatRoute.prefix) = 2
  BY RouteFields, ListOfTwo, Zenon
<1> DEFINE rest == SubSeq(path, 3, Len(path))
<1>5. Capture(path) = IF rest \in DOMAIN Decoded THEN Decoded[rest]
                      ELSE rest[1]
  BY <1>1, <1>4, CaptureBelow
<1> QED
  BY <1>3, <1>5

-----------------------------------------------------------------------------
(* Rejections.                                                             *)

(* What the handler of in checks of its body.                              *)
BodyOK(in) ==
  /\ in.op \in TakesBody => in.body = "ok"
  /\ in.op = "add_user" =>
       \/ in.spec.proto \in {"vless", "vmess", NoText}
       \/ /\ in.spec.proto \in {"trojan", "shadowsocks"}
          /\ in.spec.password # NoText
  /\ in.op \in {"add_inbound", "add_outbound"} =>
       /\ in.spec.tag = "string"
       /\ in.spec.settings # "malformed"
       /\ in.spec.proxy_settings # "malformed"

(* What a handler rejects a body with.                                     *)
BodyRejections ==
  {UnprocessableEntity} \cup {PlainError(http) : http \in {400, 413, 415, 422}}

(* A handler makes its call exactly if there is nothing wrong with the     *)
(* body; otherwise it says so.                                             *)
LEMMA RejectionsMean ==
  ASSUME NEW in,
         IF in.op \in TakesBody
         THEN in.body \in {"ok", "syntax", "data", "media", "large"}
         ELSE in.body = "none"
  PROVE  /\ Rejections(in) = {} <=> BodyOK(in)
         /\ Rejections(in) \subseteq BodyRejections
<1>1. CASE in.body \notin {"ok", "none"}
  BY <1>1 DEF Rejections, BodyOK, BodyRejections
<1>2. CASE in.body = "none"
  BY <1>2 DEF Rejections, BodyOK, BodyRejections, TakesBody, Adds
<1>3. CASE in.body = "ok" /\ in.op = "add_user"
  <2>1. InvalidAccount(in.spec) <=> ~BodyOK(in)
    BY <1>3 DEF InvalidAccount, ProtoOf, BodyOK
  <2> QED
    BY <1>3, <2>1 DEF Rejections, BodyRejections
<1>4. CASE in.body = "ok" /\ in.op \in {"add_inbound", "add_outbound"}
  <2>1. InvalidConfig(in.spec) <=> ~BodyOK(in)
    BY <1>4 DEF InvalidConfig, BodyOK
  <2> QED
    BY <1>4, <2>1 DEF Rejections, BodyRejections
<1>5. CASE in.body = "ok" /\ in.op \notin Adds
  BY <1>5 DEF Rejections, BodyOK, BodyRejections, Adds
<1> QED
  BY <1>1, <1>2, <1>3, <1>4, <1>5 DEF Adds

-----------------------------------------------------------------------------
(* Calls.                                                                  *)

(* The call of each handler.                                               *)
LEMMA MethodOfHandlers ==
  \A op \in HandlerOps :
    /\ MethodOf[op] = HandlerService[op] /\ MethodOf[op] \in Method
    /\ op = "add_user" <=> MethodOf[op] = "AddUser"
    /\ op = "remove_user" <=> MethodOf[op] = "RemoveUser"
    /\ op = "list_inbounds" <=> MethodOf[op] = "ListInbounds"
    /\ op = "add_inbound" <=> MethodOf[op] = "AddInbound"
    /\ op = "remove_inbound" <=> MethodOf[op] = "RemoveInbound"
    /\ op = "list_outbounds" <=> MethodOf[op] = "ListOutbounds"
    /\ op = "add_outbound" <=> MethodOf[op] = "AddOutbound"
    /\ op = "remove_outbound" <=> MethodOf[op] = "RemoveOutbound"
<1>1. DOMAIN HandlerService = HandlerOps
  BY DEF HandlerService, HandlerOps
<1>2. \A op \in HandlerOps : MethodOf[op] = HandlerService[op]
  BY <1>1 DEF MethodOf, Over
<1> QED
  BY <1>2 DEF HandlerService, HandlerOps, Method

(* The call of each handler that reads figures.                            *)
LEMMA MethodOfStats ==
  \A op \in StatsOps :
    /\ MethodOf[op] = StatsService[op] /\ MethodOf[op] \in Method
    /\ op = "get_sys_stats" <=> MethodOf[op] = "GetSysStats"
    /\ op \in {"list_users", "query_stats"} <=> MethodOf[op] = "QueryStats"
    /\ op = "get_online_users" <=> MethodOf[op] = "GetAllOnlineUsers"
    /\ op = "get_users_stats" <=> MethodOf[op] = "GetUsersStats"
    /\ op = "get_stat" <=> MethodOf[op] = "GetStats"
<1>1. DOMAIN HandlerService = HandlerOps /\ DOMAIN StatsService = StatsOps
  BY DEF HandlerService, HandlerOps, StatsService, StatsOps
<1>2. \A op \in StatsOps : op \notin HandlerOps
  BY DEF HandlerOps, StatsOps
<1>3. \A op \in StatsOps : MethodOf[op] = StatsService[op]
  BY <1>1, <1>2 DEF MethodOf, Over
<1> QED
  BY <1>3 DEF StatsService, StatsOps, Method

(* The call of each handler for routing and for the logger.                *)
LEMMA MethodOfRoutingAndLogger ==
  \A op \in RoutingAndLoggerOps :
    /\ MethodOf[op] = RoutingAndLoggerService[op] /\ MethodOf[op] \in Method
    /\ op = "test_route" <=> MethodOf[op] = "TestRoute"
    /\ op = "list_rules" <=> MethodOf[op] = "ListRule"
    /\ op = "remove_rule" <=> MethodOf[op] = "RemoveRule"
    /\ op = "get_balancer" <=> MethodOf[op] = "GetBalancerInfo"
    /\ op = "override_balancer" <=> MethodOf[op] = "OverrideBalancerTarget"
    /\ op = "restart_logger" <=> MethodOf[op] = "RestartLogger"
<1>1. /\ DOMAIN HandlerService = HandlerOps /\ DOMAIN StatsService = StatsOps
      /\ DOMAIN RoutingAndLoggerService = RoutingAndLoggerOps
  BY DEF HandlerService, HandlerOps, StatsService, StatsOps,
         RoutingAndLoggerService, RoutingAndLoggerOps
<1>2. \A op \in RoutingAndLoggerOps : op \notin HandlerOps \cup StatsOps
  BY DEF HandlerOps, StatsOps, RoutingAndLoggerOps
<1>3. \A op \in RoutingAndLoggerOps : MethodOf[op] = RoutingAndLoggerService[op]
  BY <1>1, <1>2 DEF MethodOf, Over
<1> QED
  BY <1>3 DEF RoutingAndLoggerService, RoutingAndLoggerOps, Method

(* What is true of the requests that get to a handler.                     *)
RequestOK(in) ==
  /\ in.op \in Op
  /\ IF in.op \in TakesBody
     THEN in.body \in {"ok", "syntax", "data", "media", "large"}
     ELSE in.body = "none"
  /\ {in.tag, in.id} \subseteq Id \cup {NoId}
  /\ in.op \in {"get_balancer", "override_balancer"} => in.tag \in Id
  /\ in.flag \in BOOLEAN

(* The call of a handler is one a node understands.                        *)
LEMMA CallOfOK ==
  ASSUME NEW in, RequestOK(in)
  PROVE  CallOK(CallOf(in))
<1> DEFINE c == CallOf(in)
<1>1. /\ c.method = MethodOf[in.op] /\ c.tag = in.tag /\ c.id = IdOf(in)
      /\ c.reset = ResetOf(in) /\ c.what = WhatOf(in)
  BY DEF CallOf
<1> HIDE DEF c
<1>2. /\ c.method \in Method
      /\ c.method \in {"GetBalancerInfo", "OverrideBalancerTarget"} =>
           in.op \in {"get_balancer", "override_balancer"}
      /\ c.method = "OverrideBalancerTarget" => in.op = "override_balancer"
      /\ c.method = "TestRoute" => in.op = "test_route"
  <2>1. CASE in.op \in HandlerOps
    <3>1. c.method \in {"AddUser", "RemoveUser", "ListInbounds", "AddInbound",
                        "RemoveInbound", "ListOutbounds", "AddOutbound",
                        "RemoveOutbound"}
      BY <1>1, <2>1, MethodOfHandlers DEF HandlerOps
    <3> QED
      BY <3>1 DEF Method
  <2>2. CASE in.op \in StatsOps
    <3>1. c.method \in {"GetSysStats", "QueryStats", "GetAllOnlineUsers",
                        "GetUsersStats", "GetStats"}
      BY <1>1, <2>2, MethodOfStats DEF StatsOps
    <3> QED
      BY <3>1 DEF Method
  <2>3. CASE in.op \in RoutingAndLoggerOps
    BY <1>1, <2>3, MethodOfRoutingAndLogger
  <2> QED
    BY <2>1, <2>2, <2>3, OpNames DEF RequestOK
<1>3. c.tag \in Listed /\ c.reset \in BOOLEAN
  BY <1>1 DEF RequestOK, Listed, ResetOf
<1>4. c.method = "OverrideBalancerTarget" => c.id \in Listed
  BY <1>1, <1>2 DEF RequestOK, IdOf, Listed
<1>5. c.method = "TestRoute" => c.what \in Listed
  BY <1>1, <1>2 DEF WhatOf, NetworkOf, Listed
<1> QED
  BY <1>1, <1>2, <1>3, <1>4, <1>5 DEF CallOK, RequestOK, c

==============================================================================
