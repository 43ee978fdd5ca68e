------------------------- MODULE BridgeAnswersProofs -------------------------
(***************************************************************************)
(* What answers say of the nodes, what requests may change on them, and    *)
(* where the traffic goes that they count: theorems for any number of      *)
(* requests, nodes, inputs and channels.                                   *)
(***************************************************************************)
EXTENDS BridgeProofs, FiniteSetTheorems

-----------------------------------------------------------------------------
(* What a call does to what its request names.                             *)

(* Handlers that take something away from the node they name.              *)
Removes == {"remove_user", "remove_inbound", "remove_outbound", "remove_rule"}

(* The call tells the handler.                                             *)
LEMMA MethodTells ==
  ASSUME NEW in, RequestOK(in)
  PROVE  LET m == CallOf(in).method IN
         /\ m = "AddUser" <=> in.op = "add_user"
         /\ m = "RemoveUser" <=> in.op = "remove_user"
         /\ m = "AddInbound" <=> in.op = "add_inbound"
         /\ m = "RemoveInbound" <=> in.op = "remove_inbound"
         /\ m = "AddOutbound" <=> in.op = "add_outbound"
         /\ m = "RemoveOutbound" <=> in.op = "remove_outbound"
         /\ m = "GetStats" <=> in.op = "get_stat"
         /\ m = "QueryStats" <=> in.op \in {"list_users", "query_stats"}
         /\ m = "GetUsersStats" <=> in.op = "get_users_stats"
         /\ m = "RemoveRule" <=> in.op = "remove_rule"
         /\ m = "OverrideBalancerTarget" <=> in.op = "override_balancer"
<1>1. CallOf(in).method = MethodOf[in.op]
  BY DEF CallOf
<1>2. in.op \in HandlerOps \cup StatsOps \cup RoutingAndLoggerOps
  BY OpNames DEF RequestOK
<1>3. CASE in.op \in HandlerOps
  BY <1>1, <1>3, MethodOfHandlers DEF HandlerOps, HandlerService
<1>4. CASE in.op \in StatsOps
  BY <1>1, <1>4, MethodOfStats DEF StatsOps, StatsService
<1>5. CASE in.op \in RoutingAndLoggerOps
  BY <1>1, <1>5, MethodOfRoutingAndLogger
     DEF RoutingAndLoggerOps, RoutingAndLoggerService
<1> QED
  BY <1>2, <1>3, <1>4, <1>5

(* What the call of a handler is about.                                    *)
LEMMA CallFields ==
  ASSUME NEW in
  PROVE  LET c == CallOf(in) IN
         /\ c.tag = in.tag /\ c.id = IdOf(in) /\ c.reset = ResetOf(in)
         /\ c.what = WhatOf(in)
         /\ in.op # "list_users" => c.id = in.id
BY DEF CallOf, IdOf

(* What is there under a name, handler by handler.                         *)
LEMMA ThereIs ==
  ASSUME NEW node, NEW in
  PROVE  /\ in.op \in {"add_user", "remove_user"} =>
              There(node, in) = (UserIn(node, in.tag, in.id) # {})
         /\ in.op \in {"add_inbound", "remove_inbound"} =>
              There(node, in) = (Tagged(node.inbounds, in.tag) # {})
         /\ in.op \in {"add_outbound", "remove_outbound"} =>
              There(node, in) = (Tagged(node.outbounds, in.tag) # {})
         /\ in.op = "remove_rule" => There(node, in) = (in.tag \in node.rules)
         /\ in.op = "override_balancer" =>
              There(node, in) = (node.override[in.tag] = in.id)
         /\ in.op = "get_stat" =>
              There(node, in) = (in.id \in DOMAIN node.counters)
<1>1. CASE in.op \in {"add_user", "remove_user"}
  BY <1>1 DEF There
<1>2. CASE in.op \in {"add_inbound", "remove_inbound"}
  BY <1>2 DEF There
<1>3. CASE in.op \in {"add_outbound", "remove_outbound"}
  BY <1>3 DEF There
<1>4. CASE in.op = "remove_rule"
  BY <1>4 DEF There
<1>5. CASE in.op = "override_balancer"
  BY <1>5 DEF There
<1>6. CASE in.op = "get_stat"
  BY <1>6 DEF There
<1> QED
  BY <1>1, <1>2, <1>3, <1>4, <1>5, <1>6

(* What stands under the name of a request that adds something.            *)
LEMMA AddedIs ==
  ASSUME NEW node, NEW in
  PROVE  /\ in.op = "add_user" =>
              Added(node, in) = {u.what : u \in UserIn(node, in.tag, in.id)}
         /\ in.op = "add_inbound" =>
              Added(node, in) =
                {i.config : i \in Tagged(node.inbounds, in.tag)}
         /\ in.op = "add_outbound" =>
              Added(node, in) =
                {o.config : o \in Tagged(node.outbounds, in.tag)}
<1>1. CASE in.op = "add_user"
  BY <1>1 DEF Added
<1>2. CASE in.op = "add_inbound"
  BY <1>2 DEF Added
<1>3. CASE in.op = "add_outbound"
  BY <1>3 DEF Added
<1> QED
  BY <1>1, <1>2, <1>3

(* What the outcome o of the call for in at a node tells of what in names. *)
Told(node, o, in) ==
  LET status == o.reply.status IN
  /\ status # StatusOK => o.node = node
  /\ GrpcCodeToHttp(status) = 404 => ~There(node, in)
  /\ GrpcCodeToHttp(status) = 409 => There(node, in)
  /\ in.op \in {"get_stat", "remove_user"} /\ ~There(node, in) =>
       status \in RefusalErrors \cup Missing
  /\ status = StatusOK =>
       /\ in.op \in Adds => /\ ~There(node, in) /\ There(o.node, in)
                            /\ \A what \in Added(o.node, in) : what = WhatOf(in)
       /\ in.op \in Removes => There(node, in) /\ ~There(o.node, in)
       /\ in.op = "override_balancer" => There(o.node, in)

(* OK is the status of no error, and would be reported as 500.             *)
LEMMA HttpOfOK == GrpcCodeToHttp(StatusOK) = 500
<1>1. StatusOK.code = "OK"
  BY DEF StatusOK
<1> QED
  BY Zenon, <1>1 DEF GrpcCodeToHttp

(* A node that refuses a call is left as it is, and refuses for what it    *)
(* has.                                                                    *)
LEMMA ToldOfFailure ==
  ASSUME NEW node, NEW in, NEW o, o.node = node,
         \/ o.reply.status \in RefusalErrors
         \/ o.reply.status \in Missing /\ ~There(node, in)
         \/ o.reply.status \in Exists /\ There(node, in)
  PROVE  Told(node, o, in)
<1> DEFINE status == o.reply.status
<1>1. CASE status \in RefusalErrors
  <2>1. status # StatusOK /\ GrpcCodeToHttp(status) \notin {404, 409}
    BY <1>1, NodeAssumption, HttpOfNeither DEF TellsNeither
  <2> QED
    BY <2>1 DEF Told
<1>2. CASE status \in Missing /\ ~There(node, in)
  <2>1. status # StatusOK /\ GrpcCodeToHttp(status) = 404
    BY <1>2, AbsenceAndPresence
  <2> QED
    BY <1>2, <2>1 DEF Told
<1>3. CASE status \in Exists /\ There(node, in)
  <2>1. status # StatusOK /\ GrpcCodeToHttp(status) = 409
    BY <1>3, AbsenceAndPresence
  <2> QED
    BY <1>3, <2>1 DEF Told
<1> QED
  BY <1>1, <1>2, <1>3

(* A node that does what a call asks.                                      *)
LEMMA ToldOfSuccess ==
  ASSUME NEW node, NEW in, NEW o, o.reply.status = StatusOK,
         in.op \in Adds => /\ ~There(node, in) /\ There(o.node, in)
                           /\ \A what \in Added(o.node, in) : what = WhatOf(in),
         in.op \in Removes => There(node, in) /\ ~There(o.node, in),
         in.op = "get_stat" => There(node, in),
         in.op = "override_balancer" => There(o.node, in)
  PROVE  Told(node, o, in)
BY HttpOfOK DEF Told, Removes

(* The users of an inbound: what is told of adding and removing them.      *)
LEMMA ToldByAlterInbound ==
  ASSUME NEW node, NodeOK(node), NEW in, RequestOK(in),
         CallOf(in).method \in {"AddUser", "RemoveUser"},
         NEW o \in AlterInbound(node, CallOf(in))
  PROVE  Told(node, o, in)
<1> DEFINE c == CallOf(in)
           same == UserIn(node, in.tag, in.id)
           new == [tag |-> in.tag, email |-> in.id, what |-> WhatOf(in)]
<1>1. /\ c.method = "AddUser" <=> in.op = "add_user"
      /\ c.method = "RemoveUser" <=> in.op = "remove_user"
  BY MethodTells
<1>2. /\ in.op \in {"add_user", "remove_user"}
      /\ c.tag = in.tag /\ c.id = in.id /\ c.what = WhatOf(in)
  BY <1>1, CallFields
<1>3. /\ There(node, in) = (same # {})
      /\ There(o.node, in) = (UserIn(o.node, in.tag, in.id) # {})
      /\ in.op = "add_user" =>
           Added(o.node, in) = {u.what : u \in UserIn(o.node, in.tag, in.id)}
  BY <1>2, ThereIs, AddedIs
<1> HIDE DEF c
<1>4. \/ same = {} /\ Fails(node, o, Missing)
      \/ c.method = "AddUser" /\ same # {} /\ Fails(node, o, Exists)
      \/ /\ c.method = "AddUser" /\ same = {}
         /\ Succeeds(o, node.inbounds, node.outbounds,
                     node.users \cup {new}, node.rules, node.override,
                     node.counters)
      \/ /\ c.method = "RemoveUser" /\ same # {}
         /\ Succeeds(o, node.inbounds, node.outbounds,
                     node.users \ same, node.rules, node.override,
                     node.counters)
  <2>1. CallOK(c) /\ c.method \in {"AddUser", "RemoveUser"}
    BY CallOfOK DEF c
  <2>2. o \in AlterInbound(node, c)
    BY DEF c
  <2> QED
    BY <1>2, <2>1, <2>2, AlterInboundOutcomes
<1>5. CASE same = {} /\ Fails(node, o, Missing)
  BY <1>3, <1>5, ToldOfFailure DEF Fails
<1>6. CASE same # {} /\ Fails(node, o, Exists)
  BY <1>3, <1>6, ToldOfFailure DEF Fails
<1>7. CASE /\ c.method = "AddUser" /\ same = {}
           /\ Succeeds(o, node.inbounds, node.outbounds,
                       node.users \cup {new}, node.rules, node.override,
                       node.counters)
  <2>1. o.node.users = node.users \cup {new} /\ o.reply.status = StatusOK
    BY <1>7 DEF Succeeds, NodeIs
  <2>2. UserIn(o.node, in.tag, in.id) = {new}
    BY <1>7, <2>1 DEF UserIn
  <2>3. \A what \in Added(o.node, in) : what = WhatOf(in)
    BY <1>1, <1>3, <1>7, <2>2
  <2> QED
    BY <1>1, <1>3, <1>7, <2>1, <2>2, <2>3, ToldOfSuccess DEF Removes
<1>8. CASE /\ c.method = "RemoveUser" /\ same # {}
           /\ Succeeds(o, node.inbounds, node.outbounds,
                       node.users \ same, node.rules, node.override,
                       node.counters)
  <2>1. o.node.users = node.users \ same /\ o.reply.status = StatusOK
    BY <1>8 DEF Succeeds, NodeIs
  <2>2. UserIn(o.node, in.tag, in.id) = {}
    BY <2>1 DEF UserIn
  <2> QED
    BY <1>1, <1>3, <1>8, <2>1, <2>2, ToldOfSuccess DEF Adds
<1> QED
  BY <1>4, <1>5, <1>6, <1>7, <1>8

(* The same of inbounds.                                                   *)
LEMMA ToldByManageInbounds ==
  ASSUME NEW node, NodeOK(node), NEW in, RequestOK(in),
         CallOf(in).method \in {"ListInbounds", "AddInbound", "RemoveInbound"},
         NEW o \in ManageInbounds(node, CallOf(in))
  PROVE  Told(node, o, in)
<1> DEFINE c == CallOf(in)
           same == Tagged(node.inbounds, in.tag)
           new == [tag |-> in.tag, config |-> WhatOf(in)]
<1>1. /\ c.method = "AddInbound" <=> in.op = "add_inbound"
      /\ c.method = "RemoveInbound" <=> in.op = "remove_inbound"
      /\ in.op \notin {"add_user", "add_outbound", "remove_user",
                       "remove_outbound", "remove_rule", "get_stat",
                       "override_balancer"}
  BY MethodTells
<1>2. c.tag = in.tag /\ c.what = WhatOf(in)
  BY CallFields
<1>3. in.op \in {"add_inbound", "remove_inbound"} =>
        /\ There(node, in) = (same # {})
        /\ There(o.node, in) = (Tagged(o.node.inbounds, in.tag) # {})
        /\ in.op = "add_inbound" =>
             Added(o.node, in) =
               {i.config : i \in Tagged(o.node.inbounds, in.tag)}
  BY ThereIs, AddedIs
<1> HIDE DEF c
<1>4. \/ /\ c.method = "ListInbounds"
         /\ o.node = node /\ o.reply.status = StatusOK
      \/ c.method = "AddInbound" /\ same # {} /\ Fails(node, o, Exists)
      \/ /\ c.method = "AddInbound" /\ same = {}
         /\ Succeeds(o, node.inbounds \cup {new}, node.outbounds,
                     node.users, node.rules, node.override, node.counters)
      \/ c.method = "RemoveInbound" /\ same = {} /\ Fails(node, o, Missing)
      \/ /\ c.method = "RemoveInbound" /\ same # {}
         /\ Succeeds(o, node.inbounds \ same, node.outbounds,
                     node.users \ Tagged(node.users, c.tag), node.rules,
                     node.override, node.counters)
  <2>1. /\ CallOK(c)
        /\ c.method \in {"ListInbounds", "AddInbound", "RemoveInbound"}
    BY CallOfOK DEF c
  <2>2. o \in ManageInbounds(node, c)
    BY DEF c
  <2> QED
    BY <1>2, <2>1, <2>2, ManageInboundsOutcomes
<1>5. CASE /\ c.method = "ListInbounds"
           /\ o.node = node /\ o.reply.status = StatusOK
  BY <1>1, <1>5, ToldOfSuccess DEF Adds, Removes
<1>6. CASE c.method = "AddInbound" /\ same # {} /\ Fails(node, o, Exists)
  BY <1>1, <1>3, <1>6, ToldOfFailure DEF Fails
<1>7. CASE /\ c.method = "AddInbound" /\ same = {}
           /\ Succeeds(o, node.inbounds \cup {new}, node.outbounds,
                       node.users, node.rules, node.override, node.counters)
  <2>1. o.node.inbounds = node.inbounds \cup {new} /\ o.reply.status = StatusOK
    BY <1>7 DEF Succeeds, NodeIs
  <2>2. Tagged(o.node.inbounds, in.tag) = {new}
    BY <1>7, <2>1 DEF Tagged
  <2>3. \A what \in Added(o.node, in) : what = WhatOf(in)
    BY <1>1, <1>3, <1>7, <2>2
  <2> QED
    BY <1>1, <1>3, <1>7, <2>1, <2>2, <2>3, ToldOfSuccess DEF Removes
<1>8. CASE c.method = "RemoveInbound" /\ same = {} /\ Fails(node, o, Missing)
  BY <1>1, <1>3, <1>8, ToldOfFailure DEF Fails
<1>9. CASE /\ c.method = "RemoveInbound" /\ same # {}
           /\ Succeeds(o, node.inbounds \ same, node.outbounds,
                       node.users \ Tagged(node.users, c.tag), node.rules,
                       node.override, node.counters)
  <2>1. o.node.inbounds = node.inbounds \ same /\ o.reply.status = StatusOK
    BY <1>9 DEF Succeeds, NodeIs
  <2>2. Tagged(o.node.inbounds, in.tag) = {}
    BY <2>1 DEF Tagged
  <2> QED
    BY <1>1, <1>3, <1>9, <2>1, <2>2, ToldOfSuccess DEF Adds
<1> QED
  BY <1>4, <1>5, <1>6, <1>7, <1>8, <1>9

(* The same of outbounds.                                                  *)
LEMMA ToldByManageOutbounds ==
  ASSUME NEW node, NodeOK(node), NEW in, RequestOK(in),
         CallOf(in).method \in {"ListOutbounds", "AddOutbound", "RemoveOutbound"},
         NEW o \in ManageOutbounds(node, CallOf(in))
  PROVE  Told(node, o, in)
<1> DEFINE c == CallOf(in)
           same == Tagged(node.outbounds, in.tag)
           new == [tag |-> in.tag, config |-> WhatOf(in)]
<1>1. /\ c.method = "AddOutbound" <=> in.op = "add_outbound"
      /\ c.method = "RemoveOutbound" <=> in.op = "remove_outbound"
      /\ in.op \notin {"add_user", "add_inbound", "remove_user",
                       "remove_inbound", "remove_rule", "get_stat",
                       "override_balancer"}
  BY MethodTells
<1>2. c.tag = in.tag /\ c.what = WhatOf(in)
  BY CallFields
<1>3. in.op \in {"add_outbound", "remove_outbound"} =>
        /\ There(node, in) = (same # {})
        /\ There(o.node, in) = (Tagged(o.node.outbounds, in.tag) # {})
        /\ in.op = "add_outbound" =>
             Added(o.node, in) =
               {i.config : i \in Tagged(o.node.outbounds, in.tag)}
  BY ThereIs, AddedIs
<1> HIDE DEF c
<1>4. \/ /\ c.method = "ListOutbounds"
         /\ o.node = node /\ o.reply.status = StatusOK
      \/ c.method = "AddOutbound" /\ same # {} /\ Fails(node, o, Exists)
      \/ /\ c.method = "AddOutbound" /\ same = {}
         /\ Succeeds(o, node.inbounds, node.outbounds \cup {new},
                     node.users, node.rules, node.override, node.counters)
      \/ c.method = "RemoveOutbound" /\ same = {} /\ Fails(node, o, Missing)
      \/ /\ c.method = "RemoveOutbound" /\ same # {}
         /\ Succeeds(o, node.inbounds, node.outbounds \ same,
                     node.users, node.rules, node.override, node.counters)
  <2> DEFINE there == Tagged(node.outbounds, c.tag)
             added == [tag |-> c.tag, config |-> c.what]
  <2>1. /\ CallOK(c)
        /\ c.method \in {"ListOutbounds", "AddOutbound", "RemoveOutbound"}
    BY CallOfOK DEF c
  <2>2. o \in ManageOutbounds(node, c)
    BY DEF c
  <2>3. \/ /\ c.method = "ListOutbounds"
           /\ o.node = node /\ o.reply.status = StatusOK
        \/ c.method = "AddOutbound" /\ there # {} /\ Fails(node, o, Exists)
        \/ /\ c.method = "AddOutbound" /\ there = {}
           /\ Succeeds(o, node.inbounds, node.outbounds \cup {added},
                       node.users, node.rules, node.override, node.counters)
        \/ c.method = "RemoveOutbound" /\ there = {} /\ Fails(node, o, Missing)
        \/ /\ c.method = "RemoveOutbound" /\ there # {}
           /\ Succeeds(o, node.inbounds, node.outbounds \ there,
                       node.users, node.rules, node.override, node.counters)
    BY <2>1, <2>2, ManageOutboundsOutcomes
  <2> QED
    BY <1>2, <2>3
<1>5. CASE /\ c.method = "ListOutbounds"
           /\ o.node = node /\ o.reply.status = StatusOK
  BY <1>1, <1>5, ToldOfSuccess DEF Adds, Removes
<1>6. CASE c.method = "AddOutbound" /\ same # {} /\ Fails(node, o, Exists)
  BY <1>1, <1>3, <1>6, ToldOfFailure DEF Fails
<1>7. CASE /\ c.method = "AddOutbound" /\ same = {}
           /\ Succeeds(o, node.inbounds, node.outbounds \cup {new},
                       node.users, node.rules, node.override, node.counters)
  <2>1. o.node.outbounds = node.outbounds \cup {new} /\ o.reply.status = StatusOK
    BY <1>7 DEF Succeeds, NodeIs
  <2>2. Tagged(o.node.outbounds, in.tag) = {new}
    BY <1>7, <2>1 DEF Tagged
  <2>3. \A what \in Added(o.node, in) : what = WhatOf(in)
    BY <1>1, <1>3, <1>7, <2>2
  <2> QED
    BY <1>1, <1>3, <1>7, <2>1, <2>2, <2>3, ToldOfSuccess DEF Removes
<1>8. CASE c.method = "RemoveOutbound" /\ same = {} /\ Fails(node, o, Missing)
  BY <1>1, <1>3, <1>8, ToldOfFailure DEF Fails
<1>9. CASE /\ c.method = "RemoveOutbound" /\ same # {}
           /\ Succeeds(o, node.inbounds, node.outbounds \ same,
                       node.users, node.rules, node.override, node.counters)
  <2>1. o.node.outbounds = node.outbounds \ same /\ o.reply.status = StatusOK
    BY <1>9 DEF Succeeds, NodeIs
  <2>2. Tagged(o.node.outbounds, in.tag) = {}
    BY <2>1 DEF Tagged
  <2> QED
    BY <1>1, <1>3, <1>9, <2>1, <2>2, ToldOfSuccess DEF Adds
<1> QED
  BY <1>4, <1>5, <1>6, <1>7, <1>8, <1>9

(* Counters and system figures: reading them adds and removes nothing.     *)
LEMMA ToldByReadStats ==
  ASSUME NEW node, NodeOK(node), NEW in, RequestOK(in),
         CallOf(in).method \in {"GetStats", "QueryStats", "GetUsersStats"},
         NEW o \in ReadStats(node, CallOf(in))
  PROVE  Told(node, o, in)
<1> DEFINE c == CallOf(in)
<1>1. /\ c.method = "GetStats" <=> in.op = "get_stat"
      /\ in.op \notin Adds \cup Removes \cup {"override_balancer"}
  BY MethodTells DEF Adds, Removes
<1>2. in.op = "get_stat" =>
        /\ c.id = in.id
        /\ There(node, in) = (in.id \in DOMAIN node.counters)
  BY CallFields, ThereIs
<1> HIDE DEF c
<1>3. \/ /\ c.method = "GetStats" /\ c.id \notin DOMAIN node.counters
         /\ Fails(node, o, Missing)
      \/ /\ o.reply.status = StatusOK
         /\ c.method = "GetStats" => c.id \in DOMAIN node.counters
  <2>1. CallOK(c) /\ c.method \in {"GetStats", "QueryStats", "GetUsersStats"}
    BY CallOfOK DEF c
  <2>2. o \in ReadStats(node, c)
    BY DEF c
  <2> QED
    BY <2>1, <2>2, ReadStatsOutcomes
<1>4. CASE /\ c.method = "GetStats" /\ c.id \notin DOMAIN node.counters
           /\ Fails(node, o, Missing)
  BY <1>1, <1>2, <1>4, ToldOfFailure DEF Fails
<1>5. CASE /\ o.reply.status = StatusOK
           /\ c.method = "GetStats" => c.id \in DOMAIN node.counters
  BY <1>1, <1>2, <1>5, ToldOfSuccess
<1> QED
  BY <1>3, <1>4, <1>5

(* The same of rules, balancers and the logger.                            *)
LEMMA ToldByManageRouting ==
  ASSUME NEW node, NodeOK(node), NEW in, RequestOK(in),
         CallOf(in).method \in {"ListRule", "RemoveRule", "GetBalancerInfo",
                                "OverrideBalancerTarget"},
         NEW o \in ManageRouting(node, CallOf(in))
  PROVE  Told(node, o, in)
<1> DEFINE c == CallOf(in)
<1>1. /\ c.method = "RemoveRule" <=> in.op = "remove_rule"
      /\ c.method = "OverrideBalancerTarget" <=> in.op = "override_balancer"
      /\ in.op \notin Adds /\ in.op # "get_stat"
      /\ in.op \in Removes => in.op = "remove_rule"
  BY MethodTells DEF Adds, Removes
<1>2. /\ c.tag = in.tag
      /\ in.op = "override_balancer" => c.id = in.id
      /\ in.op = "remove_rule" =>
           /\ There(node, in) = (in.tag \in node.rules)
           /\ There(o.node, in) = (in.tag \in o.node.rules)
      /\ in.op = "override_balancer" =>
           There(o.node, in) = (o.node.override[in.tag] = in.id)
  BY CallFields, ThereIs
<1>3. CallOK(c)
  BY CallOfOK
<1> HIDE DEF c
<1>4. \/ /\ c.method \in {"ListRule", "GetBalancerInfo"}
         /\ o.node = node /\ o.reply.status = StatusOK
      \/ /\ c.method = "RemoveRule" /\ c.tag \notin node.rules
         /\ Fails(node, o, Missing)
      \/ /\ c.method = "RemoveRule" /\ c.tag \in node.rules
         /\ Succeeds(o, node.inbounds, node.outbounds, node.users,
                     node.rules \ {c.tag}, node.override, node.counters)
      \/ /\ c.method = "OverrideBalancerTarget"
         /\ Succeeds(o, node.inbounds, node.outbounds, node.users,
                     node.rules, [node.override EXCEPT ![c.tag] = c.id],
                     node.counters)
  <2>1. /\ c.method \in {"ListRule", "RemoveRule", "GetBalancerInfo",
                         "OverrideBalancerTarget"}
        /\ o \in ManageRouting(node, c)
    BY DEF c
  <2> QED
    BY <1>3, <2>1, ManageRoutingOutcomes
<1>5. CASE /\ c.method \in {"ListRule", "GetBalancerInfo"}
           /\ o.node = node /\ o.reply.status = StatusOK
  BY <1>1, <1>5, ToldOfSuccess
<1>6. CASE /\ c.method = "RemoveRule" /\ c.tag \notin node.rules
           /\ Fails(node, o, Missing)
  BY <1>1, <1>2, <1>6, ToldOfFailure DEF Fails
<1>7. CASE /\ c.method = "RemoveRule" /\ c.tag \in node.rules
           /\ Succeeds(o, node.inbounds, node.outbounds, node.users,
                       node.rules \ {c.tag}, node.override, node.counters)
  <2>1. o.node.rules = node.rules \ {c.tag} /\ o.reply.status = StatusOK
    BY <1>7 DEF Succeeds, NodeIs
  <2> QED
    BY <1>1, <1>2, <1>7, <2>1, ToldOfSuccess
<1>8. CASE /\ c.method = "OverrideBalancerTarget"
           /\ Succeeds(o, node.inbounds, node.outbounds, node.users,
                       node.rules, [node.override EXCEPT ![c.tag] = c.id],
                       node.counters)
  <2>1. /\ o.node.override = [node.override EXCEPT ![c.tag] = c.id]
        /\ o.reply.status = StatusOK
    BY <1>8 DEF Succeeds, NodeIs
  <2>2. c.tag \in Id /\ node.override \in [Id -> Listed]
    BY <1>3, <1>8 DEF CallOK, NodeOK
  <2>3. o.node.override[in.tag] = in.id
    BY <1>1, <1>2, <1>8, <2>1, <2>2
  <2> QED
    BY <1>1, <1>2, <1>8, <2>1, <2>3, ToldOfSuccess
<1> QED
  BY <1>4, <1>5, <1>6, <1>7, <1>8

(* What the reply of a node says of what the request named is true: absent *)
(* before a 404, there before a 409, and done by a success.                *)
LEMMA CallTells ==
  ASSUME NEW node, NodeOK(node), NEW token, NEW in, RequestOK(in),
         NEW o \in Exec(node, token, CallOf(in))
  PROVE  Told(node, o, in)
<1> DEFINE c == CallOf(in)
<1>1. c.method \in Method
  BY CallOfOK DEF CallOK
<1>2. CASE o \in Refuse(node, RefusalErrors)
  <2>1. o.node = node /\ o.reply.status \in RefusalErrors
    BY <1>2 DEF Refuse
  <2> QED
    BY <2>1, ToldOfFailure
<1>3. CASE /\ c.method \in {"AddUser", "RemoveUser"}
           /\ o \in AlterInbound(node, c)
  BY <1>3, ToldByAlterInbound
<1>4. CASE /\ c.method \in {"ListInbounds", "AddInbound", "RemoveInbound"}
           /\ o \in ManageInbounds(node, c)
  BY <1>4, ToldByManageInbounds
<1>5. CASE /\ c.method \in {"ListOutbounds", "AddOutbound", "RemoveOutbound"}
           /\ o \in ManageOutbounds(node, c)
  BY <1>5, ToldByManageOutbounds
<1>6. CASE /\ c.method \in {"GetStats", "QueryStats", "GetUsersStats"}
           /\ o \in ReadStats(node, c)
  BY <1>6, ToldByReadStats
<1>7. CASE /\ c.method \in {"ListRule", "RemoveRule", "GetBalancerInfo",
                            "OverrideBalancerTarget"}
           /\ o \in ManageRouting(node, c)
  BY <1>7, ToldByManageRouting
<1>8. ASSUME c.method \in {"TestRoute", "GetSysStats", "GetAllOnlineUsers",
                           "RestartLogger"},
             NEW payload, o \in Success(node, payload)
      PROVE  Told(node, o, in)
  <2>1. in.op \notin Adds \cup Removes \cup {"get_stat", "override_balancer"}
    BY <1>8, MethodTells DEF Adds, Removes
  <2>2. o.reply.status = StatusOK
    BY <1>8 DEF Success
  <2> QED
    BY <2>1, <2>2, ToldOfSuccess
<1> HIDE DEF c
<1>9. o \in Exec(node, token, c)
  BY DEF c
<1>10. CASE c.method = "TestRoute" /\ o \in Success(node, Items({c.what}))
  BY <1>8, <1>10
<1>11. CASE /\ c.method \in {"GetSysStats", "GetAllOnlineUsers", "RestartLogger"}
            /\ o \in Success(node, {})
  BY <1>8, <1>11
<1> QED
  BY <1>1, <1>2, <1>3, <1>4, <1>5, <1>6, <1>7, <1>9, <1>10, <1>11, ExecCases

-----------------------------------------------------------------------------
(* What answers are made of.                                               *)

(* OK does not tell that something is absent.                              *)
LEMMA OKIsNotAbsent == ~IsNotFound(StatusOK)
BY HttpOfOK, HttpOfStatus

(* The answer for a call that succeeded.                                   *)
LEMMA FinishOfSuccess ==
  ASSUME NEW in, NEW rep, rep.status = StatusOK
  PROVE  /\ Finish(in, rep).http = IF in.op \in Adds THEN 201 ELSE 200
         /\ Finish(in, rep).body = BodyOf(in, rep.payload)
         /\ ~Finish(in, rep).note
<1> DEFINE a == Finish(in, rep)
           http == IF in.op \in Adds THEN 201 ELSE 200
           code == ""
           body == BodyOf(in, rep.payload)
<1>1. a = Answer(http, code, body, FALSE)
  BY OKIsNotAbsent DEF Finish
<1> HIDE DEF a, http, code, body
<1>2. a.http = http
  BY <1>1 DEF Answer
<1>3. a.body = body
  BY <1>1 DEF Answer
<1>4. ~a.note
  BY <1>1 DEF Answer
<1> QED
  BY <1>2, <1>3, <1>4 DEF a, http, body

(* Absence is no error for in.                                             *)
Ignored(in) == in.op = "get_stat" \/ (in.op = "remove_user" /\ in.flag)

(* The answer where what is absent may be.                                 *)
LEMMA FinishOfAbsence ==
  ASSUME NEW in, NEW rep, rep.status # StatusOK, IsNotFound(rep.status),
         Ignored(in)
  PROVE  /\ Finish(in, rep).http = 200
         /\ in.op = "remove_user" => Finish(in, rep).note
         /\ in.op = "get_stat" => Finish(in, rep).body = {Item(in.id, 0)}
<1> DEFINE a == Finish(in, rep)
           http == 200
           code == ""
           zero == {Item(in.id, 0)}
           none == {}
<1>1. CASE in.op = "get_stat"
  <2>1. a = Answer(http, code, zero, FALSE)
    BY <1>1 DEF Finish
  <2> HIDE DEF a, http, code, zero
  <2>2. a.http = http
    BY <2>1 DEF Answer
  <2>3. a.body = zero
    BY <2>1 DEF Answer
  <2> QED
    BY <1>1, <2>2, <2>3 DEF a, http, zero
<1>2. CASE in.op = "remove_user" /\ in.flag
  <2>1. a = Answer(http, code, none, TRUE)
    BY <1>2 DEF Finish
  <2> HIDE DEF a, http, code, none
  <2>2. a.http = http
    BY <2>1 DEF Answer
  <2>3. a.note
    BY <2>1 DEF Answer
  <2> QED
    BY <1>2, <2>2, <2>3 DEF a, http
<1> QED
  BY <1>1, <1>2 DEF Ignored

(* The answer for any other error.                                         *)
LEMMA FinishOfError ==
  ASSUME NEW in, NEW rep, rep.status # StatusOK,
         ~(IsNotFound(rep.status) /\ Ignored(in))
  PROVE  /\ Finish(in, rep) = Grpc(rep.status)
         /\ Finish(in, rep).http = GrpcCodeToHttp(rep.status)
<1>1. Finish(in, rep) = Grpc(rep.status)
  BY DEF Finish, Ignored
<1>2. Grpc(rep.status).http = GrpcCodeToHttp(rep.status)
  BY DEF Grpc, ErrorAnswer, Answer
<1> QED
  BY <1>1, <1>2

(* The wire keeps the status, and all of it but for HEAD.                  *)
LEMMA ToClientIs ==
  ASSUME NEW m, NEW a
  PROVE  /\ ToClient(m, a).http = a.http
         /\ m # "HEAD" => ToClient(m, a) = a
         /\ m = "HEAD" => ~ToClient(m, a).note
<1> DEFINE http == a.http
           code == ""
           body == {}
<1>1. CASE m = "HEAD"
  <2>1. ToClient(m, a) = Answer(http, code, body, FALSE)
    BY <1>1 DEF ToClient
  <2> HIDE DEF http, code, body
  <2>2. ToClient(m, a).http = http /\ ToClient(m, a).note = FALSE
    BY <2>1 DEF Answer
  <2> QED
    BY <1>1, <2>2 DEF http
<1>2. CASE m # "HEAD"
  BY <1>2 DEF ToClient
<1> QED
  BY <1>1, <1>2

(* HEAD leaves the body out.                                               *)
LEMMA BodyToClient ==
  ASSUME NEW m, NEW a
  PROVE  ToClient(m, a).body = IF m = "HEAD" THEN {} ELSE a.body
<1> DEFINE http == a.http
           code == ""
           none == {}
<1>1. CASE m = "HEAD"
  <2>1. ToClient(m, a) = Answer(http, code, none, FALSE)
    BY <1>1 DEF ToClient
  <2> HIDE DEF http, code, none
  <2>2. ToClient(m, a).body = none
    BY <2>1 DEF Answer
  <2> QED
    BY <1>1, <2>2 DEF none
<1>2. CASE m # "HEAD"
  BY <1>2 DEF ToClient
<1> QED
  BY <1>1, <1>2

(* The statuses of what is answered without a call.                        *)
LEMMA RefusalStatuses ==
  /\ Unauthenticated.http = 401 /\ InvalidArgument.http = 400
  /\ UnprocessableEntity.http = 422 /\ Internal.http = 500
  /\ \A http : PlainError(http).http = http
  /\ RouterAnswer["not_found"].http = 404
  /\ RouterAnswer["method_not_allowed"].http = 405
  /\ RouterAnswer["healthz"].http = 200
BY DEF Unauthenticated, InvalidArgument, UnprocessableEntity, Internal,
     PlainError, ErrorAnswer, Answer, RouterAnswer

(* The answer a to in, for which no call was made.                         *)
AnswerWithoutCall(in, a) ==
  /\ a.http \in {200, 400, 401, 404, 405, 413, 415, 422, 500}
  /\ a.http = 200 => in.op = "healthz"
  /\ a.http = 404 => in.op = "not_found"

(* The answer a of a task in phase ph, for input in, whose call was made   *)
(* with client s and got the reply rep.                                    *)
Concluded(ph, in, s, rep, a) ==
  ph = "done" =>
    IF s = NoClient THEN AnswerWithoutCall(in, a)
    ELSE rep # Nothing /\ a = ToClient(in.method, Finish(in, rep))

(* What was recorded of the execution of the call for in, which the node   *)
(* answered with status.                                                   *)
SeenOK(in, status, s) ==
  /\ status # StatusOK => ~s.changed /\ s.after = s.before
  /\ GrpcCodeToHttp(status) = 404 => ~s.before
  /\ GrpcCodeToHttp(status) = 409 => s.before
  /\ in.op \in {"get_stat", "remove_user"} /\ ~s.before =>
       status \in RefusalErrors \cup Missing
  /\ status = StatusOK =>
       /\ in.op \in Adds =>
            ~s.before /\ s.after /\ \A what \in s.added : what = WhatOf(in)
       /\ in.op \in Removes => s.before /\ ~s.after
       /\ in.op = "override_balancer" => s.after

(* The answer body of a success shows what there was to see at the node.   *)
Shows(in, body, shown) ==
  in.op \in Reads =>
    IF in.op = "list_users" THEN shown \subseteq body ELSE body = shown

(* What was recorded of it, of what there was to see before, where the     *)
(* node's reply was rep.                                                   *)
ShownOK(in, rep, s) ==
  /\ rep.status = StatusOK => Shows(in, BodyOf(in, rep.payload), s.shown)
  /\ in.op = "get_stat" /\ ~s.before => s.shown = {Item(in.id, 0)}

(* Both.                                                                   *)
Recorded(in, rep, s) == SeenOK(in, rep.status, s) /\ ShownOK(in, rep, s)

(* What an answer and the record of an execution say, of every request.    *)
AInv ==
  \A r \in Request :
    /\ Concluded(phase[r], input[r], sent[r], reply[r], resp[r])
    /\ wire[r] = "executed" => Recorded(input[r], back[r], seen[r])

(* What makes AInv of r is left alone.                                     *)
Same(r) ==
  /\ phase'[r] = phase[r] /\ input'[r] = input[r] /\ sent'[r] = sent[r]
  /\ reply'[r] = reply[r] /\ resp'[r] = resp[r] /\ wire'[r] = wire[r]
  /\ back'[r] = back[r] /\ seen'[r] = seen[r]

(* A step of one request.                                                  *)
LEMMA AStep ==
  ASSUME AInv, NEW r \in Request, \A q \in Request \ {r} : Same(q),
         Concluded(phase'[r], input'[r], sent'[r], reply'[r], resp'[r]),
         wire'[r] = "executed" => Recorded(input'[r], back'[r], seen'[r])
  PROVE  AInv'
BY DEF AInv, Same

(* A step that leaves calls alone and ends without an answer.              *)
LEMMA QuietStep ==
  ASSUME AInv, NEW r \in Request, \A q \in Request \ {r} : Same(q),
         phase'[r] # "done",
         wire'[r] = "executed" =>
           /\ wire[r] = "executed" /\ input'[r] = input[r]
           /\ back'[r] = back[r] /\ seen'[r] = seen[r]
  PROVE  AInv'
<1>1. Concluded(phase'[r], input'[r], sent'[r], reply'[r], resp'[r])
  BY DEF Concluded
<1>2. wire'[r] = "executed" => Recorded(input'[r], back'[r], seen'[r])
  BY DEF AInv
<1> QED
  BY <1>1, <1>2, AStep

(* A handler that answers without a call.                                  *)
LEMMA RefusalStep ==
  ASSUME IInv, AInv, NEW r \in Request, NEW a,
         phase[r] \in {"arrived", "handler"}, AnswerWith(r, a),
         UNCHANGED <<input, calls, seen>>, AnswerWithoutCall(input[r], a)
  PROVE  AInv'
<1>1. \A q \in Request \ {r} : Same(q)
  BY DEF IInv, Types, AnswerWith, calls, Same
<1>2. /\ phase'[r] = "done" /\ resp'[r] = ToClient(input[r].method, a)
      /\ input'[r] = input[r] /\ sent'[r] = sent[r] /\ sent[r] = NoClient
      /\ wire'[r] = wire[r] /\ back'[r] = back[r] /\ seen'[r] = seen[r]
  BY DEF IInv, Types, TaskOK, AnswerWith, calls
<1>3. AnswerWithoutCall(input[r], ToClient(input[r].method, a))
  BY ToClientIs DEF AnswerWithoutCall
<1>4. Concluded(phase'[r], input'[r], sent'[r], reply'[r], resp'[r])
  BY <1>2, <1>3 DEF Concluded
<1>5. wire'[r] = "executed" => Recorded(input'[r], back'[r], seen'[r])
  BY <1>2 DEF AInv
<1> QED
  BY <1>1, <1>4, <1>5, AStep

(* The extractors turn a request down before any call, or say nothing.     *)
LEMMA ExtractAnswers ==
  ASSUME IInv, AInv, NEW r \in Request, Extract(r)
  PROVE  AInv'
<1>1. /\ phase[r] = "arrived" /\ UNCHANGED <<input, calls, seen>>
  BY DEF Extract, world
<1>2. CASE AnswerUnrouted(r)
  <2>1. /\ input[r].op \in {"not_found", "method_not_allowed", "healthz"}
        /\ AnswerWith(r, RouterAnswer[input[r].op])
    BY <1>2, OpNames DEF AnswerUnrouted
  <2>2. AnswerWithoutCall(input[r], RouterAnswer[input[r].op])
    BY <2>1, RefusalStatuses DEF AnswerWithoutCall
  <2> QED
    BY <1>1, <2>1, <2>2, RefusalStep
<1>3. CASE MissingHeader(r)
  <2>1. AnswerWithoutCall(input[r], InvalidArgument)
    BY RefusalStatuses DEF AnswerWithoutCall
  <2> QED
    BY <1>1, <1>3, <2>1, RefusalStep DEF MissingHeader
<1>4. CASE FromRequestParts(r)
  <2> DEFINE in == input[r]
  <2>1. PICK o \in GetOrCreate(cache, Live, KeyOf(in), in.name) :
          /\ cache' = o.cache
          /\ CASE o.client = NoClient -> AnswerWith(r, Internal)
               [] o.client # NoClient /\ ~in.params ->
                    AnswerWith(r, PlainError(400))
               [] o.client # NoClient /\ in.params /\ ~Authorized(in) ->
                    AnswerWith(r, Unauthenticated)
               [] OTHER -> /\ phase' = [phase EXCEPT ![r] = "handler"]
                           /\ held' = [held EXCEPT ![r] = o.client]
                           /\ UNCHANGED resp
    BY <1>4 DEF FromRequestParts
  <2>2. in.params \in BOOLEAN
    BY <1>1, InputKnown
  <2>3. \/ \E a \in {Internal, PlainError(400), Unauthenticated} :
             AnswerWith(r, a)
        \/ phase' = [phase EXCEPT ![r] = "handler"] /\ UNCHANGED resp
    BY <2>1, <2>2
  <2>4. ASSUME NEW a \in {Internal, PlainError(400), Unauthenticated},
               AnswerWith(r, a)
        PROVE  AInv'
    <3>1. AnswerWithoutCall(in, a)
      BY RefusalStatuses DEF AnswerWithoutCall
    <3> QED
      BY <1>1, <2>4, <3>1, RefusalStep
  <2>5. ASSUME phase' = [phase EXCEPT ![r] = "handler"], UNCHANGED resp
        PROVE  AInv'
    <3>1. \A q \in Request \ {r} : Same(q)
      BY <1>1, <2>5 DEF IInv, Types, calls, Same
    <3>2. /\ phase'[r] = "handler" /\ input'[r] = input[r]
          /\ wire'[r] = wire[r] /\ back'[r] = back[r] /\ seen'[r] = seen[r]
      BY <1>1, <2>5 DEF IInv, Types, calls
    <3> QED
      BY <3>1, <3>2, QuietStep
  <2> QED
    BY <2>3, <2>4, <2>5
<1> QED
  BY <1>2, <1>3, <1>4 DEF Extract

(* A handler rejects the body before any call, or waits for one.           *)
LEMMA RunHandlerAnswers ==
  ASSUME IInv, AInv, NEW r \in Request, RunHandler(r)
  PROVE  AInv'
<1>1. /\ phase[r] = "handler" /\ UNCHANGED <<input, back, reply, seen>>
      /\ \/ Reject(r) /\ UNCHANGED <<sent, wire>>
         \/ /\ phase' = [phase EXCEPT ![r] = "waiting"]
            /\ Send(r)
            /\ UNCHANGED resp
  BY DEF RunHandler, world
<1>2. ASSUME Reject(r), UNCHANGED <<sent, wire>>
      PROVE  AInv'
  <2>1. PICK a \in Rejections(input[r]) : AnswerWith(r, a)
    BY <1>2 DEF Reject
  <2>2. RequestOK(input[r])
    BY <1>1, InputKnown DEF IInv, TaskOK, Admitted
  <2>3. a \in BodyRejections
    BY <2>1, <2>2, RejectionsMean DEF RequestOK
  <2>4. AnswerWithoutCall(input[r], a)
    BY <2>3, RefusalStatuses DEF AnswerWithoutCall, BodyRejections
  <2> QED
    BY <1>1, <1>2, <2>1, <2>4, RefusalStep DEF calls
<1>3. ASSUME phase' = [phase EXCEPT ![r] = "waiting"], Send(r), UNCHANGED resp
      PROVE  AInv'
  <2>1. \A q \in Request \ {r} : Same(q)
    BY <1>1, <1>3 DEF IInv, Types, Send, Same
  <2>2. phase'[r] = "waiting" /\ wire'[r] = "sent"
    BY <1>3 DEF IInv, Types, Send
  <2> QED
    BY <2>1, <2>2, QuietStep
<1> QED
  BY <1>1, <1>2, <1>3

(* A handler that has its reply answers what Finish makes of it.           *)
LEMMA ResumeAnswers ==
  ASSUME IInv, AInv, NEW r \in Request, Resume(r)
  PROVE  AInv'
<1>1. /\ phase[r] = "waiting" /\ reply[r] # Nothing
      /\ AnswerWith(r, Finish(input[r], reply[r]))
      /\ UNCHANGED <<input, calls, seen>>
  BY DEF Resume, world
<1>2. \A q \in Request \ {r} : Same(q)
  BY <1>1 DEF IInv, Types, AnswerWith, calls, Same
<1>3. /\ phase'[r] = "done" /\ sent[r] # NoClient
      /\ resp'[r] = ToClient(input[r].method, Finish(input[r], reply[r]))
      /\ input'[r] = input[r] /\ sent'[r] = sent[r] /\ reply'[r] = reply[r]
      /\ wire'[r] = wire[r] /\ back'[r] = back[r] /\ seen'[r] = seen[r]
  BY <1>1 DEF IInv, Types, TaskOK, AnswerWith, calls
<1>4. Concluded(phase'[r], input'[r], sent'[r], reply'[r], resp'[r])
  BY <1>1, <1>3 DEF Concluded
<1>5. wire'[r] = "executed" => Recorded(input'[r], back'[r], seen'[r])
  BY <1>3 DEF AInv
<1> QED
  BY <1>2, <1>4, <1>5, AStep

(* What there is to see for the handlers that read a node.                 *)
LEMMA ShownIs ==
  ASSUME NEW node, NEW in
  PROVE  /\ in.op = "list_inbounds" =>
              Shown(node, in) = Items({i.tag : i \in node.inbounds})
         /\ in.op = "list_outbounds" =>
              Shown(node, in) = Items({o.tag : o \in node.outbounds})
         /\ in.op = "list_rules" => Shown(node, in) = Items(node.rules)
         /\ in.op = "get_balancer" =>
              Shown(node, in) = Items({node.override[in.tag]})
         /\ in.op = "test_route" =>
              Shown(node, in) =
                Items({IF in.spec.network = "UDP" THEN "UDP" ELSE "TCP"})
         /\ in.op = "get_stat" =>
              Shown(node, in) =
                {Item(in.id, IF in.id \in DOMAIN node.counters
                             THEN node.counters[in.id] ELSE 0)}
         /\ in.op = "query_stats" =>
              Shown(node, in) = {Item(s, node.counters[s]) :
                                   s \in Matches[in.arg] \cap DOMAIN node.counters}
         /\ in.op = "get_users_stats" =>
              Shown(node, in) = {Item(s, node.counters[s]) :
                                   s \in UserStats \cap DOMAIN node.counters}
         /\ in.op = "list_users" =>
              Shown(node, in) =
                Items({IdPart[s] : s \in UserStats \cap DOMAIN node.counters})
<1>1. CASE in.op = "list_inbounds"
  BY <1>1 DEF Shown
<1>2. CASE in.op = "list_outbounds"
  BY <1>2 DEF Shown
<1>3. CASE in.op = "list_rules"
  BY <1>3 DEF Shown
<1>4. CASE in.op = "get_balancer"
  BY <1>4 DEF Shown
<1>5. CASE in.op = "test_route"
  BY <1>5 DEF Shown
<1>6. CASE in.op = "get_stat"
  BY <1>6 DEF Shown
<1>7. CASE in.op = "query_stats"
  BY <1>7 DEF Shown
<1>8. CASE in.op = "get_users_stats"
  BY <1>8 DEF Shown
<1>9. CASE in.op = "list_users"
  BY <1>9 DEF Shown
<1> QED
  BY <1>1, <1>2, <1>3, <1>4, <1>5, <1>6, <1>7, <1>8, <1>9

(* A counter that is not there counts as 0.                                *)
LEMMA NothingShown ==
  ASSUME NEW node, NEW in, in.op = "get_stat", ~There(node, in)
  PROVE  Shown(node, in) = {Item(in.id, 0)}
<1>1. in.id \notin DOMAIN node.counters
  BY ThereIs
<1>2. Shown(node, in) = {Item(in.id, IF in.id \in DOMAIN node.counters
                                     THEN node.counters[in.id] ELSE 0)}
  BY ShownIs
<1> QED
  BY <1>1, <1>2

(* The call of each handler that reads a node.                             *)
LEMMA MethodReads ==
  ASSUME NEW in
  PROVE  /\ in.op = "list_inbounds" => CallOf(in).method = "ListInbounds"
         /\ in.op = "list_outbounds" => CallOf(in).method = "ListOutbounds"
         /\ in.op = "list_rules" => CallOf(in).method = "ListRule"
         /\ in.op = "get_balancer" => CallOf(in).method = "GetBalancerInfo"
         /\ in.op = "test_route" => CallOf(in).method = "TestRoute"
         /\ in.op = "get_stat" => CallOf(in).method = "GetStats"
         /\ in.op \in {"query_stats", "list_users"} =>
              CallOf(in).method = "QueryStats"
         /\ in.op = "get_users_stats" => CallOf(in).method = "GetUsersStats"
<1>1. CallOf(in).method = MethodOf[in.op]
  BY DEF CallOf
<1>2. CASE in.op \in HandlerOps
  BY <1>1, <1>2, MethodOfHandlers DEF HandlerOps
<1>3. CASE in.op \in StatsOps
  BY <1>1, <1>3, MethodOfStats DEF StatsOps
<1>4. CASE in.op \in RoutingAndLoggerOps
  BY <1>1, <1>4, MethodOfRoutingAndLogger DEF RoutingAndLoggerOps
<1> QED
  BY <1>2, <1>3, <1>4 DEF HandlerOps, StatsOps, RoutingAndLoggerOps

(* A node that carries out a call has accepted it.                         *)
LEMMA CarriedOut ==
  ASSUME NEW node, NEW token, NEW c, c.method \in Method,
         NEW o \in Exec(node, token, c), o.reply.status = StatusOK
  PROVE  o \notin Refuse(node, RefusalErrors)
BY NodeAssumption DEF Refuse, TellsNeither

(* The reply of a success tells what it is given.                          *)
LEMMA PayloadOfSuccess ==
  ASSUME NEW node, NEW payload, NEW o \in Success(node, payload)
  PROVE  o.reply.payload = payload
BY DEF Success

(* Most answers show the reply as it is.                                   *)
LEMMA BodyIsPayload ==
  ASSUME NEW in, in.op \notin {"list_users", "get_stat"}, NEW payload
  PROVE  BodyOf(in, payload) = payload
BY DEF BodyOf

(* The handlers that list a table of the node, or its choice for one.      *)
LEMMA TableShown ==
  ASSUME NEW node, NEW token, NEW in, RequestOK(in),
         NEW o \in Exec(node, token, CallOf(in)), o.reply.status = StatusOK,
         in.op \in {"list_inbounds", "list_outbounds", "list_rules",
                    "get_balancer", "test_route"}
  PROVE  o.reply.payload = Shown(node, in)
<1> DEFINE c == CallOf(in)
<1>1. c.method \in Method /\ c.tag = in.tag /\ c.what = WhatOf(in)
  BY CallOfOK, CallFields DEF CallOK
<1>2. /\ in.op = "list_inbounds" => c.method = "ListInbounds"
      /\ in.op = "list_outbounds" => c.method = "ListOutbounds"
      /\ in.op = "list_rules" => c.method = "ListRule"
      /\ in.op = "get_balancer" => c.method = "GetBalancerInfo"
      /\ in.op = "test_route" => c.method = "TestRoute"
  BY MethodReads
<1> HIDE DEF c
<1>3. /\ o \in Exec(node, token, c)
      /\ o \notin Refuse(node, RefusalErrors)
  BY <1>1, CarriedOut DEF c
<1>4. CASE in.op = "list_inbounds"
  <2>1. o \in ManageInbounds(node, c)
    BY <1>1, <1>2, <1>3, <1>4, ExecCases
  <2>2. o \in Success(node, Items({i.tag : i \in node.inbounds}))
    BY <1>2, <1>4, <2>1 DEF ManageInbounds
  <2> QED
    BY <1>4, <2>2, PayloadOfSuccess, ShownIs
<1>5. CASE in.op = "list_outbounds"
  <2>1. o \in ManageOutbounds(node, c)
    BY <1>1, <1>2, <1>3, <1>5, ExecCases
  <2>2. o \in Success(node, Items({i.tag : i \in node.outbounds}))
    BY <1>2, <1>5, <2>1 DEF ManageOutbounds
  <2> QED
    BY <1>5, <2>2, PayloadOfSuccess, ShownIs
<1>6. CASE in.op = "list_rules"
  <2>1. o \in ManageRouting(node, c)
    BY <1>1, <1>2, <1>3, <1>6, ExecCases
  <2>2. o \in Success(node, Items(node.rules))
    BY <1>2, <1>6, <2>1 DEF ManageRouting
  <2> QED
    BY <1>6, <2>2, PayloadOfSuccess, ShownIs
<1>7. CASE in.op = "get_balancer"
  <2>1. o \in ManageRouting(node, c)
    BY <1>1, <1>2, <1>3, <1>7, ExecCases
  <2>2. o \in Success(node, Items({node.override[in.tag]}))
    BY <1>1, <1>2, <1>7, <2>1 DEF ManageRouting
  <2> QED
    BY <1>7, <2>2, PayloadOfSuccess, ShownIs
<1>8. CASE in.op = "test_route"
  <2>1. o \in Success(node, Items({c.what}))
    BY <1>1, <1>2, <1>3, <1>8, ExecCases
  <2>2. c.what = IF in.spec.network = "UDP" THEN "UDP" ELSE "TCP"
    BY <1>1, <1>8 DEF WhatOf, NetworkOf
  <2> QED
    BY <1>8, <2>1, <2>2, PayloadOfSuccess, ShownIs
<1> QED
  BY <1>4, <1>5, <1>6, <1>7, <1>8

(* The figures of a reply, to the handlers that read some.                 *)
LEMMA FiguresRead ==
  ASSUME NEW node, NodeOK(node), NEW token, NEW in, RequestOK(in),
         NEW o \in Exec(node, token, CallOf(in)), o.reply.status = StatusOK,
         in.op \in {"get_stat", "query_stats", "get_users_stats", "list_users"}
  PROVE  /\ in.op = "get_stat" => in.id \in DOMAIN node.counters
         /\ o.reply.payload = {Item(s, node.counters[s]) :
                                 s \in NamesRead(CallOf(in)) \cap
                                         DOMAIN node.counters}
<1> DEFINE c == CallOf(in)
<1>1. CallOK(c) /\ c.method \in Method
  BY CallOfOK DEF CallOK
<1>2. /\ in.op = "get_stat" => c.method = "GetStats" /\ c.id = in.id
      /\ c.method \in {"GetStats", "QueryStats", "GetUsersStats"}
  BY MethodReads, CallFields
<1>3. /\ o \in Exec(node, token, c)
      /\ o \notin Refuse(node, RefusalErrors)
  BY <1>1, CarriedOut
<1> HIDE DEF c
<1>4. o \in ReadStats(node, c)
  BY <1>1, <1>2, <1>3, ExecCases
<1>5. ~Fails(node, o, Missing)
  BY AbsenceAndPresence DEF Fails
<1>6. /\ c.method = "GetStats" => c.id \in DOMAIN node.counters
      /\ o.reply.payload =
           {Item(s, node.counters[s]) : s \in NamesRead(c) \cap DOMAIN node.counters}
  BY <1>1, <1>2, <1>4, <1>5, ReadStatsOutcomes
<1> QED
  BY <1>2, <1>6 DEF c

(* What the handlers make of it.                                           *)
LEMMA FiguresShown ==
  ASSUME NEW node, NodeOK(node), NEW token, NEW in, RequestOK(in),
         NEW o \in Exec(node, token, CallOf(in)), o.reply.status = StatusOK,
         in.op = "query_stats" => in.id = in.arg,
         in.op \in {"get_stat", "query_stats", "get_users_stats", "list_users"}
  PROVE  Shows(in, BodyOf(in, o.reply.payload), Shown(node, in))
<1> DEFINE payload == o.reply.payload
           known == DOMAIN node.counters
<1>1. /\ in.op = "get_stat" => in.id \in known
      /\ payload = {Item(s, node.counters[s]) :
                      s \in NamesRead(CallOf(in)) \cap known}
  BY FiguresRead
<1>2. NamesRead(CallOf(in)) =
        CASE in.op = "get_stat" -> {in.id}
          [] in.op = "query_stats" -> Matches[in.id]
          [] in.op = "list_users" -> Matches[AllUsers]
          [] in.op = "get_users_stats" -> UserStats
  <2>1. CallOf(in).id = IF in.op = "list_users" THEN AllUsers ELSE in.id
    BY CallFields DEF IdOf
  <2>2. CASE in.op = "get_stat"
    BY <2>1, <2>2, MethodReads DEF NamesRead
  <2>3. CASE in.op \in {"query_stats", "list_users"}
    <3>1. CallOf(in).method = "QueryStats"
      BY <2>3, MethodReads
    <3>2. NamesRead(CallOf(in)) = Matches[CallOf(in).id]
      BY <3>1 DEF NamesRead
    <3> QED
      BY <2>1, <2>3, <3>2
  <2>4. CASE in.op = "get_users_stats"
    <3>1. CallOf(in).method = "GetUsersStats"
      BY <2>4, MethodReads
    <3>2. NamesRead(CallOf(in)) = UserStats
      BY <3>1 DEF NamesRead
    <3> QED
      BY <2>4, <3>2
  <2> QED
    BY <2>2, <2>3, <2>4
<1> HIDE DEF payload
<1>3. CASE in.op = "get_stat"
  <2>1. NamesRead(CallOf(in)) \cap known = {in.id}
    BY <1>1, <1>2, <1>3
  <2>2. payload = {Item(in.id, node.counters[in.id])}
    BY <1>1, <2>1
  <2>3. BodyOf(in, payload) = {Item(in.id, i.value) : i \in payload}
    BY <1>3 DEF BodyOf
  <2>4. BodyOf(in, payload) = {Item(in.id, node.counters[in.id])}
    BY <2>2, <2>3 DEF Item
  <2>5. Shown(node, in) = {Item(in.id, node.counters[in.id])}
    BY <1>1, <1>3, ShownIs
  <2> QED
    BY <1>3, <2>4, <2>5 DEF Shows, payload
<1>4. CASE in.op \in {"query_stats", "get_users_stats"}
  <2>1. payload = Shown(node, in)
    BY <1>1, <1>2, <1>4, ShownIs
  <2> QED
    BY <1>4, <2>1, BodyIsPayload DEF Shows, payload
<1>5. CASE in.op = "list_users"
  <2>1. BodyOf(in, payload) = Items({IdPart[i.id] : i \in payload} \ {NoId})
    BY <1>5 DEF BodyOf
  <2>2. \A s \in UserStats \cap known :
          IdPart[s] \in {IdPart[i.id] : i \in payload} \ {NoId}
    <3> TAKE s \in UserStats \cap known
    <3>1. s \in Matches[AllUsers] /\ IdPart[s] # NoId
      BY UsersAssumption
    <3>2. Item(s, node.counters[s]) \in payload
      BY <1>1, <1>2, <1>5, <3>1
    <3>3. Item(s, node.counters[s]).id = s
      BY DEF Item
    <3> QED
      BY <3>1, <3>2, <3>3
  <2>3. Items({IdPart[s] : s \in UserStats \cap known}) \subseteq
          Items({IdPart[i.id] : i \in payload} \ {NoId})
    BY <2>2 DEF Items
  <2> QED
    BY <1>5, <2>1, <2>3, ShownIs DEF Shows, payload
<1> QED
  BY <1>3, <1>4, <1>5

(* The answer to a success shows what the node had when it was asked.      *)
LEMMA CallShows ==
  ASSUME NEW node, NodeOK(node), NEW token, NEW in, RequestOK(in),
         in.op = "query_stats" => in.id = in.arg,
         NEW o \in Exec(node, token, CallOf(in)), o.reply.status = StatusOK
  PROVE  Shows(in, BodyOf(in, o.reply.payload), Shown(node, in))
<1>1. CASE in.op \in {"list_inbounds", "list_outbounds", "list_rules",
                      "get_balancer", "test_route"}
  BY <1>1, TableShown, BodyIsPayload DEF Shows
<1>2. CASE in.op \in {"get_stat", "query_stats", "get_users_stats",
                      "list_users"}
  BY <1>2, FiguresShown
<1>3. CASE in.op \notin Reads
  BY <1>3 DEF Shows
<1> QED
  BY <1>1, <1>2, <1>3 DEF Reads

(* The pattern of GET /v1/stats is its query's.                            *)
LEMMA PatternOfTask ==
  ASSUME IInv, NEW r \in Request, wire[r] # "none"
  PROVE  input[r].op = "query_stats" => input[r].id = input[r].arg
<1>1. PICK q \in Inputs : input[r] = Routed(q)
  BY CallOfTask DEF IInv, TaskOK
<1>2. DOMAIN q = RequestFields
  BY InputsAssumption
<1>3. /\ Routed(q).id = NameOf(Routed(q).op, q)
      /\ Routed(q).arg = q.arg
  BY <1>2, RoutedFields DEF RequestFields
<1> QED
  BY <1>1, <1>3 DEF NameOf

(* What a node tells of its execution is true of it.                       *)
LEMMA ExecuteAnswers ==
  ASSUME IInv, AInv, NEW r \in Request, Execute(r)
  PROVE  AInv'
<1> DEFINE at == AddressOf(sent[r])
           in == input[r]
<1>1. /\ wire[r] = "sent" /\ at \in Nodes
      /\ wire' = [wire EXCEPT ![r] = "executed"]
      /\ UNCHANGED <<cache, tasks, sent, reply, traffic, restarts>>
  BY DEF Execute
<1>2. /\ at = Target(in) /\ RequestOK(in)
  BY <1>1, CallOfTask
<1>3. PICK o \in Exec(nodes[at], sent[r].token, CallOf(in)) :
        /\ nodes' = [nodes EXCEPT ![at] = o.node]
        /\ back' = [back EXCEPT ![r] = o.reply]
  BY DEF Execute
<1>4. NodeOK(nodes[at]) /\ nodes = [a \in Nodes |-> nodes[a]]
  BY <1>1 DEF IInv, Types
<1>5. seen' = [seen EXCEPT ![r] =
                 IF Target(in) \in Nodes
                 THEN [before  |-> There(nodes[Target(in)], in),
                       after   |-> There(nodes'[Target(in)], in),
                       added   |-> Added(nodes'[Target(in)], in),
                       changed |-> nodes' # nodes,
                       shown   |-> Shown(nodes[Target(in)], in)]
                 ELSE Nothing]
  BY DEF Execute
<1> HIDE DEF at
<1>6. Told(nodes[at], o, in)
  BY <1>2, <1>3, <1>4, CallTells
<1>7. nodes'[at] = o.node /\ (o.node = nodes[at] => nodes' = nodes)
  BY <1>1, <1>3, <1>4
<1>8. seen'[r] = [before  |-> There(nodes[at], in),
                  after   |-> There(o.node, in),
                  added   |-> Added(o.node, in),
                  changed |-> nodes' # nodes,
                  shown   |-> Shown(nodes[at], in)]
  BY <1>1, <1>2, <1>5, <1>7 DEF IInv, Types
<1>9. /\ seen'[r].before = There(nodes[at], in)
      /\ seen'[r].after = There(o.node, in)
      /\ seen'[r].added = Added(o.node, in)
      /\ seen'[r].changed = (nodes' # nodes)
      /\ seen'[r].shown = Shown(nodes[at], in)
  BY <1>8
<1>10. SeenOK(in, o.reply.status, seen'[r])
  <2>1. ~(nodes' # nodes) => ~seen'[r].changed
    BY <1>9
  <2>2. o.reply.status # StatusOK =>
          ~seen'[r].changed /\ seen'[r].after = seen'[r].before
    BY <1>6, <1>7, <1>9, <2>1 DEF Told
  <2>3. /\ GrpcCodeToHttp(o.reply.status) = 404 => ~seen'[r].before
        /\ GrpcCodeToHttp(o.reply.status) = 409 => seen'[r].before
        /\ in.op \in {"get_stat", "remove_user"} /\ ~seen'[r].before =>
             o.reply.status \in RefusalErrors \cup Missing
    BY <1>6, <1>9 DEF Told
  <2>4. o.reply.status = StatusOK =>
          /\ in.op \in Adds =>
               /\ ~seen'[r].before /\ seen'[r].after
               /\ \A what \in seen'[r].added : what = WhatOf(in)
          /\ in.op \in Removes => seen'[r].before /\ ~seen'[r].after
          /\ in.op = "override_balancer" => seen'[r].after
    BY <1>6, <1>9 DEF Told
  <2> QED
    BY <2>2, <2>3, <2>4 DEF SeenOK
<1>11. ShownOK(in, o.reply, seen'[r])
  <2>1. in.op = "query_stats" => in.id = in.arg
    BY <1>1, PatternOfTask
  <2>2. o.reply.status = StatusOK =>
          Shows(in, BodyOf(in, o.reply.payload), Shown(nodes[at], in))
    BY <1>2, <1>3, <1>4, <2>1, CallShows
  <2>3. in.op = "get_stat" /\ ~There(nodes[at], in) =>
          Shown(nodes[at], in) = {Item(in.id, 0)}
    BY NothingShown
  <2> QED
    BY <1>9, <2>2, <2>3 DEF ShownOK
<1>12. /\ back'[r] = o.reply /\ input'[r] = in
  BY <1>1, <1>3 DEF IInv, Types, tasks
<1>13. \A q \in Request \ {r} : Same(q)
  BY <1>1, <1>3, <1>5 DEF IInv, Types, tasks, Same
<1>14. Concluded(phase'[r], input'[r], sent'[r], reply'[r], resp'[r])
  BY <1>1 DEF AInv, tasks
<1> HIDE DEF in
<1> QED
  BY <1>10, <1>12, <1>13, <1>14, <1>11, AStep DEF Recorded

(* A reply, from the node or of a broken connection, answers nothing yet.  *)
LEMMA ReplyAnswers ==
  ASSUME IInv, AInv, NEW r \in Request, ReplyArrives(r) \/ TransportFails(r)
  PROVE  AInv'
<1>1. /\ phase[r] = "waiting"
      /\ UNCHANGED <<phase, input, resp, sent, wire, back, seen>>
      /\ \A q \in Request \ {r} : reply'[q] = reply[q]
  BY DEF ReplyArrives, TransportFails, tasks, world, IInv, Types
<1>2. \A q \in Request \ {r} : Same(q)
  BY <1>1 DEF Same
<1> QED
  BY <1>1, <1>2, QuietStep

(* Neither does a client that asks or goes away.                           *)
LEMMA ClientStepAnswers ==
  ASSUME IInv, AInv, NEW r \in Request, ClientStep(r)
  PROVE  AInv'
<1>1. ASSUME NEW q \in Inputs, Arrive(r, q) PROVE AInv'
  <2>1. \A p \in Request \ {r} : Same(p)
    BY <1>1 DEF Arrive, IInv, Types, calls, world, Same
  <2>2. /\ phase[r] = "idle" /\ phase'[r] = "arrived" /\ wire'[r] = wire[r]
    BY <1>1 DEF Arrive, IInv, Types, calls
  <2>3. wire[r] # "executed"
    BY <2>2, CallOfTask
  <2> QED
    BY <2>1, <2>2, <2>3, QuietStep
<1>2. CASE Disconnect(r)
  <2>1. \A p \in Request \ {r} : Same(p)
    BY <1>2 DEF Disconnect, IInv, Types, calls, world, Same
  <2>2. /\ phase'[r] = "gone" /\ input'[r] = input[r] /\ wire'[r] = wire[r]
        /\ back'[r] = back[r] /\ seen'[r] = seen[r]
    BY <1>2 DEF Disconnect, IInv, Types, calls, world
  <2> QED
    BY <2>1, <2>2, QuietStep
<1> QED
  BY <1>1, <1>2 DEF ClientStep

(* A restart of the bridge drops its tasks and answers none.               *)
LEMMA RestartBridgeAnswers ==
  ASSUME AInv, RestartBridge
  PROVE  AInv'
<1>1. /\ phase' = [r \in Request |->
                     IF phase[r] \in Running THEN "gone" ELSE phase[r]]
      /\ UNCHANGED <<input, resp, sent, wire, back, reply, seen>>
  BY DEF RestartBridge, calls, world
<1>2. \A r \in Request : phase'[r] = "done" => phase[r] = "done"
  BY <1>1 DEF Running
<1> QED
  BY <1>1, <1>2 DEF AInv, Concluded

(* AInv is inductive, given IInv.                                          *)
LEMMA AnswersNext == IInv /\ AInv /\ [Next]_vars => AInv'
<1> SUFFICES ASSUME IInv, AInv, [Next]_vars PROVE AInv'
  OBVIOUS
<1>1. ASSUME NEW r \in Request,
             BridgeStep(r) \/ ClientStep(r) \/ NetworkStep(r)
      PROVE  AInv'
  <2>1. CASE BridgeStep(r)
    BY <2>1, ExtractAnswers, RunHandlerAnswers, ResumeAnswers DEF BridgeStep
  <2>2. CASE ClientStep(r)
    BY <2>2, ClientStepAnswers
  <2>3. CASE NetworkStep(r)
    BY <2>3, ExecuteAnswers, ReplyAnswers DEF NetworkStep
  <2> QED
    BY <1>1, <2>1, <2>2, <2>3
<1>2. ASSUME NEW a \in Nodes, NodeStep(a)
      PROVE  AInv'
  BY <1>2 DEF NodeStep, Restart, Traffic, tasks, calls, AInv
<1>3. CASE UNCHANGED vars
  BY <1>3 DEF vars, tasks, calls, world, AInv
<1> QED
  BY <1>1, <1>2, <1>3, RestartBridgeAnswers DEF Next

(* An answer is made of the reply to the request's own call, or of a       *)
(* refusal before any; and what was recorded of a call is what its reply   *)
(* says.                                                                   *)
THEOREM AnswersInvariant == Spec => [](IInv /\ AInv)
<1>1. Init => AInv
  BY DEF Init, AInv, Concluded
<1>2. IInv /\ AInv /\ [Next]_vars => AInv'
  BY AnswersNext
<1> QED
  BY <1>1, <1>2, Invariant, PTL DEF Spec


-----------------------------------------------------------------------------
(* What a request line asks for.                                           *)

(* A request gets to its handler by a route that fits its path, and its    *)
(* tag and id come from where that handler takes them.                     *)
LEMMA RoutedBy ==
  ASSUME NEW q \in Inputs
  PROVE  LET in == Routed(q) IN
         /\ in.path \in Seq({in.path[i] : i \in DOMAIN in.path})
         /\ in.tag = TagOf(in.op, in) /\ in.id = NameOf(in.op, in)
         /\ in.op \notin {"not_found", "method_not_allowed"} =>
              \E route \in Routes : /\ Fits(route, in.path)
                                    /\ route \in Matched(in.path)
                                    /\ route.method = ServedAs(in.method)
                                    /\ route.op = in.op
<1> DEFINE in == Routed(q)
<1>1. DOMAIN q = RequestFields /\ q.path \in Seq({q.path[i] : i \in DOMAIN q.path})
  BY InputsAssumption
<1>2. /\ in.op = OpFor(q.method, q.path)
      /\ in.tag = TagOf(OpFor(q.method, q.path), q)
      /\ in.id = NameOf(OpFor(q.method, q.path), q)
      /\ in.path = q.path /\ in.method = q.method /\ in.arg = q.arg
      /\ in.in_tag = q.in_tag /\ in.in_id = q.in_id
  BY <1>1, RoutedFields DEF RequestFields
<1> HIDE DEF in
<1>3. in.tag = TagOf(in.op, in) /\ in.id = NameOf(in.op, in)
  BY <1>2 DEF TagOf, NameOf
<1>4. in.op \notin {"not_found", "method_not_allowed"} =>
        \E route \in Routes : /\ Fits(route, in.path)
                              /\ route \in Matched(in.path)
                              /\ route.method = ServedAs(in.method)
                              /\ route.op = in.op
  BY <1>2, OpForRoute
<1>5. in.path \in Seq({in.path[i] : i \in DOMAIN in.path})
  BY <1>1, <1>2
<1> QED
  BY <1>3, <1>4, <1>5 DEF in

(* The health check has a path of its own, and no removal is a HEAD.       *)
LEMMA LineOfSuccess ==
  ASSUME NEW q \in Inputs
  PROVE  /\ Routed(q).op = "healthz" => Routed(q).path = <<"healthz">>
         /\ Routed(q).op = "remove_user" => Routed(q).method = "DELETE"
<1> DEFINE in == Routed(q)
<1> HIDE DEF in
<1>1. /\ in.path \in Seq({in.path[i] : i \in DOMAIN in.path})
      /\ in.op \notin {"not_found", "method_not_allowed"} =>
           \E route \in Routes : /\ Fits(route, in.path)
                                 /\ route.method = ServedAs(in.method)
                                 /\ route.op = in.op
  BY RoutedBy DEF in
<1>2. ASSUME in.op = "healthz" PROVE in.path = <<"healthz">>
  <2>1. PICK route \in Routes : Fits(route, in.path) /\ route.op = in.op
    BY <1>1, <1>2
  <2>2. route.last = "none" /\ route.prefix = <<"healthz">>
    BY <1>2, <2>1, RouteOfOp DEF At
  <2> QED
    BY <1>1, <2>1, <2>2, WholeFits
<1>3. ASSUME in.op = "remove_user" PROVE in.method = "DELETE"
  <2>1. PICK route \in Routes : /\ route.method = ServedAs(in.method)
                                /\ route.op = in.op
    BY <1>1, <1>3
  <2>2. route.method = "DELETE"
    BY <1>3, <2>1, RouteOfOp DEF At
  <2> QED
    BY <2>1, <2>2 DEF ServedAs
<1> QED
  BY <1>2, <1>3 DEF in


-----------------------------------------------------------------------------
(* What an answer says.                                                    *)

(* What is answered without a call: nothing was done, nor ever will be.    *)
Uncalled(r) ==
  /\ sent[r] = NoClient /\ execs[r] = 0
  /\ AnswerWithoutCall(input[r], resp[r])

(* The call broke with the connection.                                     *)
Broken(r) ==
  /\ \E s \in TransportErrors : resp[r] = ToClient(input[r].method, Grpc(s))
  /\ resp[r].http \in {500, 501, 502}

(* The node executed the call and replied.                                 *)
Replied(r) ==
  /\ wire[r] = "executed" /\ execs[r] = 1
  /\ Recorded(input[r], back[r], seen[r])

(* It did what the call asks.                                              *)
Achieved(r) ==
  /\ Replied(r) /\ back[r].status = StatusOK
  /\ resp[r].http = IF input[r].op \in Adds THEN 201 ELSE 200
  /\ resp[r].body = IF input[r].method = "HEAD" THEN {}
                    ELSE BodyOf(input[r], back[r].payload)
  /\ ~resp[r].note

(* It did not find what the request need not be there.                     *)
Spared(r) ==
  /\ Replied(r) /\ back[r].status # StatusOK
  /\ GrpcCodeToHttp(back[r].status) = 404
  /\ Ignored(input[r]) /\ resp[r].http = 200
  /\ input[r].op = "remove_user" => resp[r].note
  /\ input[r].op = "get_stat" /\ input[r].method # "HEAD" =>
       resp[r].body = {Item(input[r].id, 0)}

(* It told an error, and so is the caller.                                 *)
Failed(r) ==
  /\ Replied(r) /\ back[r].status # StatusOK
  /\ resp[r].http = GrpcCodeToHttp(back[r].status)
  /\ resp[r].http \in {404, 409, 500, 501, 502}
  /\ resp[r].http = 404 => ~Ignored(input[r])

(* The three meanings of an answer made of a reply.                        *)
LEMMA RepliedMeans ==
  ASSUME NEW r \in Request, Replied(r),
         resp[r] = ToClient(input[r].method, Finish(input[r], back[r])),
         input[r].op = "remove_user" => input[r].method = "DELETE"
  PROVE  Achieved(r) \/ Spared(r) \/ Failed(r)
<1> DEFINE in == input[r]
           rep == back[r]
           a == Finish(in, rep)
<1>1. resp[r].http = a.http /\ (in.method # "HEAD" => resp[r].note = a.note)
  BY ToClientIs
<1>2. ~a.note => ~resp[r].note
  BY ToClientIs
<1> DEFINE shown == IF in.method = "HEAD" THEN {} ELSE a.body
<1>6. resp[r].body = shown
  BY BodyToClient
<1> HIDE DEF a
<1>3. CASE rep.status = StatusOK
  <2>1. /\ a.http = IF in.op \in Adds THEN 201 ELSE 200
        /\ a.body = BodyOf(in, rep.payload) /\ ~a.note
    BY <1>3, FinishOfSuccess DEF a
  <2> QED
    BY <1>1, <1>2, <1>3, <1>6, <2>1 DEF Achieved
<1>4. CASE rep.status # StatusOK /\ IsNotFound(rep.status) /\ Ignored(in)
  <2>1. /\ a.http = 200 /\ (in.op = "remove_user" => a.note)
        /\ in.op = "get_stat" => a.body = {Item(in.id, 0)}
    BY <1>4, FinishOfAbsence DEF a
  <2>2. GrpcCodeToHttp(rep.status) = 404
    BY <1>4, HttpOfAbsence
  <2>3. in.op = "remove_user" => resp[r].note = a.note
    BY <1>1
  <2> QED
    BY <1>1, <1>4, <1>6, <2>1, <2>2, <2>3 DEF Spared
<1>5. CASE rep.status # StatusOK /\ ~(IsNotFound(rep.status) /\ Ignored(in))
  <2>1. a.http = GrpcCodeToHttp(rep.status)
    BY <1>5, FinishOfError DEF a
  <2>2. /\ GrpcCodeToHttp(rep.status) \in {404, 409, 500, 501, 502}
        /\ IsNotFound(rep.status) <=> GrpcCodeToHttp(rep.status) = 404
    BY HttpOfStatus
  <2> QED
    BY <1>1, <1>5, <2>1, <2>2 DEF Failed
<1> QED
  BY <1>3, <1>4, <1>5

(* A broken connection is never told as absence or conflict.               *)
LEMMA BrokenMeans ==
  ASSUME NEW r \in Request, FromTransport(reply[r]),
         resp[r] = ToClient(input[r].method, Finish(input[r], reply[r]))
  PROVE  Broken(r)
<1>1. PICK s \in TransportErrors : reply[r] = [status |-> s, payload |-> {}]
  BY DEF FromTransport
<1>2. reply[r].status = s
  BY <1>1
<1>3. s # StatusOK /\ GrpcCodeToHttp(s) \notin {404, 409}
  BY TransportAssumption, HttpOfNeither DEF TellsNeither
<1>4. GrpcCodeToHttp(s) \in {500, 501, 502} /\ ~IsNotFound(s)
  BY <1>3, HttpOfStatus
<1>5. /\ Finish(input[r], reply[r]) = Grpc(s)
      /\ Finish(input[r], reply[r]).http = GrpcCodeToHttp(s)
  BY <1>2, <1>3, <1>4, FinishOfError
<1>6. resp[r].http = GrpcCodeToHttp(s)
  BY <1>5, ToClientIs
<1> QED
  BY <1>4, <1>5, <1>6 DEF Broken

(* The line of a request that has arrived.                                 *)
LEMMA LineOfTask ==
  ASSUME IInv, NEW r \in Request, phase[r] # "idle"
  PROVE  /\ input[r].op = "healthz" => input[r].path = <<"healthz">>
         /\ input[r].op = "remove_user" => input[r].method = "DELETE"
<1>1. PICK q \in Inputs : input[r] = Routed(q)
  BY DEF IInv, TaskOK
<1> QED
  BY <1>1, LineOfSuccess

(* Every answer is one of these.                                           *)
LEMMA AnswerMeans ==
  ASSUME IInv, AInv, NEW r \in Request, Done(r)
  PROVE  Uncalled(r) \/ Broken(r) \/ Achieved(r) \/ Spared(r) \/ Failed(r)
<1>1. /\ phase[r] = "done"
      /\ Concluded(phase[r], input[r], sent[r], reply[r], resp[r])
      /\ CallMade(sent[r], wire[r], back[r], reply[r], execs[r])
      /\ wire[r] = "executed" => Recorded(input[r], back[r], seen[r])
  BY DEF Done, IInv, AInv
<1>2. input[r].op = "remove_user" => input[r].method = "DELETE"
  BY <1>1, LineOfTask
<1>3. CASE sent[r] = NoClient
  BY <1>1, <1>3 DEF Concluded, CallMade, Uncalled
<1>4. CASE sent[r] # NoClient
  <2>1. /\ reply[r] # Nothing
        /\ resp[r] = ToClient(input[r].method, Finish(input[r], reply[r]))
    BY <1>1, <1>4 DEF Concluded
  <2>2. CASE FromTransport(reply[r])
    BY <2>1, <2>2, BrokenMeans
  <2>3. CASE wire[r] = "executed" /\ reply[r] = back[r]
    <3>1. Replied(r)
      BY <1>1, <2>3 DEF CallMade, Replied
    <3> QED
      BY <1>2, <2>1, <2>3, <3>1, RepliedMeans
  <2> QED
    BY <1>1, <2>1, <2>2, <2>3 DEF CallMade
<1> QED
  BY <1>3, <1>4


-----------------------------------------------------------------------------
(* What callers can rely on.                                               *)

(* The account message has what the body says, each field in its place.    *)
LEMMA AccountAsDescribed ==
  ASSUME NEW in, in.op = "add_user", BodyOK(in)
  PROVE  AsDescribed(WhatOf(in), in)
<1> DEFINE spec == in.spec
           proto == IF spec.proto = NoText THEN "vless" ELSE spec.proto
           account == AccountOf(spec)
           what == WhatOf(in)
<1>1. ProtoOf(spec) = proto
  BY DEF ProtoOf
<1>2. proto \in {"vless", "vmess", "trojan", "shadowsocks"}
  BY DEF BodyOK
<1> HIDE DEF spec, proto
<1>3. what.level = spec.level /\ what.account = account
  <2>1. what = UserOf(spec)
    BY DEF WhatOf, spec
  <2> QED
    BY <2>1 DEF UserOf
<1>4. account.type = proto
  BY <1>1, <1>2 DEF AccountOf
<1>5. /\ proto \in {"vless", "vmess"} => account.id = spec.uuid
      /\ proto = "vless" => account.flow = spec.flow
      /\ proto \in {"trojan", "shadowsocks"} => account.password = spec.password
  BY <1>1 DEF AccountOf
<1>6. /\ proto = "vmess" => account.security = SecurityOf(spec)
      /\ proto = "shadowsocks" => account.cipher = CipherOf(spec)
  BY <1>1 DEF AccountOf
<1> HIDE DEF account, what
<1>7. /\ SecurityOf(spec) \in {"NONE", "ZERO"} =>
           spec.security = SecurityOf(spec)
      /\ spec.security \in KnownSecurity => SecurityOf(spec) = spec.security
  BY DEF SecurityOf
<1>8. /\ CipherOf(spec) # "NONE" \/ spec.cipher = "NONE"
      /\ spec.cipher \in KnownCipher => CipherOf(spec) = spec.cipher
  BY DEF CipherOf
<1>9. /\ what.level = spec.level /\ what.account.type = proto
      /\ proto \in {"vless", "vmess"} => what.account.id = spec.uuid
      /\ proto = "vless" => what.account.flow = spec.flow
      /\ proto \in {"trojan", "shadowsocks"} =>
           what.account.password = spec.password
      /\ proto = "vmess" =>
           /\ what.account.security \in {"NONE", "ZERO"} =>
                spec.security = what.account.security
           /\ spec.security \in KnownSecurity =>
                what.account.security = spec.security
      /\ proto = "shadowsocks" =>
           /\ what.account.cipher # "NONE" \/ spec.cipher = "NONE"
           /\ spec.cipher \in KnownCipher => what.account.cipher = spec.cipher
  BY <1>3, <1>4, <1>5, <1>6, <1>7, <1>8
<1> QED
  BY <1>9 DEF AsDescribed, spec, proto, what

(* The body of a call that adds something is what the request describes.   *)
LEMMA WhatIsAsDescribed ==
  ASSUME NEW in, in.op \in Adds, BodyOK(in)
  PROVE  AsDescribed(WhatOf(in), in)
<1>1. CASE in.op = "add_user"
  BY <1>1, AccountAsDescribed
<1>2. CASE in.op \in {"add_inbound", "add_outbound"}
  <2>1. WhatOf(in) = ConfigOf(in.spec)
    BY <1>2 DEF WhatOf
  <2>2. /\ WhatOf(in).transport = in.spec.settings
        /\ WhatOf(in).proxy = in.spec.proxy_settings
    BY <2>1 DEF ConfigOf
  <2> QED
    BY <1>2, <2>2 DEF AsDescribed
<1> QED
  BY <1>1, <1>2 DEF Adds

(* A change is told as a success, or as a broken connection.               *)
THEOREM ChangesAreTold == Spec => []EffectIsReported
<1>1. IInv /\ AInv => EffectIsReported
  <2> SUFFICES ASSUME IInv, AInv, NEW r \in Request, Done(r), execs[r] > 0,
                      seen[r].changed
               PROVE  \/ resp[r].http \in {200, 201}
                      \/ \E s \in TransportErrors :
                           resp[r] = ToClient(input[r].method, Grpc(s))
    BY DEF EffectIsReported
  <2>1. CASE Uncalled(r)
    BY <2>1 DEF Uncalled
  <2>2. CASE Broken(r)
    BY <2>2 DEF Broken
  <2>3. CASE Achieved(r)
    BY <2>3 DEF Achieved
  <2>4. CASE Spared(r) \/ Failed(r)
    BY <2>4 DEF Spared, Failed, Replied, Recorded, SeenOK
  <2> QED
    BY <2>1, <2>2, <2>3, <2>4, AnswerMeans
<1> QED
  BY <1>1, AnswersInvariant, PTL

(* Where a node finds nothing of what need not be there, its caller is     *)
(* told 0, or that there was nothing to remove.                            *)
THEOREM AbsenceTolerated == Spec => []AbsenceIsNoError
<1>1. IInv /\ AInv => AbsenceIsNoError
  <2> SUFFICES ASSUME IInv, AInv, NEW r \in Request,
                      Done(r), wire[r] = "executed", ~seen[r].before,
                      reply[r] = back[r], reply[r].status \notin RefusalErrors
               PROVE  LET in == input[r] IN
                      /\ in.op = "get_stat" =>
                           /\ resp[r].http = 200
                           /\ in.method # "HEAD" =>
                                resp[r].body = {Item(in.id, 0)}
                      /\ in.op = "remove_user" =>
                           IF in.flag THEN resp[r].http = 200 /\ resp[r].note
                           ELSE resp[r].http = 404
    BY DEF AbsenceIsNoError
  <2> DEFINE in == input[r]
  <2>1. CASE in.op \notin {"get_stat", "remove_user"}
    BY <2>1
  <2>2. CASE in.op \in {"get_stat", "remove_user"}
    <3>1. Replied(r)
      BY DEF IInv, AInv, CallMade, Replied
    <3>2. back[r].status \in Missing
      BY <2>2, <3>1 DEF Replied, Recorded, SeenOK
    <3>3. back[r].status # StatusOK /\ GrpcCodeToHttp(back[r].status) = 404
      BY <3>2, AbsenceAndPresence
    <3>4. resp[r] = ToClient(in.method, Finish(in, back[r]))
      BY DEF IInv, AInv, CallMade, Done, Concluded
    <3>5. in.op = "remove_user" => in.method = "DELETE"
      BY LineOfTask DEF Done
    <3>6. Spared(r) \/ Failed(r)
      BY <3>1, <3>3, <3>4, <3>5, RepliedMeans DEF Achieved
    <3>7. CASE Spared(r)
      BY <2>2, <3>7 DEF Spared, Ignored
    <3>8. CASE Failed(r)
      BY <2>2, <3>3, <3>8 DEF Failed, Ignored
    <3> QED
      BY <3>6, <3>7, <3>8
  <2> QED
    BY <2>1, <2>2
<1> QED
  BY <1>1, AnswersInvariant, PTL

(* What is read off a node is what the node had; nothing else is told as   *)
(* such, and no failure is.                                                *)
THEOREM ReadingsTrue == Spec => []ReadsAreTrue
<1>1. IInv /\ AInv => ReadsAreTrue
  <2> SUFFICES ASSUME IInv, AInv, NEW r \in Request, Done(r),
                      resp[r].http = 200, input[r].op \in Reads,
                      input[r].method # "HEAD"
               PROVE  /\ wire[r] = "executed"
                      /\ IF input[r].op = "list_users"
                         THEN seen[r].shown \subseteq resp[r].body
                         ELSE resp[r].body = seen[r].shown
    BY DEF ReadsAreTrue
  <2>1. ~Uncalled(r) /\ ~Broken(r) /\ ~Failed(r)
    BY DEF Uncalled, AnswerWithoutCall, Broken, Failed, Reads
  <2>2. CASE Achieved(r)
    <3>1. /\ wire[r] = "executed"
          /\ resp[r].body = BodyOf(input[r], back[r].payload)
          /\ ShownOK(input[r], back[r], seen[r])
          /\ back[r].status = StatusOK
      BY <2>2 DEF Achieved, Replied, Recorded
    <3> QED
      BY <3>1 DEF ShownOK, Shows
  <2>3. CASE Spared(r)
    <3>1. input[r].op = "get_stat"
      BY <2>3 DEF Spared, Ignored, Reads
    <3>2. /\ wire[r] = "executed" /\ ~seen[r].before
          /\ ShownOK(input[r], back[r], seen[r])
          /\ resp[r].body = {Item(input[r].id, 0)}
      BY <2>3, <3>1 DEF Spared, Replied, Recorded, SeenOK
    <3> QED
      BY <3>1, <3>2 DEF ShownOK
  <2> QED
    BY <2>1, <2>2, <2>3, AnswerMeans
<1> QED
  BY <1>1, AnswersInvariant, PTL

(* Whoever is told 4xx has changed nothing and will not.                   *)
THEOREM ErrorsAreFinal == Spec => []ClientErrorIsFinal
<1>1. IInv /\ AInv => ClientErrorIsFinal
  <2> SUFFICES ASSUME IInv, AInv, NEW r \in Request, Done(r),
                      resp[r].http \in 400..499
               PROVE  \/ sent[r] = NoClient /\ resp[r].http # 409
                      \/ /\ resp[r].http \in {404, 409}
                         /\ wire[r] = "executed"
                         /\ ~seen[r].changed
                         /\ seen[r].before <=> resp[r].http = 409
    BY DEF ClientErrorIsFinal
  <2>1. CASE Uncalled(r)
    BY <2>1 DEF Uncalled, AnswerWithoutCall
  <2>2. CASE Failed(r)
    <3>1. resp[r].http \in {404, 409} /\ wire[r] = "executed" /\ ~seen[r].changed
      BY <2>2 DEF Failed, Replied, Recorded, SeenOK
    <3>2. /\ resp[r].http = 404 => ~seen[r].before
          /\ resp[r].http = 409 => seen[r].before
      BY <2>2 DEF Failed, Replied, Recorded, SeenOK
    <3> QED
      BY <3>1, <3>2
  <2>3. CASE Broken(r) \/ Achieved(r) \/ Spared(r)
    BY <2>3 DEF Broken, Achieved, Spared
  <2> QED
    BY <2>1, <2>2, <2>3, AnswerMeans
<1> QED
  BY <1>1, AnswersInvariant, PTL

(* What a success says was done was done, by this very request.            *)
THEOREM SuccessesAreTrue == Spec => []SuccessIsTrue
<1>1. IInv /\ AInv => SuccessIsTrue
  <2> SUFFICES ASSUME IInv, AInv, NEW r \in Request, Done(r),
                      resp[r].http \in {200, 201},
                      input[r].path # <<"healthz">>
               PROVE  LET in == input[r] IN
                      /\ execs[r] = 1
                      /\ in.op \in Adds =>
                           /\ ~seen[r].before /\ seen[r].after
                           /\ \A what \in seen[r].added : AsDescribed(what, in)
                      /\ in.op \in Removes =>
                           ~seen[r].after /\ (seen[r].before <=> ~resp[r].note)
                      /\ in.op = "override_balancer" => seen[r].after
    BY DEF SuccessIsTrue, Removes
  <2>1. input[r].op # "healthz"
    BY LineOfTask DEF Done
  <2>2. ~Uncalled(r) /\ ~Broken(r) /\ ~Failed(r)
    BY <2>1 DEF Uncalled, AnswerWithoutCall, Broken, Failed
  <2>3. CASE Achieved(r)
    <3>1. /\ execs[r] = 1 /\ ~resp[r].note
          /\ SeenOK(input[r], StatusOK, seen[r])
      BY <2>3 DEF Achieved, Replied, Recorded
    <3>2. BodyOK(input[r])
      <4>1. wire[r] = "executed"
        BY <2>3 DEF Achieved, Replied
      <4> QED
        BY <4>1 DEF IInv, CallMade, TaskOK
    <3>3. input[r].op \in Adds => AsDescribed(WhatOf(input[r]), input[r])
      BY <3>2, WhatIsAsDescribed
    <3> QED
      BY <3>1, <3>3 DEF SeenOK
  <2>4. CASE Spared(r)
    <3>1. /\ execs[r] = 1 /\ ~seen[r].before /\ seen[r].after = seen[r].before
          /\ input[r].op = "remove_user" => resp[r].note
          /\ Ignored(input[r])
      BY <2>4 DEF Spared, Replied, Recorded, SeenOK
    <3>2. /\ input[r].op \notin Adds /\ input[r].op # "override_balancer"
          /\ input[r].op \in Removes => input[r].op = "remove_user"
      BY <3>1 DEF Ignored, Adds, Removes
    <3> QED
      BY <3>1, <3>2
  <2> QED
    BY <2>2, <2>3, <2>4, AnswerMeans
<1> QED
  BY <1>1, AnswersInvariant, PTL


-----------------------------------------------------------------------------
(* What a request may change.                                              *)

(* The one route to the handler of a request tells its line.               *)
LEMMA WholeLine ==
  ASSUME NEW q \in Inputs, NEW prefix, NEW method,
         Routed(q).op \notin {"not_found", "method_not_allowed"},
         \A route \in Routes : route.op = Routed(q).op =>
           route = At(prefix, "none", method, Routed(q).op)
  PROVE  Routed(q).path = prefix /\ ServedAs(Routed(q).method) = method
<1> DEFINE in == Routed(q)
<1> HIDE DEF in
<1>1. /\ in.path \in Seq({in.path[i] : i \in DOMAIN in.path})
      /\ \E route \in Routes : /\ Fits(route, in.path)
                               /\ route.method = ServedAs(in.method)
                               /\ route.op = in.op
  BY RoutedBy DEF in
<1>2. PICK route \in Routes : /\ Fits(route, in.path)
                              /\ route.method = ServedAs(in.method)
                              /\ route.op = in.op
  BY <1>1
<1>3. route.last = "none" /\ route.prefix = prefix /\ route.method = method
  <2>1. route = At(prefix, "none", method, in.op)
    BY <1>2 DEF in
  <2> QED
    BY <2>1 DEF At
<1> QED
  BY <1>1, <1>2, <1>3, WholeFits DEF in

(* The line of a request whose route ends in a parameter.                  *)
LEMMA ParamLine ==
  ASSUME NEW q \in Inputs, NEW prefix, NEW method,
         method \in {"DELETE", "PUT"},
         Routed(q).op \notin {"not_found", "method_not_allowed"},
         \A route \in Routes : route.op = Routed(q).op =>
           route = At(prefix, "param", method, Routed(q).op)
  PROVE  Names(Routed(q), method, prefix, Capture(Routed(q).path))
<1> DEFINE in == Routed(q)
           elements == {in.path[i] : i \in DOMAIN in.path}
<1> HIDE DEF in
<1>1. /\ in.path \in Seq(elements)
      /\ \E route \in Routes : /\ Fits(route, in.path)
                               /\ route \in Matched(in.path)
                               /\ route.method = ServedAs(in.method)
                               /\ route.op = in.op
  BY RoutedBy DEF in
<1> HIDE DEF elements
<1>2. PICK route \in Routes : /\ Fits(route, in.path)
                              /\ route \in Matched(in.path)
                              /\ route.method = ServedAs(in.method)
                              /\ route.op = in.op
  BY <1>1
<1>3. route.last = "param" /\ route.prefix = prefix /\ route.method = method
  <2>1. route = At(prefix, "param", method, in.op)
    BY <1>2 DEF in
  <2> QED
    BY <2>1 DEF At
<1>4. in.method = method
  BY <1>2, <1>3 DEF ServedAs
<1>5. /\ Len(in.path) = Len(prefix) + 1
      /\ SubSeq(in.path, 1, Len(prefix)) = prefix
  BY <1>1, <1>2, <1>3, ParamFits
<1>6. Capture(in.path) = TextOf(in.path[Len(in.path)])
  BY <1>1, <1>2, <1>3, CaptureOfParam DEF TextOf
<1> QED
  BY <1>4, <1>5, <1>6 DEF Names, in

(* What each line asks to be added or removed.                             *)
LEMMA LineOfAdd ==
  ASSUME NEW q \in Inputs
  PROVE  LET in == Routed(q) IN
         /\ in.op = "add_user" => /\ Posts(in, <<"v1", "users">>)
                                  /\ in.tag = in.in_tag /\ in.id = in.in_id
         /\ in.op = "add_inbound" => /\ Posts(in, <<"v1", "inbounds">>)
                                     /\ in.tag = in.in_tag
         /\ in.op = "add_outbound" => /\ Posts(in, <<"v1", "outbounds">>)
                                      /\ in.tag = in.in_tag
<1> DEFINE in == Routed(q)
<1> HIDE DEF in
<1>1. in.tag = TagOf(in.op, in) /\ in.id = NameOf(in.op, in)
  BY RoutedBy DEF in
<1>2. ASSUME in.op = "add_user"
      PROVE  in.path = <<"v1", "users">> /\ ServedAs(in.method) = "POST"
  BY <1>2, RouteOfOp, WholeLine DEF in
<1>3. ASSUME in.op = "add_inbound"
      PROVE  in.path = <<"v1", "inbounds">> /\ ServedAs(in.method) = "POST"
  BY <1>3, RouteOfOp, WholeLine DEF in
<1>4. ASSUME in.op = "add_outbound"
      PROVE  in.path = <<"v1", "outbounds">> /\ ServedAs(in.method) = "POST"
  BY <1>4, RouteOfOp, WholeLine DEF in
<1>5. ServedAs(in.method) = "POST" => in.method = "POST"
  BY DEF ServedAs
<1>6. in.op \in Adds => in.tag = in.in_tag
  BY <1>1 DEF TagOf, Adds
<1>7. in.op = "add_user" => in.id = in.in_id
  BY <1>1 DEF NameOf
<1> QED
  BY <1>2, <1>3, <1>4, <1>5, <1>6, <1>7 DEF Posts, Adds, in

(* The line of each handler that changes what a parameter names.           *)
LEMMA LineOfParam ==
  ASSUME NEW q \in Inputs
  PROVE  LET in == Routed(q) IN
         /\ in.op = "remove_user" =>
              Names(in, "DELETE", <<"v1", "users">>, in.id) /\ in.tag = in.arg
         /\ in.op = "remove_inbound" =>
              Names(in, "DELETE", <<"v1", "inbounds">>, in.tag)
         /\ in.op = "remove_outbound" =>
              Names(in, "DELETE", <<"v1", "outbounds">>, in.tag)
         /\ in.op = "remove_rule" =>
              Names(in, "DELETE", <<"v1", "routing", "rules">>, in.tag)
         /\ in.op = "override_balancer" =>
              /\ Names(in, "PUT", <<"v1", "routing", "balancers">>, in.tag)
              /\ in.id = in.in_id
<1> DEFINE in == Routed(q)
           name == Capture(in.path)
<1> HIDE DEF in
<1>1. in.tag = TagOf(in.op, in) /\ in.id = NameOf(in.op, in)
  BY RoutedBy DEF in
<1>2. ASSUME in.op = "remove_user"
      PROVE  Names(in, "DELETE", <<"v1", "users">>, name)
  BY <1>2, RouteOfOp, ParamLine DEF in
<1>3. ASSUME in.op = "remove_inbound"
      PROVE  Names(in, "DELETE", <<"v1", "inbounds">>, name)
  BY <1>3, RouteOfOp, ParamLine DEF in
<1>4. ASSUME in.op = "remove_outbound"
      PROVE  Names(in, "DELETE", <<"v1", "outbounds">>, name)
  BY <1>4, RouteOfOp, ParamLine DEF in
<1>5. ASSUME in.op = "remove_rule"
      PROVE  Names(in, "DELETE", <<"v1", "routing", "rules">>, name)
  BY <1>5, RouteOfOp, ParamLine DEF in
<1>6. ASSUME in.op = "override_balancer"
      PROVE  Names(in, "PUT", <<"v1", "routing", "balancers">>, name)
  BY <1>6, RouteOfOp, ParamLine DEF in
<1> HIDE DEF name
<1>7. /\ in.op = "remove_user" => in.tag = in.arg
      /\ in.op \in {"remove_inbound", "remove_outbound", "remove_rule",
                    "override_balancer"} => in.tag = name
  BY <1>1 DEF TagOf, Adds, name
<1>8. /\ in.op = "remove_user" => in.id = name
      /\ in.op = "override_balancer" => in.id = in.in_id
  BY <1>1 DEF NameOf, name
<1> QED
  BY <1>2, <1>3, <1>4, <1>5, <1>6, <1>7, <1>8 DEF in

(* The counters a request resets are those it names.                       *)
LEMMA LineOfReset ==
  ASSUME NEW q \in Inputs, NEW s, ResetOf(Routed(q)),
         s \in NamesRead(CallOf(Routed(q)))
  PROVE  ResetsCounter(Routed(q), s)
<1> DEFINE in == Routed(q)
           c == CallOf(in)
<1> HIDE DEF in
<1>1. /\ in.path \in Seq({in.path[i] : i \in DOMAIN in.path})
      /\ in.id = NameOf(in.op, in)
      /\ in.op \notin {"not_found", "method_not_allowed"} =>
           \E route \in Routes : /\ Fits(route, in.path)
                                 /\ route.method = ServedAs(in.method)
                                 /\ route.op = in.op
  BY RoutedBy DEF in
<1>2. in.op \in Resets /\ in.flag
  BY DEF ResetOf, in
<1>3. c.id = in.id /\ c.method = MethodOf[in.op]
  BY <1>2 DEF CallOf, IdOf, Resets
<1>4. /\ in.op = "get_stat" => c.method = "GetStats"
      /\ in.op = "query_stats" => c.method = "QueryStats"
      /\ in.op = "get_users_stats" => c.method = "GetUsersStats"
  BY <1>3, MethodOfStats DEF StatsOps
<1>5. s \in NamesRead(c)
  BY DEF in
<1> HIDE DEF c
<1>6. ServedAs(in.method) = "GET" => in.method \in {"GET", "HEAD"}
  BY DEF ServedAs
<1>7. CASE in.op = "get_stat"
  <2>1. PICK route \in Routes : /\ Fits(route, in.path)
                                /\ route.method = ServedAs(in.method)
                                /\ route.op = in.op
    BY <1>1, <1>7
  <2>2. route.method = "GET" /\ route.last = "rest"
    BY <1>7, <2>1, RouteOfOp DEF At
  <2>3. in.path[2] = "stats"
    BY <1>1, <2>1, <2>2, RestFits
  <2>4. s = Capture(in.path)
    BY <1>1, <1>3, <1>4, <1>5, <1>7 DEF NamesRead, NameOf
  <2> QED
    BY <1>2, <1>6, <2>1, <2>2, <2>3, <2>4 DEF ResetsCounter, in
<1>8. CASE in.op = "query_stats"
  <2>1. in.path = <<"v1", "stats">> /\ ServedAs(in.method) = "GET"
    BY <1>8, RouteOfOp, WholeLine DEF in
  <2>2. in.id = in.arg
    BY <1>1, <1>8 DEF NameOf
  <2>3. s \in Matches[in.arg]
    BY <1>3, <1>4, <1>5, <1>8, <2>2 DEF NamesRead
  <2> QED
    BY <1>2, <1>6, <2>1, <2>3 DEF ResetsCounter, in
<1>9. CASE in.op = "get_users_stats"
  <2>1. in.path = <<"v1", "users", "stats">> /\ ServedAs(in.method) = "GET"
    BY <1>9, RouteOfOp, WholeLine DEF in
  <2>2. s \in UserStats
    BY <1>4, <1>5, <1>9 DEF NamesRead
  <2> QED
    BY <1>2, <1>6, <2>1, <2>2 DEF ResetsCounter, in
<1> QED
  BY <1>2, <1>7, <1>8, <1>9 DEF Resets


(* A node that is as before, but for what the request names.               *)
LEMMA MayStay ==
  ASSUME NEW node, NEW q
  PROVE  MayChange(node, node, q)
BY DEF MayChange, Changes

(* A node of which nothing but users changes, those the request names.     *)
LEMMA MayChangeUsers ==
  ASSUME NEW node, NEW new, NEW users, NEW q,
         NodeIs(new, node.inbounds, node.outbounds, users, node.rules,
                node.override, node.counters),
         \A u \in Changes(node.users, users) :
           \/ Posts(q, <<"v1", "users">>) /\ q.in_tag = u.tag /\ q.in_id = u.email
           \/ Names(q, "DELETE", <<"v1", "users">>, u.email) /\ q.arg = u.tag
           \/ Names(q, "DELETE", <<"v1", "inbounds">>, u.tag)
  PROVE  MayChange(node, new, q)
<1>1. /\ new.users = users
      /\ new.inbounds = node.inbounds /\ new.outbounds = node.outbounds
      /\ new.rules = node.rules /\ new.override = node.override
      /\ new.counters = node.counters
  BY DEF NodeIs
<1> QED
  BY <1>1 DEF MayChange, Changes

(* What a call for users changes is what its request asks for.             *)
LEMMA AskedOfAlterInbound ==
  ASSUME NEW node, NodeOK(node), NEW q \in Inputs, RequestOK(Routed(q)),
         CallOf(Routed(q)).method \in {"AddUser", "RemoveUser"},
         NEW o \in AlterInbound(node, CallOf(Routed(q)))
  PROVE  MayChange(node, o.node, Routed(q))
<1> DEFINE in == Routed(q)
           c == CallOf(in)
           same == UserIn(node, c.tag, c.id)
           new == [tag |-> c.tag, email |-> c.id, what |-> c.what]
<1> HIDE DEF in
<1>1. /\ c.method = "AddUser" <=> in.op = "add_user"
      /\ c.method = "RemoveUser" <=> in.op = "remove_user"
      /\ in.op # "list_users"
  BY MethodTells DEF in
<1>2. c.tag = in.tag /\ c.id = in.id
  BY <1>1, CallFields
<1>3. /\ in.op = "add_user" => /\ Posts(in, <<"v1", "users">>)
                               /\ in.tag = in.in_tag /\ in.id = in.in_id
      /\ in.op = "remove_user" =>
           Names(in, "DELETE", <<"v1", "users">>, in.id) /\ in.tag = in.arg
  BY LineOfAdd, LineOfParam DEF in
<1>4. CallOK(c) /\ c.method \in {"AddUser", "RemoveUser"}
  BY CallOfOK DEF in
<1>5. o \in AlterInbound(node, c)
  BY DEF in
<1> HIDE DEF c
<1>6. \/ o.node = node
      \/ /\ c.method = "AddUser"
         /\ NodeIs(o.node, node.inbounds, node.outbounds,
                   node.users \cup {new}, node.rules, node.override,
                   node.counters)
      \/ /\ c.method = "RemoveUser"
         /\ NodeIs(o.node, node.inbounds, node.outbounds, node.users \ same,
                   node.rules, node.override, node.counters)
  BY <1>4, <1>5, AlterInboundOutcomes DEF Fails, Succeeds
<1>7. CASE o.node = node
  BY <1>7, MayStay DEF in
<1>8. CASE /\ c.method = "AddUser"
           /\ NodeIs(o.node, node.inbounds, node.outbounds,
                     node.users \cup {new}, node.rules, node.override,
                     node.counters)
  <2>1. new.tag = in.in_tag /\ new.email = in.in_id
    BY <1>1, <1>2, <1>3, <1>8
  <2> HIDE DEF new
  <2>2. \A u \in Changes(node.users, node.users \cup {new}) :
          Posts(in, <<"v1", "users">>) /\ in.in_tag = u.tag /\ in.in_id = u.email
    BY <1>1, <1>3, <1>8, <2>1 DEF Changes
  <2> QED
    BY <1>8, <2>2, MayChangeUsers DEF in
<1>9. CASE /\ c.method = "RemoveUser"
           /\ NodeIs(o.node, node.inbounds, node.outbounds,
                     node.users \ same, node.rules, node.override,
                     node.counters)
  <2>1. \A u \in Changes(node.users, node.users \ same) :
          u.tag = in.tag /\ u.email = in.id
    BY <1>2 DEF Changes, UserIn
  <2>2. \A u \in Changes(node.users, node.users \ same) :
          Names(in, "DELETE", <<"v1", "users">>, u.email) /\ in.arg = u.tag
    BY <1>1, <1>3, <1>9, <2>1
  <2> QED
    BY <1>9, <2>2, MayChangeUsers DEF in
<1> QED
  BY <1>6, <1>7, <1>8, <1>9

(* The same of inbounds, and of the users a removal takes along.           *)
LEMMA AskedOfManageInbounds ==
  ASSUME NEW node, NodeOK(node), NEW q \in Inputs, RequestOK(Routed(q)),
         CallOf(Routed(q)).method
           \in {"ListInbounds", "AddInbound", "RemoveInbound"},
         NEW o \in ManageInbounds(node, CallOf(Routed(q)))
  PROVE  MayChange(node, o.node, Routed(q))
<1> DEFINE in == Routed(q)
           c == CallOf(in)
           same == Tagged(node.inbounds, c.tag)
           gone == Tagged(node.users, c.tag)
           new == [tag |-> c.tag, config |-> c.what]
<1> HIDE DEF in
<1>1. /\ c.method = "AddInbound" <=> in.op = "add_inbound"
      /\ c.method = "RemoveInbound" <=> in.op = "remove_inbound"
  BY MethodTells DEF in
<1>2. c.tag = in.tag
  BY CallFields
<1>3. /\ in.op = "add_inbound" => /\ Posts(in, <<"v1", "inbounds">>)
                                  /\ in.tag = in.in_tag
      /\ in.op = "remove_inbound" =>
           Names(in, "DELETE", <<"v1", "inbounds">>, in.tag)
  BY LineOfAdd, LineOfParam DEF in
<1>4. CallOK(c) /\ c.method \in {"ListInbounds", "AddInbound", "RemoveInbound"}
  BY CallOfOK DEF in
<1>5. o \in ManageInbounds(node, c)
  BY DEF in
<1> HIDE DEF c
<1>6. \/ o.node = node
      \/ /\ c.method = "AddInbound"
         /\ NodeIs(o.node, node.inbounds \cup {new}, node.outbounds,
                   node.users, node.rules, node.override, node.counters)
      \/ /\ c.method = "RemoveInbound"
         /\ NodeIs(o.node, node.inbounds \ same, node.outbounds,
                   node.users \ gone, node.rules, node.override, node.counters)
  BY <1>4, <1>5, ManageInboundsOutcomes DEF Fails, Succeeds
<1>7. CASE o.node = node
  BY <1>7, MayStay DEF in
<1>8. CASE /\ c.method = "AddInbound"
           /\ NodeIs(o.node, node.inbounds \cup {new}, node.outbounds,
                     node.users, node.rules, node.override, node.counters)
  <2>1. new.tag = in.in_tag
    BY <1>1, <1>2, <1>3, <1>8
  <2> HIDE DEF new
  <2>2. \A i \in Changes(node.inbounds, o.node.inbounds) :
          Posts(in, <<"v1", "inbounds">>) /\ in.in_tag = i.tag
    BY <1>1, <1>3, <1>8, <2>1 DEF Changes, NodeIs
  <2>3. /\ o.node.outbounds = node.outbounds /\ o.node.users = node.users
        /\ o.node.rules = node.rules /\ o.node.override = node.override
        /\ o.node.counters = node.counters
    BY <1>8 DEF NodeIs
  <2> QED
    BY <2>2, <2>3 DEF MayChange, Changes, in
<1>9. CASE /\ c.method = "RemoveInbound"
           /\ NodeIs(o.node, node.inbounds \ same, node.outbounds,
                     node.users \ gone, node.rules, node.override,
                     node.counters)
  <2>1. Names(in, "DELETE", <<"v1", "inbounds">>, in.tag)
    BY <1>1, <1>3, <1>9
  <2>2. /\ \A i \in Changes(node.inbounds, o.node.inbounds) : i.tag = in.tag
        /\ \A u \in Changes(node.users, o.node.users) : u.tag = in.tag
    BY <1>2, <1>9 DEF Changes, NodeIs, Tagged
  <2>3. /\ o.node.outbounds = node.outbounds
        /\ o.node.rules = node.rules /\ o.node.override = node.override
        /\ o.node.counters = node.counters
    BY <1>9 DEF NodeIs
  <2>4. /\ \A i \in Changes(node.inbounds, o.node.inbounds) :
             Names(in, "DELETE", <<"v1", "inbounds">>, i.tag)
        /\ \A u \in Changes(node.users, o.node.users) :
             Names(in, "DELETE", <<"v1", "inbounds">>, u.tag)
    BY <2>1, <2>2
  <2>5. /\ Changes(node.outbounds, o.node.outbounds) = {}
        /\ Changes(node.rules, o.node.rules) = {}
    BY <2>3 DEF Changes
  <2> QED
    BY <2>3, <2>4, <2>5 DEF MayChange, in
<1> QED
  BY <1>6, <1>7, <1>8, <1>9

(* The same of outbounds.                                                  *)
LEMMA AskedOfManageOutbounds ==
  ASSUME NEW node, NodeOK(node), NEW q \in Inputs, RequestOK(Routed(q)),
         CallOf(Routed(q)).method
           \in {"ListOutbounds", "AddOutbound", "RemoveOutbound"},
         NEW o \in ManageOutbounds(node, CallOf(Routed(q)))
  PROVE  MayChange(node, o.node, Routed(q))
<1> DEFINE in == Routed(q)
           c == CallOf(in)
           same == Tagged(node.outbounds, c.tag)
           new == [tag |-> c.tag, config |-> c.what]
<1> HIDE DEF in
<1>1. /\ c.method = "AddOutbound" <=> in.op = "add_outbound"
      /\ c.method = "RemoveOutbound" <=> in.op = "remove_outbound"
  BY MethodTells DEF in
<1>2. c.tag = in.tag
  BY CallFields
<1>3. /\ in.op = "add_outbound" => /\ Posts(in, <<"v1", "outbounds">>)
                                   /\ in.tag = in.in_tag
      /\ in.op = "remove_outbound" =>
           Names(in, "DELETE", <<"v1", "outbounds">>, in.tag)
  BY LineOfAdd, LineOfParam DEF in
<1>4. CallOK(c) /\ c.method \in {"ListOutbounds", "AddOutbound", "RemoveOutbound"}
  BY CallOfOK DEF in
<1>5. o \in ManageOutbounds(node, c)
  BY DEF in
<1> HIDE DEF c
<1>6. \/ o.node = node
      \/ /\ c.method = "AddOutbound"
         /\ NodeIs(o.node, node.inbounds, node.outbounds \cup {new},
                   node.users, node.rules, node.override, node.counters)
      \/ /\ c.method = "RemoveOutbound"
         /\ NodeIs(o.node, node.inbounds, node.outbounds \ same,
                   node.users, node.rules, node.override, node.counters)
  BY <1>4, <1>5, ManageOutboundsOutcomes DEF Fails, Succeeds
<1>7. CASE o.node = node
  BY <1>7, MayStay DEF in
<1>8. ASSUME /\ o.node.inbounds = node.inbounds /\ o.node.users = node.users
             /\ o.node.rules = node.rules /\ o.node.override = node.override
             /\ o.node.counters = node.counters,
             \A x \in Changes(node.outbounds, o.node.outbounds) :
               \/ Posts(in, <<"v1", "outbounds">>) /\ in.in_tag = x.tag
               \/ Names(in, "DELETE", <<"v1", "outbounds">>, x.tag)
      PROVE  MayChange(node, o.node, in)
  BY <1>8 DEF MayChange, Changes
<1>9. CASE /\ c.method = "AddOutbound"
           /\ NodeIs(o.node, node.inbounds, node.outbounds \cup {new},
                     node.users, node.rules, node.override, node.counters)
  <2>1. new.tag = in.in_tag
    BY <1>1, <1>2, <1>3, <1>9
  <2> HIDE DEF new
  <2>2. \A x \in Changes(node.outbounds, o.node.outbounds) :
          Posts(in, <<"v1", "outbounds">>) /\ in.in_tag = x.tag
    BY <1>1, <1>3, <1>9, <2>1 DEF Changes, NodeIs
  <2> QED
    BY <1>8, <1>9, <2>2 DEF NodeIs, in
<1>10. CASE /\ c.method = "RemoveOutbound"
            /\ NodeIs(o.node, node.inbounds, node.outbounds \ same,
                      node.users, node.rules, node.override, node.counters)
  <2>1. Names(in, "DELETE", <<"v1", "outbounds">>, in.tag)
    BY <1>1, <1>3, <1>10
  <2>2. \A x \in Changes(node.outbounds, o.node.outbounds) : x.tag = in.tag
    BY <1>2, <1>10 DEF Changes, NodeIs, Tagged
  <2>3. \A x \in Changes(node.outbounds, o.node.outbounds) :
          Names(in, "DELETE", <<"v1", "outbounds">>, x.tag)
    BY <2>1, <2>2
  <2> QED
    BY <1>8, <1>10, <2>3 DEF NodeIs, in
<1> QED
  BY <1>6, <1>7, <1>9, <1>10


(* The same of counters, which only ?reset=true changes.                   *)
LEMMA AskedOfReadStats ==
  ASSUME NEW node, NodeOK(node), NEW q \in Inputs, RequestOK(Routed(q)),
         CallOf(Routed(q)).method \in {"GetStats", "QueryStats", "GetUsersStats"},
         NEW o \in ReadStats(node, CallOf(Routed(q)))
  PROVE  MayChange(node, o.node, Routed(q))
<1> DEFINE in == Routed(q)
           c == CallOf(in)
           names == NamesRead(c) \cap DOMAIN node.counters
           count == [s \in DOMAIN node.counters |->
                       IF c.reset /\ s \in names THEN 0 ELSE node.counters[s]]
<1> HIDE DEF in
<1>1. c.reset = ResetOf(in)
  BY CallFields
<1>2. CallOK(c) /\ c.method \in {"GetStats", "QueryStats", "GetUsersStats"}
  BY CallOfOK DEF in
<1>3. o \in ReadStats(node, c)
  BY DEF in
<1>4. \A s \in NamesRead(c) : ResetOf(in) => ResetsCounter(in, s)
  BY LineOfReset DEF in
<1> HIDE DEF c
<1>5. \/ o.node = node
      \/ o.node = ReadCounters(node, names, c.reset)
  BY <1>2, <1>3, ReadStatsOutcomes DEF Fails
<1>6. CASE o.node = node
  BY <1>6, MayStay DEF in
<1>7. CASE o.node = ReadCounters(node, names, c.reset)
  <2>1. NodeIs(o.node, node.inbounds, node.outbounds, node.users,
               node.rules, node.override, count)
    BY <1>7 DEF NodeOK, NodeIs, ReadCounters
  <2>2. /\ o.node.counters = count
        /\ o.node.inbounds = node.inbounds /\ o.node.users = node.users
        /\ o.node.outbounds = node.outbounds /\ o.node.rules = node.rules
        /\ o.node.override = node.override
    BY <2>1 DEF NodeIs
  <2>3. \A s \in DOMAIN node.counters :
          node.counters[s] # count[s] => c.reset /\ s \in NamesRead(c)
    OBVIOUS
  <2>4. \A s \in DOMAIN node.counters :
          node.counters[s] # o.node.counters[s] => ResetsCounter(in, s)
    BY <1>1, <1>4, <2>2, <2>3
  <2> QED
    BY <2>2, <2>4 DEF MayChange, Changes, in
<1> QED
  BY <1>5, <1>6, <1>7

(* The same of rules and balancers.                                        *)
LEMMA AskedOfManageRouting ==
  ASSUME NEW node, NodeOK(node), NEW q \in Inputs, RequestOK(Routed(q)),
         CallOf(Routed(q)).method \in {"ListRule", "RemoveRule",
                                       "GetBalancerInfo",
                                       "OverrideBalancerTarget"},
         NEW o \in ManageRouting(node, CallOf(Routed(q)))
  PROVE  MayChange(node, o.node, Routed(q))
<1> DEFINE in == Routed(q)
           c == CallOf(in)
           override == [node.override EXCEPT ![c.tag] = c.id]
<1> HIDE DEF in
<1>1. /\ c.method = "RemoveRule" <=> in.op = "remove_rule"
      /\ c.method = "OverrideBalancerTarget" <=> in.op = "override_balancer"
  BY MethodTells DEF in
<1>2. c.tag = in.tag /\ (in.op = "override_balancer" => c.id = in.id)
  BY CallFields
<1>3. /\ in.op = "remove_rule" =>
           Names(in, "DELETE", <<"v1", "routing", "rules">>, in.tag)
      /\ in.op = "override_balancer" =>
           /\ Names(in, "PUT", <<"v1", "routing", "balancers">>, in.tag)
           /\ in.id = in.in_id
  BY LineOfParam DEF in
<1>4. /\ CallOK(c)
      /\ c.method \in {"ListRule", "RemoveRule", "GetBalancerInfo",
                       "OverrideBalancerTarget"}
  BY CallOfOK DEF in
<1>5. o \in ManageRouting(node, c)
  BY DEF in
<1> HIDE DEF c
<1>6. \/ o.node = node
      \/ /\ c.method = "RemoveRule"
         /\ NodeIs(o.node, node.inbounds, node.outbounds, node.users,
                   node.rules \ {c.tag}, node.override, node.counters)
      \/ /\ c.method = "OverrideBalancerTarget"
         /\ NodeIs(o.node, node.inbounds, node.outbounds, node.users,
                   node.rules, override, node.counters)
  BY <1>4, <1>5, ManageRoutingOutcomes DEF Fails, Succeeds
<1>7. CASE o.node = node
  BY <1>7, MayStay DEF in
<1>8. CASE /\ c.method = "RemoveRule"
           /\ NodeIs(o.node, node.inbounds, node.outbounds, node.users,
                     node.rules \ {c.tag}, node.override, node.counters)
  <2>1. Names(in, "DELETE", <<"v1", "routing", "rules">>, in.tag)
    BY <1>1, <1>3, <1>8
  <2>2. \A t \in Changes(node.rules, o.node.rules) : t = in.tag
    BY <1>2, <1>8 DEF Changes, NodeIs
  <2>3. \A t \in Changes(node.rules, o.node.rules) :
          Names(in, "DELETE", <<"v1", "routing", "rules">>, t)
    BY <2>1, <2>2
  <2>4. /\ o.node.inbounds = node.inbounds /\ o.node.users = node.users
        /\ o.node.outbounds = node.outbounds
        /\ o.node.override = node.override /\ o.node.counters = node.counters
    BY <1>8 DEF NodeIs
  <2>5. \A t : Changes(t, t) = {}
    BY DEF Changes
  <2> QED
    BY <2>3, <2>4, <2>5 DEF MayChange, in
<1>9. CASE /\ c.method = "OverrideBalancerTarget"
           /\ NodeIs(o.node, node.inbounds, node.outbounds, node.users,
                     node.rules, override, node.counters)
  <2>1. /\ Names(in, "PUT", <<"v1", "routing", "balancers">>, in.tag)
        /\ c.tag = in.tag /\ c.id = in.in_id
    BY <1>1, <1>2, <1>3, <1>9
  <2>2. /\ o.node.inbounds = node.inbounds /\ o.node.users = node.users
        /\ o.node.outbounds = node.outbounds /\ o.node.rules = node.rules
        /\ o.node.override = override /\ o.node.counters = node.counters
    BY <1>9 DEF NodeIs
  <2>3. node.override \in [Id -> Listed] /\ c.tag \in Id
    BY <1>4, <1>9 DEF NodeOK, CallOK
  <2>4. \A b \in Id : node.override[b] # o.node.override[b] =>
          b = c.tag /\ o.node.override[b] = c.id
    BY <2>2, <2>3
  <2>5. \A b \in Id : node.override[b] # o.node.override[b] =>
          /\ Names(in, "PUT", <<"v1", "routing", "balancers">>, b)
          /\ o.node.override[b] = in.in_id
    BY <2>1, <2>4
  <2>6. \A t : Changes(t, t) = {}
    BY DEF Changes
  <2> QED
    BY <2>2, <2>5, <2>6 DEF MayChange, in
<1> QED
  BY <1>6, <1>7, <1>8, <1>9

(* Whatever call a request becomes, it changes what the request line names *)
(* and nothing else.                                                       *)
LEMMA CallAsked ==
  ASSUME NEW node, NodeOK(node), NEW token, NEW q \in Inputs,
         RequestOK(Routed(q)), NEW o \in Exec(node, token, CallOf(Routed(q)))
  PROVE  MayChange(node, o.node, Routed(q))
<1> DEFINE c == CallOf(Routed(q))
<1>1. c.method \in Method
  BY CallOfOK DEF CallOK
<1>2. CASE o \in Refuse(node, RefusalErrors)
  <2>1. o.node = node
    BY <1>2 DEF Refuse
  <2> QED
    BY <2>1, MayStay
<1>3. CASE /\ c.method \in {"AddUser", "RemoveUser"}
           /\ o \in AlterInbound(node, c)
  BY <1>3, AskedOfAlterInbound
<1>4. CASE /\ c.method \in {"ListInbounds", "AddInbound", "RemoveInbound"}
           /\ o \in ManageInbounds(node, c)
  BY <1>4, AskedOfManageInbounds
<1>5. CASE /\ c.method \in {"ListOutbounds", "AddOutbound", "RemoveOutbound"}
           /\ o \in ManageOutbounds(node, c)
  BY <1>5, AskedOfManageOutbounds
<1>6. CASE /\ c.method \in {"GetStats", "QueryStats", "GetUsersStats"}
           /\ o \in ReadStats(node, c)
  BY <1>6, AskedOfReadStats
<1>7. CASE /\ c.method \in {"ListRule", "RemoveRule", "GetBalancerInfo",
                            "OverrideBalancerTarget"}
           /\ o \in ManageRouting(node, c)
  BY <1>7, AskedOfManageRouting
<1>8. ASSUME NEW payload, o \in Success(node, payload)
      PROVE  MayChange(node, o.node, Routed(q))
  <2>1. o.node = node
    BY <1>8 DEF Success
  <2> QED
    BY <2>1, MayStay
<1> HIDE DEF c
<1>9. o \in Exec(node, token, c)
  BY DEF c
<1> QED
  BY <1>1, <1>2, <1>3, <1>4, <1>5, <1>6, <1>7, <1>8, <1>9, ExecCases


(* The units of traffic are counted for every node and counter.            *)
TrafficOK == traffic \in [Nodes \X Counted -> Nat]

(* Traffic is counted in whole units.                                      *)
LEMMA TrafficNext == TrafficOK /\ [Next]_vars => TrafficOK'
<1> SUFFICES ASSUME TrafficOK, [Next]_vars PROVE TrafficOK'
  OBVIOUS
<1>1. ASSUME NEW a \in Nodes, NEW s \in Counted, Traffic(a, s)
      PROVE  TrafficOK'
  <2> DEFINE p == <<a, s>>
             all == Nodes \X Counted
  <2>1. /\ p \in all /\ traffic \in [all -> Nat]
        /\ traffic' = [traffic EXCEPT ![p] = traffic[p] + 1]
    BY <1>1 DEF Traffic, TrafficOK
  <2> HIDE DEF p, all
  <2>2. traffic' \in [all -> Nat]
    BY <2>1
  <2> QED
    BY <2>2 DEF TrafficOK, all
<1>2. ASSUME NEW r \in Request,
             BridgeStep(r) \/ ClientStep(r) \/ NetworkStep(r)
      PROVE  UNCHANGED traffic
  BY <1>2 DEF BridgeStep, ClientStep, NetworkStep, Extract, RunHandler, Resume,
     Arrive, Disconnect, Execute, ReplyArrives, TransportFails, world
<1>3. ASSUME RestartBridge \/ (\E a \in Nodes : Restart(a)) \/ UNCHANGED vars
      PROVE  UNCHANGED traffic
  BY <1>3 DEF RestartBridge, Restart, vars, world
<1>4. UNCHANGED traffic => TrafficOK'
  BY DEF TrafficOK
<1> QED
  BY <1>1, <1>2, <1>3, <1>4 DEF Next, NodeStep

(* It always is.                                                           *)
LEMMA TrafficTyped == Spec => []TrafficOK
<1>1. Init => TrafficOK
  BY DEF Init, TrafficOK
<1>2. TrafficOK /\ [Next]_vars => TrafficOK'
  BY TrafficNext
<1> QED
  BY <1>1, <1>2, PTL DEF Spec

(* A call that changes a node is that of a request which asked for it.     *)
LEMMA ExecuteAsked ==
  ASSUME IInv, NEW r \in Request, Execute(r), NEW a \in Nodes,
         nodes'[a] # nodes[a]
  PROVE  /\ execs'[r] = execs[r] + 1
         /\ Target(input[r]) = a
         /\ input[r].token \in Accepts
         /\ Service!Acceptable(input[r])
         /\ MayChange(nodes[a], nodes'[a], input[r])
<1> DEFINE at == AddressOf(sent[r])
           in == input[r]
<1>1. wire[r] = "sent" /\ at \in Nodes
  BY DEF Execute
<1>2. /\ at = Target(in) /\ sent[r].token = in.token
      /\ RequestOK(in) /\ Admitted(in) /\ BodyOK(in) /\ CallOK(CallOf(in))
      /\ phase[r] # "idle"
  BY <1>1, CallOfTask
<1>3. PICK o \in Exec(nodes[at], sent[r].token, CallOf(in)) :
        nodes' = [nodes EXCEPT ![at] = o.node]
  BY DEF Execute
<1>4. execs'[r] = execs[r] + 1
  BY DEF Execute, IInv, Types
<1>5. PICK q \in Inputs : in = Routed(q)
  BY <1>2 DEF IInv, TaskOK
<1>6. Service!Acceptable(in)
  BY <1>2, AcceptableTask
<1> HIDE DEF at
<1>7. a = at /\ nodes'[a] = o.node /\ NodeOK(nodes[at])
  BY <1>1, <1>3 DEF IInv, Types
<1> HIDE DEF in
<1>8. in.token \in Accepts
  BY <1>2, <1>3, <1>7, ExecOK
<1>9. MayChange(nodes[at], o.node, in)
  BY <1>2, <1>3, <1>5, <1>7, CallAsked
<1> QED
  BY <1>2, <1>4, <1>6, <1>7, <1>8, <1>9 DEF in

(* No node is changed but by its restart, its traffic, or a request that   *)
(* named it, was let in, and asks for that change.                         *)
THEOREM NodesChangeAsAsked == Spec => ChangedOnlyAsAsked
<1> DEFINE Asked ==
      \A a \in Nodes :
        nodes'[a] # nodes[a] /\ restarts' = restarts /\ traffic' = traffic =>
          \E r \in Request :
            /\ execs'[r] = execs[r] + 1
            /\ Target(input[r]) = a
            /\ input[r].token \in Accepts
            /\ Service!Acceptable(input[r])
            /\ MayChange(nodes[a], nodes'[a], input[r])
<1>1. IInv /\ TrafficOK /\ [Next]_vars => Asked
  <2> SUFFICES ASSUME IInv, TrafficOK, [Next]_vars, NEW a \in Nodes,
                      nodes'[a] # nodes[a], restarts' = restarts,
                      traffic' = traffic
               PROVE  \E r \in Request :
                        /\ execs'[r] = execs[r] + 1
                        /\ Target(input[r]) = a
                        /\ input[r].token \in Accepts
                        /\ Service!Acceptable(input[r])
                        /\ MayChange(nodes[a], nodes'[a], input[r])
    OBVIOUS
  <2>1. CASE UNCHANGED nodes
    BY <2>1
  <2>2. ASSUME NEW r \in Request, Execute(r)
        PROVE  \E q \in Request :
                 /\ execs'[q] = execs[q] + 1
                 /\ Target(input[q]) = a
                 /\ input[q].token \in Accepts
                 /\ Service!Acceptable(input[q])
                 /\ MayChange(nodes[a], nodes'[a], input[q])
    BY <2>2, ExecuteAsked
  <2>3. ASSUME NEW n \in Nodes, Restart(n)
        PROVE  FALSE
    <3>1. restarts' = restarts + 1 /\ restarts \in 0..MaxRestarts
      BY <2>3 DEF Restart, IInv, Types
    <3> QED
      BY <3>1, BridgeAssumption
  <2>4. ASSUME NEW n \in Nodes, NEW s \in Counted, Traffic(n, s)
        PROVE  FALSE
    <3>1. /\ traffic[<<n, s>>] \in Nat
          /\ traffic'[<<n, s>>] = traffic[<<n, s>>] + 1
      BY <2>4 DEF Traffic, TrafficOK
    <3> QED
      BY <3>1
  <2>5. \/ UNCHANGED nodes
        \/ \E r \in Request : Execute(r)
        \/ \E n \in Nodes : Restart(n) \/ \E s \in Counted : Traffic(n, s)
    BY DEF Next, vars, world, BridgeStep, ClientStep, NetworkStep, NodeStep,
       Extract, RunHandler, Resume, Arrive, Disconnect, ReplyArrives,
       TransportFails, RestartBridge
  <2> QED
    BY <2>1, <2>2, <2>3, <2>4, <2>5
<1>2. Spec => [][Asked]_vars
  BY <1>1, Invariant, TrafficTyped, PTL DEF Spec
<1> QED
  BY <1>2 DEF ChangedOnlyAsAsked


-----------------------------------------------------------------------------
(* What a path names.                                                      *)

(* Paths below a collection, and the rest of them.                         *)
LEMMA BelowIs ==
  ASSUME NEW T, NEW path \in Seq(T), NEW collection, NEW empty,
         Len(path) > 2, SubSeq(path, 1, 2) = <<"v1", collection>>,
         SubSeq(path, 3, Len(path)) # <<empty>>
  PROVE  LET rest == SubSeq(path, 3, Len(path)) IN
         /\ path[1] = "v1" /\ path[2] = collection
         /\ Len(rest) = 1 <=> Len(path) = 3
         /\ Len(path) = 3 => rest = <<path[3]>> /\ rest[1] = path[3]
         /\ Len(path) = 3 => path[3] # empty
<1> DEFINE rest == SubSeq(path, 3, Len(path))
<1>1. path[1] = "v1" /\ path[2] = collection
  BY SubSeqOfTwo, Zenon
<1>2. ASSUME NEW n \in Nat, n = Len(path), n > 2
      PROVE  Len(SubSeq(path, 3, n)) = n - 2
  BY <1>2
<1>3. Len(rest) = 1 <=> Len(path) = 3
  <2>1. ASSUME NEW n \in Nat, NEW m, m = n - 2 PROVE m = 1 <=> n = 3
    BY <2>1
  <2>2. Len(path) \in Nat
    BY LenProperties, Zenon
  <2>3. Len(rest) = Len(path) - 2
    BY <1>2, <2>2, Zenon
  <2> QED
    BY <2>1, <2>2, <2>3, Zenon
<1>4. ASSUME Len(path) = 3
      PROVE  rest = <<path[3]>> /\ rest[1] = path[3]
  <2>1. ASSUME NEW n, n = 3 PROVE 3 \in 1..n
    BY <2>1
  <2>2. 3 \in 1..Len(path)
    BY <1>4, <2>1, Zenon
  <2>3. SubSeq(path, 3, 3) = <<path[3]>> /\ SubSeq(path, 3, 3)[1] = path[3]
    BY <2>2, SubSeqOfOne, Zenon
  <2> QED
    BY <1>4, <2>3, Zenon
<1>5. ASSUME Len(path) = 3 PROVE path[3] # empty
  BY <1>4, <1>5, Zenon
<1> QED
  BY <1>1, <1>3, <1>4, <1>5, Zenon
(* The same below /v1/users and /v1/stats.                                 *)
LEMMA BelowUsers ==
  ASSUME NEW T, NEW path \in Seq(T), Len(path) > 2,
         SubSeq(path, 1, 2) = <<"v1", "users">>,
         Len(SubSeq(path, 3, Len(path))) = 1,
         SubSeq(path, 3, Len(path)) # <<"">>
  PROVE  /\ path[1] = "v1" /\ path[2] = "users" /\ Len(path) = 3
         /\ path[3] # "" /\ SubSeq(path, 3, Len(path))[1] = path[3]
BY BelowIs, Zenon

(* The same below /v1/stats.                                               *)
LEMMA BelowStats ==
  ASSUME NEW T, NEW path \in Seq(T), Len(path) > 2,
         SubSeq(path, 1, 2) = <<"v1", "stats">>,
         SubSeq(path, 3, Len(path)) # <<"">>
  PROVE  /\ path[1] = "v1" /\ path[2] = "stats"
         /\ Len(path) = 3 => path[3] # ""
BY BelowIs, Zenon

(* A request is served by the routing table.                               *)
LEMMA OpOfLine ==
  ASSUME NEW q \in Inputs
  PROVE  LET in == Routed(q) IN
         /\ in.path \in Seq({in.path[i] : i \in DOMAIN in.path})
         /\ in.op = OpFor(in.method, in.path) /\ in.id = NameOf(in.op, in)
<1>1. DOMAIN q = RequestFields
  BY InputsAssumption
<1>2. /\ Routed(q).op = OpFor(q.method, q.path)
      /\ Routed(q).method = q.method /\ Routed(q).path = q.path
  BY <1>1, RoutedFields DEF RequestFields
<1> QED
  BY <1>2, RoutedBy

(* What PathsNameTheirSubject says of one request.                         *)
NamesItsSubject(in) ==
  LET Below(collection) ==
        Len(in.path) > 2 /\ SubSeq(in.path, 1, 2) = <<"v1", collection>>
      read == in.method \in {"GET", "HEAD"}
      rest == SubSeq(in.path, 3, Len(in.path))
  IN  /\ Below("users") /\ Len(rest) = 1 /\ rest # <<"">> =>
           CASE in.method = "DELETE" /\ rest[1] \notin {"online", "stats"} ->
                  in.op = "remove_user" /\ in.id = TextOf(rest[1])
             [] read /\ rest[1] = "online" -> in.op = "get_online_users"
             [] read /\ rest[1] = "stats" -> in.op = "get_users_stats"
             [] OTHER -> in.op = "method_not_allowed"
      /\ Below("stats") /\ rest # <<"">> =>
           IF read
           THEN /\ in.op = "get_stat"
                /\ in.id = IF rest \in DOMAIN Decoded THEN Decoded[rest]
                           ELSE rest[1]
           ELSE in.op = "method_not_allowed"

(* The routing table leads where the path says.                            *)
LEMMA PathNames ==
  ASSUME NEW q \in Inputs
  PROVE  NamesItsSubject(Routed(q))
<1> DEFINE in == Routed(q)
           T == {in.path[i] : i \in DOMAIN in.path}
           path == in.path
           rest == SubSeq(path, 3, Len(path))
           read == in.method \in {"GET", "HEAD"}
<1>1. /\ path \in Seq(T) /\ in.op = OpFor(in.method, path)
      /\ in.id = NameOf(in.op, in)
  BY OpOfLine
<1> HIDE DEF in, T
<1>2. /\ in.op = "remove_user" => in.id = Capture(path)
      /\ in.op = "get_stat" => in.id = Capture(path)
  BY <1>1 DEF NameOf
<1> HIDE DEF path
<1>3. ASSUME Len(path) > 2, SubSeq(path, 1, 2) = <<"v1", "users">>,
             Len(rest) = 1, rest # <<"">>
      PROVE  CASE in.method = "DELETE" /\ rest[1] \notin {"online", "stats"} ->
                    in.op = "remove_user" /\ in.id = TextOf(rest[1])
               [] read /\ rest[1] = "online" -> in.op = "get_online_users"
               [] read /\ rest[1] = "stats" -> in.op = "get_users_stats"
               [] OTHER -> in.op = "method_not_allowed"
  <2>1. /\ path[1] = "v1" /\ path[2] = "users" /\ Len(path) = 3
        /\ path[3] # "" /\ rest[1] = path[3]
    BY <1>1, <1>3, BelowUsers, Zenon
  <2> DEFINE user == path[3] \notin {"online", "stats"}
  <2>2. /\ in.method = "DELETE" /\ user =>
             /\ in.op = "remove_user"
             /\ Capture(path) = TextOf(path[3])
        /\ read /\ path[3] = "online" => in.op = "get_online_users"
        /\ read /\ path[3] = "stats" => in.op = "get_users_stats"
        /\ ~(in.method = "DELETE" /\ user) /\ ~(read /\ ~user) =>
             in.op = "method_not_allowed"
    <3>1. /\ in.method = "DELETE" /\ user =>
               /\ OpFor(in.method, path) = "remove_user"
               /\ Capture(path) = IF <<path[3]>> \in DOMAIN Decoded
                                  THEN Decoded[<<path[3]>>] ELSE path[3]
          /\ read /\ path[3] = "online" =>
               OpFor(in.method, path) = "get_online_users"
          /\ read /\ path[3] = "stats" =>
               OpFor(in.method, path) = "get_users_stats"
          /\ ~(in.method = "DELETE" /\ user) /\ ~(read /\ ~user) =>
               OpFor(in.method, path) = "method_not_allowed"
      BY <1>1, <2>1, OpBelowUsers, Zenon
    <3> QED
      BY <1>1, <3>1, Zenon DEF TextOf
  <2> HIDE DEF rest
  <2> QED
    BY <1>2, <2>1, <2>2
<1>4. ASSUME Len(path) > 2, SubSeq(path, 1, 2) = <<"v1", "stats">>,
             rest # <<"">>
      PROVE  IF read
             THEN /\ in.op = "get_stat"
                  /\ in.id = IF rest \in DOMAIN Decoded THEN Decoded[rest]
                             ELSE rest[1]
             ELSE in.op = "method_not_allowed"
  <2>1. /\ path[1] = "v1" /\ path[2] = "stats"
        /\ Len(path) = 3 => path[3] # ""
    BY <1>1, <1>4, BelowStats, Zenon
  <2>2. IF read
        THEN /\ OpFor(in.method, path) = "get_stat"
             /\ Capture(path) = IF rest \in DOMAIN Decoded THEN Decoded[rest]
                                ELSE rest[1]
        ELSE OpFor(in.method, path) = "method_not_allowed"
    BY <1>1, <1>4, <2>1, OpBelowStats, Zenon
  <2> HIDE DEF rest
  <2> QED
    BY <1>1, <1>2, <2>2
<1> QED
  BY <1>3, <1>4, Zenon DEF NamesItsSubject, in, path

(* Below /v1/users/ and /v1/stats/ the path says whom a request is about.  *)
THEOREM PathsNameSubjects == Spec => []PathsNameTheirSubject
<1>1. IInv => PathsNameTheirSubject
  <2> SUFFICES ASSUME IInv PROVE PathsNameTheirSubject
    OBVIOUS
  <2>1. ASSUME NEW r \in Request, input[r] # Nothing
        PROVE  \E q \in Inputs : input[r] = Routed(q)
    BY <2>1 DEF IInv, Types
  <2>2. ASSUME NEW r \in Request, input[r] # Nothing
        PROVE  NamesItsSubject(input[r])
    BY <2>1, <2>2, PathNames
  <2> QED
    BY <2>2, Zenon DEF PathsNameTheirSubject, NamesItsSubject
<1> QED
  BY <1>1, Invariant, PTL

-----------------------------------------------------------------------------
(* The counters of a node, and what replies tell of them.                  *)

(* What a counter of a node reads.                                         *)
CountOf(node, s) ==
  IF s \in DOMAIN node.counters THEN node.counters[s] ELSE 0

(* A read leaves a counter, or sets it to 0.                               *)
LEMMA CountAfterRead ==
  ASSUME NEW node, NodeOK(node), NEW names \in SUBSET DOMAIN node.counters,
         NEW reset \in BOOLEAN, NEW s
  PROVE  CountOf(ReadCounters(node, names, reset), s) =
           IF reset /\ s \in names THEN 0 ELSE CountOf(node, s)
<1> DEFINE new == [n \in DOMAIN node.counters |->
                     IF reset /\ n \in names THEN 0 ELSE node.counters[n]]
<1>1. ReadCounters(node, names, reset).counters = new
  BY DEF NodeOK, NodeIs, ReadCounters
<1> QED
  BY <1>1 DEF CountOf

(* The v units of one item.                                                *)
UnitsOf(i, v) == {i} \X (1..v)

(* What a reading of the counters in names tells,                          *)
Figures(counters, names) == {Item(n, counters[n]) : n \in names}

(* and the units of s in it.                                               *)
LEMMA UnitsRead ==
  ASSUME NEW counters, NEW names, NEW s
  PROVE  Units(Figures(counters, names), s) =
           IF s \in names THEN UnitsOf(Item(s, counters[s]), counters[s])
           ELSE {}
<1> DEFINE items == Figures(counters, names)
           theirs == {i \in items : i.id = s}
<1>1. \A n : Item(n, counters[n]).id = n /\ Item(n, counters[n]).value = counters[n]
  BY DEF Item
<1>2. CASE s \in names
  <2>1. theirs = {Item(s, counters[s])}
    BY <1>1, <1>2 DEF Figures
  <2> HIDE DEF theirs
  <2>2. UNION {{i} \X (1..i.value) : i \in theirs} =
          {Item(s, counters[s])} \X (1..Item(s, counters[s]).value)
    BY <2>1
  <2> QED
    BY <1>1, <1>2, <2>2 DEF Units, UnitsOf, theirs
<1>3. CASE s \notin names
  <2>1. theirs = {}
    BY <1>1, <1>3 DEF Figures
  <2> HIDE DEF theirs
  <2>2. UNION {{i} \X (1..i.value) : i \in theirs} = {}
    BY <2>1
  <2> QED
    BY <1>3, <2>2 DEF Units, theirs
<1> QED
  BY <1>2, <1>3

(* Nothing told, no units.                                                 *)
LEMMA NoUnits == \A s : Units({}, s) = {}
BY DEF Units

(* The v units of one item in the reply to r,                              *)
Owned(r, i, v) == {r} \X UnitsOf(i, v)

(* and how many they are.                                                  *)
LEMMA CountUnits ==
  ASSUME NEW r, NEW i, NEW v \in Nat
  PROVE  IsFiniteSet(Owned(r, i, v)) /\ Cardinality(Owned(r, i, v)) = v
<1> DEFINE S == {r} \X ({i} \X (1..v))
           f == [n \in 1..v |-> <<r, <<i, n>>>>]
<1>1. f \in [1..v -> S]
  OBVIOUS
<1>2. \A m, n \in 1..v : f[m] = f[n] => m = n
  OBVIOUS
<1>3. \A u \in S : \E n \in 1..v : f[n] = u
  <2> SUFFICES ASSUME NEW u \in S PROVE \E n \in 1..v : f[n] = u
    OBVIOUS
  <2>1. PICK n \in 1..v : u = <<r, <<i, n>>>>
    OBVIOUS
  <2> QED
    BY <2>1
<1> HIDE DEF f, S
<1>4. f \in Bijection(1..v, S)
  BY <1>1, <1>2, <1>3 DEF Bijection, Injection, Surjection, IsInjective
<1>5. ExistsBijection(1..v, S)
  BY <1>4 DEF ExistsBijection
<1>6. IsFiniteSet(1..v) /\ Cardinality(1..v) = v
  BY FS_Interval
<1>7. IsFiniteSet(S) /\ Cardinality(S) = v
  BY <1>5, <1>6, FS_Bijection
<1> QED
  BY <1>7 DEF S, Owned, UnitsOf

(* The units of s in the replies b to the requests rs.                     *)
UnitsTold(rs, b, s) == UNION {{r} \X Units(b[r].payload, s) : r \in rs}

(* Replies that stay tell what they told.                                  *)
LEMMA SameTold ==
  ASSUME NEW rs, NEW b, NEW c, NEW s, \A q \in rs : c[q] = b[q]
  PROVE  UnitsTold(rs, c, s) = UnitsTold(rs, b, s)
BY DEF UnitsTold

(* One more reply tells units of its own.                                  *)
LEMMA MoreTold ==
  ASSUME NEW rs, NEW b, NEW c, NEW s, NEW r, r \notin rs,
         \A q \in rs : c[q] = b[q]
  PROVE  LET more == {r} \X Units(c[r].payload, s) IN
         /\ UnitsTold(rs \cup {r}, c, s) = UnitsTold(rs, b, s) \cup more
         /\ UnitsTold(rs, b, s) \cap more = {}
<1> DEFINE U(q) == Units(c[q].payload, s)
<1>1. UnitsTold(rs, b, s) = UNION {{q} \X U(q) : q \in rs}
  BY DEF UnitsTold
<1>2. UnitsTold(rs \cup {r}, c, s) = UNION {{q} \X U(q) : q \in rs \cup {r}}
  BY DEF UnitsTold
<1> HIDE DEF U
<1>3. UNION {{q} \X U(q) : q \in rs \cup {r}} =
        (UNION {{q} \X U(q) : q \in rs}) \cup ({r} \X U(r))
  OBVIOUS
<1>4. (UNION {{q} \X U(q) : q \in rs}) \cap ({r} \X U(r)) = {}
  <2> SUFFICES ASSUME NEW u, u \in UNION {{q} \X U(q) : q \in rs},
                      u \in {r} \X U(r)
               PROVE  FALSE
    OBVIOUS
  <2>1. PICK q \in rs : u \in {q} \X U(q)
    OBVIOUS
  <2>2. u[1] = q
    BY <2>1
  <2>3. u[1] = r
    OBVIOUS
  <2> QED
    BY <2>2, <2>3
<1>5. U(r) = Units(c[r].payload, s)
  BY DEF U
<1> QED
  BY <1>1, <1>2, <1>3, <1>4, <1>5

(* A reply that tells nothing,                                             *)
LEMMA NothingMore ==
  ASSUME NEW rs, NEW b, NEW c, NEW s, NEW r, r \notin rs,
         \A q \in rs : c[q] = b[q], Units(c[r].payload, s) = {}
  PROVE  UnitsTold(rs \cup {r}, c, s) = UnitsTold(rs, b, s)
<1> DEFINE more == {r} \X Units(c[r].payload, s)
<1>1. more = {}
  OBVIOUS
<1>2. UnitsTold(rs \cup {r}, c, s) = UnitsTold(rs, b, s) \cup more
  BY MoreTold
<1> HIDE DEF more
<1> QED
  BY <1>1, <1>2

(* and one that tells v units.                                             *)
LEMMA CountMore ==
  ASSUME NEW rs, NEW b, NEW c, NEW s, NEW r, r \notin rs,
         \A q \in rs : c[q] = b[q], NEW i, NEW v \in Nat,
         Units(c[r].payload, s) = UnitsOf(i, v),
         IsFiniteSet(UnitsTold(rs, b, s))
  PROVE  /\ IsFiniteSet(UnitsTold(rs \cup {r}, c, s))
         /\ Cardinality(UnitsTold(rs \cup {r}, c, s)) =
              Cardinality(UnitsTold(rs, b, s)) + v
<1> DEFINE old == UnitsTold(rs, b, s)
           more == {r} \X Units(c[r].payload, s)
<1>1. UnitsTold(rs \cup {r}, c, s) = old \cup more /\ old \cap more = {}
  BY MoreTold
<1>2. IsFiniteSet(more) /\ Cardinality(more) = v
  <2>1. more = Owned(r, i, v)
    BY DEF Owned
  <2> HIDE DEF more
  <2> QED
    BY <2>1, CountUnits
<1> HIDE DEF old, more
<1>3. /\ IsFiniteSet(old \cup more)
      /\ Cardinality(old \cup more) =
           Cardinality(old) + Cardinality(more) - Cardinality(old \cap more)
  BY <1>2, FS_Union DEF old
<1>4. Cardinality(old \cap more) = 0
  BY <1>1, FS_EmptySet
<1>5. Cardinality(old) \in Nat
  BY FS_CardinalityType DEF old
<1>6. Cardinality(old \cup more) = Cardinality(old) + v
  BY <1>2, <1>3, <1>4, <1>5
<1> QED
  BY <1>1, <1>3, <1>6 DEF old

(* What the outcome o of the call c at a node does to counter s: a reset   *)
(* tells what it takes, and nothing else takes any.                        *)
Takes(node, c, o, s) ==
  \/ /\ CountOf(o.node, s) = CountOf(node, s)
     /\ c.reset => Units(o.reply.payload, s) = {}
  \/ /\ c.reset /\ CountOf(o.node, s) = 0
     /\ Units(o.reply.payload, s) =
          UnitsOf(Item(s, CountOf(node, s)), CountOf(node, s))

(* Only calls that read figures touch counters.                            *)
LEMMA TakesByReadStats ==
  ASSUME NEW node, NodeOK(node), NEW c, CallOK(c),
         c.method \in {"GetStats", "QueryStats", "GetUsersStats"},
         NEW o \in ReadStats(node, c), NEW s
  PROVE  Takes(node, c, o, s)
<1> DEFINE names == NamesRead(c) \cap DOMAIN node.counters
           items == Figures(node.counters, names)
<1>1. \/ o.node = node /\ o.reply.payload = {}
      \/ /\ o.node = ReadCounters(node, names, c.reset)
         /\ o.reply.payload = items
  BY ReadStatsOutcomes DEF Fails, Figures
<1>2. names \in SUBSET DOMAIN node.counters /\ c.reset \in BOOLEAN
  BY DEF CallOK
<1> HIDE DEF names
<1>3. Units(items, s) =
        IF s \in names
        THEN UnitsOf(Item(s, node.counters[s]), node.counters[s]) ELSE {}
  BY UnitsRead
<1>4. s \in names => CountOf(node, s) = node.counters[s]
  BY <1>2 DEF CountOf
<1> HIDE DEF items
<1>5. CountOf(ReadCounters(node, names, c.reset), s) =
        IF c.reset /\ s \in names THEN 0 ELSE CountOf(node, s)
  BY <1>2, CountAfterRead
<1>6. CASE o.node = node /\ o.reply.payload = {}
  BY <1>6, NoUnits DEF Takes
<1>7. CASE /\ o.node = ReadCounters(node, names, c.reset)
           /\ o.reply.payload = items
  <2>1. CASE c.reset /\ s \in names
    BY <1>3, <1>4, <1>5, <1>7, <2>1 DEF Takes
  <2>2. CASE ~c.reset
    BY <1>5, <1>7, <2>2 DEF Takes
  <2>3. CASE s \notin names
    BY <1>3, <1>5, <1>7, <2>3 DEF Takes
  <2> QED
    BY <2>1, <2>2, <2>3
<1> QED
  BY <1>1, <1>6, <1>7

(* A node with these counters.                                             *)
LEMMA CountersOf ==
  ASSUME NEW node, NEW i, NEW o, NEW u, NEW l, NEW b, NEW k,
         NodeIs(node, i, o, u, l, b, k)
  PROVE  node.counters = k
BY DEF NodeIs

(* Who changes the users of an inbound leaves the counters alone,          *)
LEMMA UsersKeepCounters ==
  ASSUME NEW node, NodeOK(node), NEW c, CallOK(c),
         c.method \in {"AddUser", "RemoveUser"}, NEW o \in AlterInbound(node, c)
  PROVE  o.node.counters = node.counters
<1> DEFINE same == UserIn(node, c.tag, c.id)
           new == [tag |-> c.tag, email |-> c.id, what |-> c.what]
<1>1. \/ o.node = node
      \/ NodeIs(o.node, node.inbounds, node.outbounds, node.users \cup {new},
                node.rules, node.override, node.counters)
      \/ NodeIs(o.node, node.inbounds, node.outbounds, node.users \ same,
                node.rules, node.override, node.counters)
  BY AlterInboundOutcomes DEF Fails, Succeeds
<1> HIDE DEF same, new
<1> QED
  BY <1>1, CountersOf

(* so does who changes the inbounds,                                       *)
LEMMA InboundsKeepCounters ==
  ASSUME NEW node, NodeOK(node), NEW c, CallOK(c),
         c.method \in {"ListInbounds", "AddInbound", "RemoveInbound"},
         NEW o \in ManageInbounds(node, c)
  PROVE  o.node.counters = node.counters
<1> DEFINE same == Tagged(node.inbounds, c.tag)
           gone == Tagged(node.users, c.tag)
           new == [tag |-> c.tag, config |-> c.what]
<1>1. \/ o.node = node
      \/ NodeIs(o.node, node.inbounds \cup {new}, node.outbounds, node.users,
                node.rules, node.override, node.counters)
      \/ NodeIs(o.node, node.inbounds \ same, node.outbounds,
                node.users \ gone, node.rules, node.override, node.counters)
  BY ManageInboundsOutcomes DEF Fails, Succeeds
<1> HIDE DEF same, gone, new
<1> QED
  BY <1>1, CountersOf

(* the outbounds,                                                          *)
LEMMA OutboundsKeepCounters ==
  ASSUME NEW node, NodeOK(node), NEW c, CallOK(c),
         c.method \in {"ListOutbounds", "AddOutbound", "RemoveOutbound"},
         NEW o \in ManageOutbounds(node, c)
  PROVE  o.node.counters = node.counters
<1> DEFINE same == Tagged(node.outbounds, c.tag)
           new == [tag |-> c.tag, config |-> c.what]
<1>1. \/ o.node = node
      \/ NodeIs(o.node, node.inbounds, node.outbounds \cup {new}, node.users,
                node.rules, node.override, node.counters)
      \/ NodeIs(o.node, node.inbounds, node.outbounds \ same, node.users,
                node.rules, node.override, node.counters)
  BY ManageOutboundsOutcomes DEF Fails, Succeeds
<1> HIDE DEF same, new
<1> QED
  BY <1>1, CountersOf

(* or the routing.                                                         *)
LEMMA RoutingKeepsCounters ==
  ASSUME NEW node, NodeOK(node), NEW c, CallOK(c),
         c.method \in {"ListRule", "RemoveRule", "GetBalancerInfo",
                       "OverrideBalancerTarget"},
         NEW o \in ManageRouting(node, c)
  PROVE  o.node.counters = node.counters
<1> DEFINE rest == node.rules \ {c.tag}
           override == [node.override EXCEPT ![c.tag] = c.id]
<1>1. \/ o.node = node
      \/ NodeIs(o.node, node.inbounds, node.outbounds, node.users,
                rest, node.override, node.counters)
      \/ NodeIs(o.node, node.inbounds, node.outbounds, node.users,
                node.rules, override, node.counters)
  BY ManageRoutingOutcomes DEF Fails, Succeeds
<1> HIDE DEF rest, override
<1> QED
  BY <1>1, CountersOf

(* Only figures that are read can be reset.                                *)
LEMMA ResetsRead ==
  ASSUME NEW in, RequestOK(in), ResetOf(in)
  PROVE  CallOf(in).method \in {"GetStats", "QueryStats", "GetUsersStats"}
BY MethodTells DEF ResetOf, Resets

(* A call that resets nothing takes nothing.                               *)
LEMMA TakesNothing ==
  ASSUME NEW node, NEW c, ~c.reset, NEW o,
         o.node.counters = node.counters, NEW s
  PROVE  Takes(node, c, o, s)
BY DEF Takes, CountOf

(* Whatever comes of the call of a handler.                                *)
LEMMA CallTakes ==
  ASSUME NEW node, NodeOK(node), NEW token, NEW in, RequestOK(in),
         NEW o \in Exec(node, token, CallOf(in)), NEW s
  PROVE  Takes(node, CallOf(in), o, s)
<1> DEFINE c == CallOf(in)
<1>1. CallOK(c) /\ c.method \in Method
  BY CallOfOK DEF CallOK
<1>2. c.reset => c.method \in {"GetStats", "QueryStats", "GetUsersStats"}
  BY ResetsRead, CallFields
<1> HIDE DEF c
<1>3. o \in Exec(node, token, c)
  BY DEF c
<1> SUFFICES Takes(node, c, o, s)
  BY DEF c
<1>4. CASE o \in Refuse(node, RefusalErrors)
  <2>1. o.node = node /\ o.reply.payload = {}
    BY <1>4 DEF Refuse
  <2> QED
    BY <2>1, NoUnits DEF Takes
<1>5. CASE c.method \in {"GetStats", "QueryStats", "GetUsersStats"}
  <2>1. \/ o \in Refuse(node, RefusalErrors)
        \/ o \in ReadStats(node, c)
    BY <1>1, <1>3, <1>5, ExecCases
  <2> QED
    BY <1>1, <1>4, <1>5, <2>1, TakesByReadStats
<1>6. CASE /\ c.method \notin {"GetStats", "QueryStats", "GetUsersStats"}
           /\ o \notin Refuse(node, RefusalErrors)
  <2>1. CASE c.method \in {"AddUser", "RemoveUser"}
    <3>1. o \in AlterInbound(node, c)
      BY <1>1, <1>3, <1>6, <2>1, ExecCases
    <3> QED
      BY <1>1, <1>2, <1>6, <2>1, <3>1, UsersKeepCounters, TakesNothing
  <2>2. CASE c.method \in {"ListInbounds", "AddInbound", "RemoveInbound"}
    <3>1. o \in ManageInbounds(node, c)
      BY <1>1, <1>3, <1>6, <2>2, ExecCases
    <3> QED
      BY <1>1, <1>2, <1>6, <2>2, <3>1, InboundsKeepCounters, TakesNothing
  <2>3. CASE c.method \in {"ListOutbounds", "AddOutbound", "RemoveOutbound"}
    <3>1. o \in ManageOutbounds(node, c)
      BY <1>1, <1>3, <1>6, <2>3, ExecCases
    <3> QED
      BY <1>1, <1>2, <1>6, <2>3, <3>1, OutboundsKeepCounters, TakesNothing
  <2>4. CASE c.method \in {"ListRule", "RemoveRule", "GetBalancerInfo",
                           "OverrideBalancerTarget"}
    <3>1. o \in ManageRouting(node, c)
      BY <1>1, <1>3, <1>6, <2>4, ExecCases
    <3> QED
      BY <1>1, <1>2, <1>6, <2>4, <3>1, RoutingKeepsCounters, TakesNothing
  <2>5. CASE c.method \in {"TestRoute", "GetSysStats", "GetAllOnlineUsers",
                           "RestartLogger"}
    <3>1. PICK payload : o \in Success(node, payload)
      BY <1>1, <1>3, <1>6, <2>5, ExecCases
    <3>2. o.node = node
      BY <3>1 DEF Success
    <3> QED
      BY <1>2, <1>6, <3>2, TakesNothing
  <2> QED
    BY <1>1, <1>6, <2>1, <2>2, <2>3, <2>4, <2>5 DEF Method
<1> QED
  BY <1>4, <1>5, <1>6

(* A reply that tells an error tells no figures, and one to get_stat only  *)
(* those of the counter that was asked for.                                *)
PayloadOK(in, rep) ==
  /\ rep.status # StatusOK => rep.payload = {}
  /\ in.op = "get_stat" => \A i \in rep.payload : i.id = in.id

(* It is so of every reply.                                                *)
LEMMA CallPayload ==
  ASSUME NEW node, NodeOK(node), NEW token, NEW in, RequestOK(in),
         NEW o \in Exec(node, token, CallOf(in))
  PROVE  PayloadOK(in, o.reply)
<1> DEFINE c == CallOf(in)
<1>1. CallOK(c) /\ c.method \in Method
  BY CallOfOK DEF CallOK
<1>2. in.op = "get_stat" => c.method = "GetStats" /\ c.id = in.id
  BY MethodTells, CallFields
<1> HIDE DEF c
<1>3. o \in Exec(node, token, c)
  BY DEF c
<1>4. o.reply.status # StatusOK => o.reply.payload = {}
  BY <1>1, <1>3, ExecOK DEF OutcomeOK
<1>5. ASSUME in.op = "get_stat"
      PROVE  \A i \in o.reply.payload : i.id = in.id
  <2>1. CASE o \in Refuse(node, RefusalErrors)
    BY <2>1 DEF Refuse
  <2>2. CASE o \in ReadStats(node, c)
    <3>1. \/ o.reply.payload = {}
          \/ o.reply.payload = {Item(s, node.counters[s]) :
                                  s \in NamesRead(c) \cap DOMAIN node.counters}
      BY <1>1, <1>2, <1>5, <2>2, ReadStatsOutcomes DEF Fails
    <3>2. NamesRead(c) = {in.id}
      BY <1>2, <1>5 DEF NamesRead
    <3> QED
      BY <3>1, <3>2 DEF Item
  <2> QED
    BY <1>1, <1>2, <1>3, <1>5, <2>1, <2>2, ExecCases
<1> QED
  BY <1>4, <1>5 DEF PayloadOK

-----------------------------------------------------------------------------
(* Where the units of traffic are.                                         *)

(* How much counter s of a node reads.                                     *)
LEMMA CountIsNat ==
  ASSUME NEW node, NodeOK(node), NEW s
  PROVE  CountOf(node, s) \in Nat
BY DEF NodeOK, CountOf

(* What a fresh node has counted,                                          *)
LEMMA CountOfFresh == \A s : CountOf(FreshNode, s) = 0
<1> DEFINE none == [s \in {} |-> 0]
<1>1. FreshNode.counters = none /\ DOMAIN none = {}
  BY DEF FreshNode
<1> HIDE DEF none
<1> QED
  BY <1>1 DEF CountOf

(* and what a node has that carried one more unit of s.                    *)
LEMMA CountCarried ==
  ASSUME NEW node, NodeOK(node), NEW s, NEW t
  PROVE  CountOf(Carry(node, s), t) =
           IF t = s THEN CountOf(node, t) + 1 ELSE CountOf(node, t)
<1> DEFINE count == [c \in DOMAIN node.counters \cup {s} |->
                       (IF c \in DOMAIN node.counters
                        THEN node.counters[c] ELSE 0)
                       + (IF c = s THEN 1 ELSE 0)]
<1>1. Carry(node, s).counters = count
  BY DEF NodeOK, NodeIs, Carry
<1>2. /\ DOMAIN count = DOMAIN node.counters \cup {s}
      /\ \A c \in DOMAIN count :
           count[c] = (IF c \in DOMAIN node.counters
                       THEN node.counters[c] ELSE 0)
                      + (IF c = s THEN 1 ELSE 0)
      /\ \A c \in DOMAIN node.counters : node.counters[c] \in Nat
  BY DEF NodeOK
<1> HIDE DEF count
<1> QED
  BY <1>1, <1>2 DEF CountOf

(* The requests whose resets node a executed.                              *)
Finding(a) ==
  {r \in Request : /\ wire[r] = "executed" /\ ResetOf(input[r])
                   /\ Target(input[r]) = a}

(* What the replies b to the requests rs tell of counter s, and what it    *)
(* still reads, is no more than was carried, and all of it if up.          *)
Balances(rs, b, s, current, carried, up) ==
  LET told == UnitsTold(rs, b, s) IN
  /\ IsFiniteSet(told)
  /\ Cardinality(told) + current <= carried
  /\ up => Cardinality(told) + current = carried

(* Every unit of traffic is in its counter, or was told once by a reply    *)
(* that set the counter to 0; those a restart forgot are neither.          *)
CInv ==
  /\ \A r \in Request : wire[r] = "executed" => PayloadOK(input[r], back[r])
  /\ \A a \in Nodes, s \in Counted :
       Balances(Finding(a), back, s, CountOf(nodes[a], s), traffic[<<a, s>>],
                restarts = 0)

(* A call takes from a counter what its reply tells.                       *)
LEMMA CallBalances ==
  ASSUME NEW rs, NEW b, NEW c, NEW s, NEW r, r \notin rs,
         \A q \in rs : c[q] = b[q],
         NEW node, NEW call, NEW o, c[r] = o.reply, Takes(node, call, o, s),
         CountOf(node, s) \in Nat, NEW carried \in Nat, NEW up,
         Balances(rs, b, s, CountOf(node, s), carried, up)
  PROVE  Balances(IF call.reset THEN rs \cup {r} ELSE rs, c, s,
                  CountOf(o.node, s), carried, up)
<1> DEFINE count == CountOf(node, s)
           left == CountOf(o.node, s)
           all == rs \cup {r}
           payload == o.reply.payload
<1>1. /\ IsFiniteSet(UnitsTold(rs, b, s))
      /\ Cardinality(UnitsTold(rs, b, s)) \in Nat
  BY FS_CardinalityType DEF Balances
<1>2. UnitsTold(rs, c, s) = UnitsTold(rs, b, s)
  BY SameTold
<1>3. CASE left = count /\ ~call.reset
  BY <1>2, <1>3 DEF Balances
<1>4. CASE left = count /\ call.reset /\ Units(payload, s) = {}
  <2>1. UnitsTold(all, c, s) = UnitsTold(rs, b, s)
    BY <1>4, NothingMore
  <2> QED
    BY <1>4, <2>1 DEF Balances
<1>5. CASE /\ call.reset /\ left = 0
           /\ Units(payload, s) = UnitsOf(Item(s, count), count)
  <2> DEFINE i == Item(s, count)
  <2>1. Units(c[r].payload, s) = UnitsOf(i, count)
    BY <1>5
  <2> HIDE DEF i, count, left, all
  <2>2. count \in Nat
    BY DEF count
  <2>3. /\ IsFiniteSet(UnitsTold(all, c, s))
        /\ Cardinality(UnitsTold(all, c, s)) =
             Cardinality(UnitsTold(rs, b, s)) + count
    BY <1>1, <2>1, <2>2, CountMore DEF all
  <2>4. Balances(rs, b, s, count, carried, up)
    BY DEF count
  <2>5. Balances(all, c, s, 0, carried, up)
    BY <1>1, <2>2, <2>3, <2>4 DEF Balances
  <2> QED
    BY <1>5, <2>5 DEF all, left
<1> QED
  BY <1>3, <1>4, <1>5 DEF Takes

(* What does not concern the calls that were executed, the nodes and their *)
(* traffic leaves all of it.                                               *)
LEMMA CountsStay ==
  ASSUME CInv, UNCHANGED <<back, nodes, traffic, restarts>>,
         \A r \in Request :
           /\ wire'[r] = "executed" <=> wire[r] = "executed"
           /\ wire[r] = "executed" => input'[r] = input[r]
  PROVE  CInv'
<1>1. \A r \in Request :
        wire'[r] = "executed" => PayloadOK(input'[r], back'[r])
  BY DEF CInv
<1>2. \A a : Finding(a)' = Finding(a)
  BY DEF Finding
<1> QED
  BY <1>1, <1>2 DEF CInv

(* What the bridge and its clients do concerns no call that was executed.  *)
LEMMA CountsOfBridge ==
  ASSUME IInv, CInv, NEW r \in Request,
         BridgeStep(r) \/ ClientStep(r) \/ ReplyArrives(r) \/ TransportFails(r)
  PROVE  CInv'
<1>1. UNCHANGED <<back, nodes, traffic, restarts>>
  BY DEF BridgeStep, ClientStep, Extract, RunHandler, Resume, Arrive,
     Disconnect, ReplyArrives, TransportFails, calls, world
<1>2. CASE RunHandler(r)
  <2>1. wire[r] # "executed"
    BY <1>2, CallOfTask DEF RunHandler
  <2>2. input' = input /\ (wire' = wire \/ wire' = [wire EXCEPT ![r] = "sent"])
    BY <1>2 DEF RunHandler, Send
  <2> QED
    BY <1>1, <2>1, <2>2, CountsStay DEF IInv, Types
<1>3. ASSUME NEW q \in Inputs, Arrive(r, q) PROVE CInv'
  <2>1. wire[r] # "executed"
    BY <1>3, CallOfTask DEF Arrive
  <2>2. wire' = wire /\ input' = [input EXCEPT ![r] = Routed(q)]
    BY <1>3 DEF Arrive, calls
  <2> QED
    BY <1>1, <2>1, <2>2, CountsStay DEF IInv, Types
<1>4. CASE \/ Extract(r) \/ Resume(r) \/ Disconnect(r)
           \/ ReplyArrives(r) \/ TransportFails(r)
  <2>1. wire' = wire /\ input' = input
    BY <1>4 DEF Extract, Resume, Disconnect, ReplyArrives, TransportFails,
       calls, tasks
  <2> QED
    BY <1>1, <2>1, CountsStay
<1> QED
  BY <1>2, <1>3, <1>4 DEF BridgeStep, ClientStep

(* A call that a node executes.                                            *)
LEMMA CountsOfExecute ==
  ASSUME IInv, TrafficOK, CInv, NEW r \in Request, Execute(r)
  PROVE  CInv'
<1> DEFINE at == AddressOf(sent[r])
           in == input[r]
<1>1. /\ wire[r] = "sent" /\ at \in Nodes
      /\ wire' = [wire EXCEPT ![r] = "executed"]
      /\ UNCHANGED <<input, traffic, restarts>>
  BY DEF Execute, tasks
<1>2. /\ at = Target(in) /\ RequestOK(in)
  BY <1>1, CallOfTask
<1>3. PICK o \in Exec(nodes[at], sent[r].token, CallOf(in)) :
        /\ nodes' = [nodes EXCEPT ![at] = o.node]
        /\ back' = [back EXCEPT ![r] = o.reply]
  BY DEF Execute
<1>4. /\ NodeOK(nodes[at]) /\ nodes = [a \in Nodes |-> nodes[a]]
      /\ back = [q \in Request |-> back[q]]
      /\ wire = [q \in Request |-> wire[q]]
  BY <1>1 DEF IInv, Types
<1> HIDE DEF at
<1>5. /\ wire'[r] = "executed" /\ back'[r] = o.reply
      /\ \A q \in Request \ {r} : wire'[q] = wire[q] /\ back'[q] = back[q]
      /\ nodes'[at] = o.node /\ \A a \in Nodes \ {at} : nodes'[a] = nodes[a]
  BY <1>1, <1>3, <1>4
<1>6. PayloadOK(in, o.reply)
  BY <1>2, <1>3, <1>4, CallPayload
<1>7. ASSUME NEW q \in Request, wire'[q] = "executed"
      PROVE  PayloadOK(input'[q], back'[q])
  BY <1>1, <1>5, <1>6, <1>7 DEF CInv
<1>8. ASSUME NEW a \in Nodes, NEW s \in Counted
      PROVE  Balances(Finding(a), back, s, CountOf(nodes[a], s),
                      traffic[<<a, s>>], restarts = 0)'
  <2>1. /\ Balances(Finding(a), back, s, CountOf(nodes[a], s),
                    traffic[<<a, s>>], restarts = 0)
        /\ r \notin Finding(a) /\ \A q \in Finding(a) : back'[q] = back[q]
    BY <1>1, <1>5 DEF CInv, Finding
  <2>2. CASE a = at
    <3>1. Finding(a)' = IF CallOf(in).reset THEN Finding(a) \cup {r}
                        ELSE Finding(a)
      BY <1>1, <1>2, <1>5, <2>2, CallFields DEF Finding
    <3>2. Takes(nodes[at], CallOf(in), o, s)
      BY <1>2, <1>3, <1>4, CallTakes
    <3>3. CountOf(nodes[at], s) \in Nat
      BY <1>4, CountIsNat
    <3>4. traffic[<<a, s>>] \in Nat
      BY DEF TrafficOK
    <3>5. Balances(IF CallOf(in).reset THEN Finding(a) \cup {r}
                   ELSE Finding(a), back', s, CountOf(o.node, s),
                   traffic[<<a, s>>], restarts = 0)
      <4> DEFINE call == CallOf(in)
                 rs == Finding(a)
                 c == back'
                 node == nodes[at]
                 carried == traffic[<<a, s>>]
                 up == restarts = 0
      <4>1. /\ r \notin rs /\ \A q \in rs : c[q] = back[q]
            /\ c[r] = o.reply /\ Takes(node, call, o, s)
            /\ CountOf(node, s) \in Nat /\ carried \in Nat
            /\ Balances(rs, back, s, CountOf(node, s), carried, up)
        BY <1>5, <2>1, <2>2, <3>2, <3>3, <3>4
      <4> HIDE DEF call, rs, c, node, carried, up
      <4>2. Balances(IF call.reset THEN rs \cup {r} ELSE rs, c, s,
                     CountOf(o.node, s), carried, up)
        BY <4>1, CallBalances
      <4> QED
        BY <4>2 DEF call, rs, c, node, carried, up
    <3> QED
      BY <1>1, <1>5, <2>2, <3>1, <3>5
  <2>3. CASE a # at
    <3>1. Finding(a)' = Finding(a)
      BY <1>1, <1>2, <1>5, <2>3 DEF Finding
    <3>2. UnitsTold(Finding(a), back', s) = UnitsTold(Finding(a), back, s)
      BY <2>1, SameTold
    <3>3. Balances(Finding(a), back', s, CountOf(nodes[a], s),
                   traffic[<<a, s>>], restarts = 0)
      BY <2>1, <3>2 DEF Balances
    <3> QED
      BY <1>1, <1>5, <2>3, <3>1, <3>3
  <2> QED
    BY <2>2, <2>3
<1> QED
  BY <1>7, <1>8 DEF CInv

(* A node that starts again forgets what it has counted.                   *)
LEMMA CountsOfRestart ==
  ASSUME IInv, TrafficOK, CInv, NEW a \in Nodes, Restart(a)
  PROVE  CInv'
<1>1. /\ nodes' = [nodes EXCEPT ![a] = FreshNode] /\ restarts' = restarts + 1
      /\ UNCHANGED <<input, wire, back, traffic>>
  BY DEF Restart, tasks, calls
<1>2. /\ \A b \in Nodes : NodeOK(nodes[b])
      /\ nodes = [b \in Nodes |-> nodes[b]] /\ restarts \in Nat
  BY BridgeAssumption DEF IInv, Types
<1>3. \A b : Finding(b)' = Finding(b)
  BY <1>1 DEF Finding
<1>4. ASSUME NEW b \in Nodes, NEW s \in Counted
      PROVE  Balances(Finding(b), back, s, CountOf(nodes[b], s),
                      traffic[<<b, s>>], restarts = 0)'
  <2> DEFINE told == UnitsTold(Finding(b), back, s)
             count == CountOf(nodes[b], s)
  <2>1. /\ IsFiniteSet(told)
        /\ Cardinality(told) + count <= traffic[<<b, s>>]
    BY DEF CInv, Balances
  <2>2. Cardinality(told) \in Nat /\ count \in Nat /\ traffic[<<b, s>>] \in Nat
    BY <1>2, <2>1, FS_CardinalityType, CountIsNat DEF TrafficOK
  <2>3. CountOf(nodes'[b], s) \in {0, count}
    BY <1>1, <1>2, CountOfFresh
  <2> HIDE DEF count
  <2>4. CountOf(nodes'[b], s) \in Nat /\ CountOf(nodes'[b], s) <= count
    BY <2>2, <2>3
  <2>5. Cardinality(told) + CountOf(nodes'[b], s) <= traffic[<<b, s>>]
    BY <2>1, <2>2, <2>4
  <2>6. restarts' # 0
    BY <1>1, <1>2
  <2> QED
    BY <1>1, <1>3, <2>1, <2>5, <2>6 DEF Balances
<1> QED
  BY <1>1, <1>4 DEF CInv

(* A unit carried is a unit in the counter.                                *)
LEMMA CountsOfTraffic ==
  ASSUME IInv, TrafficOK, CInv, NEW a \in Nodes, NEW t \in Counted,
         Traffic(a, t)
  PROVE  CInv'
<1> DEFINE at == <<a, t>>
<1>1. /\ nodes' = [nodes EXCEPT ![a] = Carry(nodes[a], t)]
      /\ traffic' = [traffic EXCEPT ![at] = traffic[at] + 1]
      /\ UNCHANGED <<input, wire, back, restarts>>
  BY DEF Traffic, tasks, calls
<1>2. /\ \A b \in Nodes : NodeOK(nodes[b])
      /\ nodes = [b \in Nodes |-> nodes[b]]
      /\ traffic \in [Nodes \X Counted -> Nat]
  BY DEF IInv, Types, TrafficOK
<1>3. \A b : Finding(b)' = Finding(b)
  BY <1>1 DEF Finding
<1>4. ASSUME NEW b \in Nodes, NEW s \in Counted
      PROVE  Balances(Finding(b), back, s, CountOf(nodes[b], s),
                      traffic[<<b, s>>], restarts = 0)'
  <2> DEFINE told == UnitsTold(Finding(b), back, s)
             count == CountOf(nodes[b], s)
             more == CountOf(nodes'[b], s)
  <2>1. /\ IsFiniteSet(told)
        /\ Cardinality(told) + count <= traffic[<<b, s>>]
        /\ restarts = 0 => Cardinality(told) + count = traffic[<<b, s>>]
    BY DEF CInv, Balances
  <2>2. Cardinality(told) \in Nat /\ count \in Nat /\ traffic[<<b, s>>] \in Nat
    BY <1>2, <2>1, FS_CardinalityType, CountIsNat
  <2>3. \/ more = count /\ traffic'[<<b, s>>] = traffic[<<b, s>>]
        \/ more = count + 1 /\ traffic'[<<b, s>>] = traffic[<<b, s>>] + 1
    <3>1. CASE b = a /\ s = t
      BY <1>1, <1>2, <3>1, CountCarried
    <3>2. CASE b = a /\ s # t
      BY <1>1, <1>2, <3>2, CountCarried
    <3>3. CASE b # a
      BY <1>1, <1>2, <3>3
    <3> QED
      BY <3>1, <3>2, <3>3
  <2> HIDE DEF count, more, told
  <2>4. /\ Cardinality(told) + more <= traffic'[<<b, s>>]
        /\ restarts = 0 => Cardinality(told) + more = traffic'[<<b, s>>]
    BY <2>1, <2>2, <2>3
  <2> QED
    BY <1>1, <1>3, <2>1, <2>4 DEF Balances, told, more
<1> QED
  BY <1>1, <1>4 DEF CInv

(* CInv is inductive, given the types.                                     *)
LEMMA CountsNext == IInv /\ TrafficOK /\ CInv /\ [Next]_vars => CInv'
<1> SUFFICES ASSUME IInv, TrafficOK, CInv, [Next]_vars PROVE CInv'
  OBVIOUS
<1>1. ASSUME NEW r \in Request,
             BridgeStep(r) \/ ClientStep(r) \/ NetworkStep(r)
      PROVE  CInv'
  BY <1>1, CountsOfBridge, CountsOfExecute DEF NetworkStep
<1>2. ASSUME NEW a \in Nodes, NodeStep(a)
      PROVE  CInv'
  BY <1>2, CountsOfRestart, CountsOfTraffic DEF NodeStep
<1>3. CASE RestartBridge
  BY <1>3, CountsStay DEF RestartBridge, calls, world
<1>4. CASE UNCHANGED vars
  BY <1>4, CountsStay DEF vars, tasks, calls, world
<1> QED
  BY <1>1, <1>2, <1>3, <1>4 DEF Next

(* It holds to begin with.                                                 *)
LEMMA CountsInit == Init => CInv
<1> SUFFICES ASSUME Init PROVE CInv
  OBVIOUS
<1>1. \A r \in Request : wire[r] # "executed"
  BY DEF Init
<1>2. ASSUME NEW a \in Nodes, NEW s \in Counted
      PROVE  Balances(Finding(a), back, s, CountOf(nodes[a], s),
                      traffic[<<a, s>>], restarts = 0)
  <2>1. Finding(a) = {}
    BY <1>1 DEF Finding
  <2>2. UnitsTold(Finding(a), back, s) = {}
    BY <2>1 DEF UnitsTold
  <2>3. CountOf(nodes[a], s) = 0 /\ traffic[<<a, s>>] = 0
    BY CountOfFresh DEF Init
  <2>4. IsFiniteSet({}) /\ Cardinality({}) = 0
    BY FS_EmptySet
  <2> QED
    BY <2>2, <2>3, <2>4 DEF Balances
<1> QED
  BY <1>1, <1>2 DEF CInv

(* No unit of traffic is lost or told twice between a node and the replies *)
(* it sends.                                                               *)
LEMMA CountsInvariant == Spec => []CInv
<1>1. Init => CInv
  BY CountsInit
<1>2. IInv /\ TrafficOK /\ CInv /\ [Next]_vars => CInv'
  BY CountsNext
<1> QED
  BY <1>1, <1>2, Invariant, TrafficTyped, PTL DEF Spec

-----------------------------------------------------------------------------
(* What callers are told of them.                                          *)

(* An item that reads 0 tells no unit.                                     *)
LEMMA NoneOfZero == \A id, s : Units({Item(id, 0)}, s) = {}
<1> TAKE id, s
<1> DEFINE zero == Item(id, 0)
<1>1. zero.id = id /\ zero.value = 0
  BY DEF Item
<1> HIDE DEF zero
<1>2. \A i \in {j \in {zero} : j.id = s} : {i} \X (1..i.value) = {}
  BY <1>1
<1>3. Units({zero}, s) = {}
  BY <1>2 DEF Units
<1> QED
  BY <1>3 DEF zero

(* The answer to a reset tells the units the reply tells.                  *)
LEMMA AnswerOfReset ==
  ASSUME NEW in, ResetOf(in), NEW rep \in Reply, PayloadOK(in, rep),
         Finish(in, rep).http = 200, NEW s
  PROVE  Units(Finish(in, rep).body, s) = Units(rep.payload, s)
<1> DEFINE a == Finish(in, rep)
<1>1. in.op \in {"get_stat", "query_stats", "get_users_stats"}
  BY DEF ResetOf, Resets
<1>2. CASE rep.status = StatusOK
  <2> DEFINE http == IF in.op \in Adds THEN 201 ELSE 200
             code == ""
             body == BodyOf(in, rep.payload)
  <2>1. a = Answer(http, code, body, FALSE)
    BY <1>2, OKIsNotAbsent DEF Finish
  <2>2. body = rep.payload
    <3>1. CASE in.op = "get_stat"
      <4>1. body = {Item(in.id, i.value) : i \in rep.payload}
        BY <3>1 DEF BodyOf
      <4>2. \A i \in rep.payload : Item(in.id, i.value) = i
        BY <3>1 DEF Reply, PayloadOK, Item
      <4> QED
        BY <4>1, <4>2
    <3>2. CASE in.op \in {"query_stats", "get_users_stats"}
      BY <3>2 DEF BodyOf
    <3> QED
      BY <1>1, <3>1, <3>2
  <2> HIDE DEF a, http, code, body
  <2>3. a.body = body
    BY <2>1 DEF Answer
  <2> QED
    BY <2>2, <2>3 DEF a
<1>3. CASE rep.status # StatusOK /\ IsNotFound(rep.status) /\ in.op = "get_stat"
  <2> DEFINE http == 200
             code == ""
             zero == {Item(in.id, 0)}
  <2>1. a = Answer(http, code, zero, FALSE)
    BY <1>3 DEF Finish
  <2> HIDE DEF a, http, code, zero
  <2>2. a.body = zero
    BY <2>1 DEF Answer
  <2>3. Units(a.body, s) = {}
    BY <2>2, NoneOfZero DEF zero
  <2>4. Units(rep.payload, s) = {}
    BY <1>3, NoUnits DEF PayloadOK
  <2> QED
    BY <2>3, <2>4 DEF a
<1>4. CASE rep.status # StatusOK /\ ~(IsNotFound(rep.status) /\ in.op = "get_stat")
  <2>1. a.http = GrpcCodeToHttp(rep.status)
    BY <1>1, <1>4, FinishOfError DEF Ignored
  <2>2. GrpcCodeToHttp(rep.status) # 200
    BY HttpOfStatus
  <2> QED
    BY <2>1, <2>2
<1> QED
  BY <1>2, <1>3, <1>4

(* Whoever is told the figures of a reset is told what the node's reply    *)
(* told, or nothing at all.                                                *)
LEMMA ResetToldMeans ==
  ASSUME IInv, AInv, CInv, NEW r \in Request, Done(r), resp[r].http = 200,
         ResetOf(input[r]), NEW s
  PROVE  /\ wire[r] = "executed"
         /\ Units(resp[r].body, s) \subseteq Units(back[r].payload, s)
         /\ input[r].method # "HEAD" =>
              Units(resp[r].body, s) = Units(back[r].payload, s)
<1> DEFINE in == input[r]
           a == Finish(in, back[r])
<1>1. /\ phase[r] = "done"
      /\ Concluded(phase[r], in, sent[r], reply[r], resp[r])
      /\ CallMade(sent[r], wire[r], back[r], reply[r], execs[r])
      /\ wire[r] = "executed" => PayloadOK(in, back[r])
      /\ back[r] \in Reply \cup {Nothing}
  BY DEF Done, IInv, AInv, CInv, Types
<1>2. in.op # "healthz"
  BY DEF ResetOf, Resets
<1>3. /\ sent[r] # NoClient /\ reply[r] # Nothing
      /\ resp[r] = ToClient(in.method, Finish(in, reply[r]))
  BY <1>1, <1>2 DEF Concluded, AnswerWithoutCall
<1>4. ~FromTransport(reply[r])
  BY <1>3, BrokenMeans DEF Broken
<1>5. wire[r] = "executed" /\ reply[r] = back[r] /\ back[r] \in Reply
  BY <1>1, <1>3, <1>4 DEF CallMade
<1>6. resp[r] = ToClient(in.method, a)
  BY <1>3, <1>5
<1>7. a.http = 200
  BY <1>6, ToClientIs
<1>8. Units(a.body, s) = Units(back[r].payload, s)
  BY <1>1, <1>5, <1>7, AnswerOfReset
<1> HIDE DEF a
<1>9. resp[r].body = IF in.method = "HEAD" THEN {} ELSE a.body
  BY <1>6, BodyToClient
<1> QED
  BY <1>5, <1>8, <1>9, NoUnits

(* The units of s that the answers rs tell.                                *)
UnitsAnswered(rs, s) == UNION {{r} \X Units(resp[r].body, s) : r \in rs}

(* Callers are told no more than the nodes' replies told,                  *)
LEMMA ToldAtMost ==
  ASSUME IInv, AInv, CInv, NEW a, NEW s
  PROVE  UnitsAnswered(ResetAnswers(a), s) \subseteq
           UnitsTold(Finding(a), back, s)
<1> SUFFICES ASSUME NEW r \in ResetAnswers(a)
             PROVE  /\ r \in Finding(a)
                    /\ Units(resp[r].body, s) \subseteq Units(back[r].payload, s)
  BY DEF UnitsAnswered, UnitsTold
<1>1. /\ r \in Request /\ Done(r) /\ resp[r].http = 200 /\ ResetOf(input[r])
      /\ Target(input[r]) = a
  BY DEF ResetAnswers, ResetOf
<1> QED
  BY <1>1, ResetToldMeans DEF Finding

(* and all of it where every reply became an answer with a body.           *)
LEMMA ToldAll ==
  ASSUME IInv, AInv, CInv, NEW a, NEW s,
         \A r \in Request : execs[r] > 0 =>
           /\ Done(r) /\ resp[r].http \in {200, 201}
           /\ input[r].method # "HEAD"
  PROVE  UnitsTold(Finding(a), back, s) \subseteq
           UnitsAnswered(ResetAnswers(a), s)
<1> SUFFICES ASSUME NEW r \in Finding(a)
             PROVE  /\ r \in ResetAnswers(a)
                    /\ Units(back[r].payload, s) \subseteq Units(resp[r].body, s)
  BY DEF UnitsAnswered, UnitsTold
<1>1. /\ r \in Request /\ wire[r] = "executed" /\ ResetOf(input[r])
      /\ Target(input[r]) = a
  BY DEF Finding
<1>2. execs[r] > 0
  BY <1>1 DEF IInv, CallMade
<1>3. Done(r) /\ resp[r].http \in {200, 201} /\ input[r].method # "HEAD"
  BY <1>1, <1>2
<1>4. input[r].op \notin Adds
  BY <1>1 DEF ResetOf, Resets, Adds
<1>5. resp[r].http = 200
  <2>1. Uncalled(r) => resp[r].http # 201
    BY DEF Uncalled, AnswerWithoutCall
  <2>2. Broken(r) \/ Failed(r) => resp[r].http # 201
    BY DEF Broken, Failed
  <2>3. Achieved(r) \/ Spared(r) => resp[r].http = 200
    BY <1>4 DEF Achieved, Spared
  <2> QED
    BY <1>1, <1>3, <2>1, <2>2, <2>3, AnswerMeans
<1>6. Units(back[r].payload, s) = Units(resp[r].body, s)
  BY <1>1, <1>3, <1>5, ResetToldMeans
<1> QED
  BY <1>1, <1>3, <1>5, <1>6 DEF ResetAnswers, ResetOf

(* Traffic is told at most once, and none of it is invented; all of it is  *)
(* told or still counted where no reply is lost and no node restarts.      *)
THEOREM TrafficToldOnce == Spec => []ResetCountsOnce
<1>1. IInv /\ AInv /\ CInv /\ TrafficOK => ResetCountsOnce
  <2> SUFFICES ASSUME IInv, AInv, CInv, TrafficOK,
                      NEW a \in Nodes, NEW s \in Counted
               PROVE  /\ Taken(a, s) + Current(a, s) <= traffic[a, s]
                      /\ restarts = 0 /\ (\A r \in Request : execs[r] > 0 =>
                             /\ Done(r) /\ resp[r].http \in {200, 201}
                             /\ input[r].method # "HEAD")
                           => Taken(a, s) + Current(a, s) = traffic[a, s]
    BY DEF ResetCountsOnce
  <2> DEFINE taken == UnitsAnswered(ResetAnswers(a), s)
             told == UnitsTold(Finding(a), back, s)
             count == CountOf(nodes[a], s)
             carried == traffic[<<a, s>>]
  <2>1. /\ Taken(a, s) = Cardinality(taken) /\ Current(a, s) = count
        /\ traffic[a, s] = carried
    BY DEF Taken, UnitsAnswered, Current, CountOf
  <2>2. /\ IsFiniteSet(told) /\ Cardinality(told) + count <= carried
        /\ restarts = 0 => Cardinality(told) + count = carried
    BY DEF CInv, Balances
  <2>3. taken \subseteq told
    BY ToldAtMost
  <2> HIDE DEF taken, told
  <2>4. /\ IsFiniteSet(taken) /\ Cardinality(taken) <= Cardinality(told)
        /\ Cardinality(told) \in Nat /\ Cardinality(taken) \in Nat
    <3>1. IsFiniteSet(told)
      BY <2>2
    <3>2. IsFiniteSet(taken) /\ Cardinality(taken) <= Cardinality(told)
      BY <2>3, <3>1, FS_Subset
    <3> QED
      BY <3>1, <3>2, FS_CardinalityType
  <2>5. count \in Nat /\ carried \in Nat
    <3>1. NodeOK(nodes[a])
      BY DEF IInv, Types
    <3>2. carried \in Nat
      BY DEF TrafficOK
    <3> QED
      BY <3>1, <3>2, CountIsNat
  <2>6. ASSUME restarts = 0,
               \A r \in Request : execs[r] > 0 =>
                 /\ Done(r) /\ resp[r].http \in {200, 201}
                 /\ input[r].method # "HEAD"
        PROVE  Cardinality(taken) + count = carried
    <3>1. told \subseteq taken
      BY <2>6, ToldAll DEF taken, told
    <3>2. told = taken
      BY <2>3, <3>1
    <3> QED
      BY <2>2, <2>6, <3>2
  <2> HIDE DEF count, carried
  <2>7. Cardinality(taken) + count <= carried
    BY <2>2, <2>4, <2>5
  <2> QED
    BY <2>1, <2>6, <2>7
<1> QED
  BY <1>1, AnswersInvariant, TrafficTyped, CountsInvariant, PTL
===============================================================================
