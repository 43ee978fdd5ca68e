------------------------------- MODULE XrayNode -------------------------------
(***************************************************************************)
(* An xray node as the bridge uses it (external: the node is another       *)
(* program; what it does is read off the calls of src/xray and the errors  *)
(* src/error.rs and the handlers expect).  A node is a value; Exec gives   *)
(* the outcomes of one call: the node it leaves and the reply.             *)
(***************************************************************************)
EXTENDS AppError

CONSTANTS
  Id,          \* tags, emails, stat names, patterns, targets
  NoId,        \* an empty field
  Matches,     \* Matches[p]: the stat names a QueryStats pattern matches
  UserStats,   \* stat names of the traffic counters of users
  Accepts,     \* tokens the node accepts
  RefusalErrors,   \* statuses of a call refused before it has any effect
  ConfigInbound, ConfigOutbound, ConfigRule   \* tags in its config file

(* An error that tells neither absence nor presence of anything, be it by  *)
(* its code or by its text.                                                *)
TellsNeither(s) ==
  /\ s \in Status /\ s # StatusOK
  /\ s.code \notin {"NOT_FOUND", "ALREADY_EXISTS"}
  /\ s.code = "UNKNOWN" => s.details = {}

(* Of such a kind is what a node refuses a call for before it looks at it. *)
ASSUME NodeAssumption ==
  /\ \A s \in RefusalErrors : TellsNeither(s)
  /\ ConfigInbound \cup ConfigOutbound \cup ConfigRule \subseteq Id

Method ==
  {"AddUser", "RemoveUser", "ListInbounds", "AddInbound", "RemoveInbound",
   "ListOutbounds", "AddOutbound", "RemoveOutbound", "GetStats", "QueryStats",
   "GetUsersStats", "GetSysStats", "GetAllOnlineUsers", "TestRoute",
   "ListRule", "RemoveRule", "GetBalancerInfo", "OverrideBalancerTarget",
   "RestartLogger"}

(* A call: tag names the inbound, outbound, rule or balancer; id the user, *)
(* the stat, the pattern or the target; what is the user's level and       *)
(* account, the configuration of the inbound or outbound, or the network.  *)

(* A node after it read its configuration file.  Nothing the bridge adds   *)
(* is written there ("persisted": false), and counters start empty.        *)
FreshNode ==
  [inbounds  |-> {[tag |-> t, config |-> NoId] : t \in ConfigInbound},
   outbounds |-> {[tag |-> t, config |-> NoId] : t \in ConfigOutbound},
   users     |-> {},
   rules |-> ConfigRule, override |-> [b \in Id |-> NoId],
   counters |-> [s \in {} |-> 0]]

-----------------------------------------------------------------------------

Success(node, payload) ==
  {[node |-> node, reply |-> [status |-> StatusOK, payload |-> payload]]}

Refuse(node, statuses) ==
  {[node |-> node, reply |-> [status |-> s, payload |-> {}]] : s \in statuses}

(* How a node says that something is absent, or already there: newer ones  *)
(* by the code, others by an Unknown error whose text says so.             *)
Missing == {[code |-> "NOT_FOUND", details |-> {}],
            [code |-> "UNKNOWN", details |-> {"not found"}]}

Exists == {[code |-> "ALREADY_EXISTS", details |-> {}],
           [code |-> "UNKNOWN", details |-> {"already exists"}]}

Item(id, value) == [id |-> id, value |-> value]

(* A reply lists tags, targets, stat names or a network, with a value each.*)
Listed == Id \cup {NoId, "TCP", "UDP"}

Reply == [status : Status, payload : SUBSET [id : Listed, value : Nat]]

Items(ids) == {Item(i, 0) : i \in ids}

(* The counters in names read back, and the node after an optional reset.  *)
ReadCounters(node, names, reset) ==
  [node EXCEPT !.counters =
     [s \in DOMAIN @ |-> IF reset /\ s \in names THEN 0 ELSE @[s]]]

(* The entries of a table with tag t, and those of user e in inbound t.    *)
Tagged(table, t) == {entry \in table : entry.tag = t}

UserIn(node, t, e) == {u \in node.users : u.tag = t /\ u.email = e}

AlterInbound(node, c) ==
  LET same == UserIn(node, c.tag, c.id)
  IN  IF Tagged(node.inbounds, c.tag) = {} THEN Refuse(node, Missing)
      ELSE CASE c.method = "AddUser" ->
                  IF same # {} THEN Refuse(node, Exists)
                  ELSE Success([node EXCEPT !.users = @ \cup
                                  {[tag |-> c.tag, email |-> c.id,
                                    what |-> c.what]}], {})
             [] c.method = "RemoveUser" ->
                  IF same = {} THEN Refuse(node, Missing)
                  ELSE Success([node EXCEPT !.users = @ \ same], {})

ManageInbounds(node, c) ==
  LET same == Tagged(node.inbounds, c.tag)
  IN  CASE c.method = "ListInbounds" ->
             Success(node, Items({i.tag : i \in node.inbounds}))
        [] c.method = "AddInbound" ->
             IF same # {} THEN Refuse(node, Exists)
             ELSE Success([node EXCEPT !.inbounds = @ \cup
                             {[tag |-> c.tag, config |-> c.what]}], {})
        [] c.method = "RemoveInbound" ->
             IF same = {} THEN Refuse(node, Missing)
             ELSE Success([node EXCEPT !.inbounds = @ \ same,
                             !.users = @ \ Tagged(@, c.tag)], {})

ManageOutbounds(node, c) ==
  LET same == Tagged(node.outbounds, c.tag)
  IN  CASE c.method = "ListOutbounds" ->
             Success(node, Items({o.tag : o \in node.outbounds}))
        [] c.method = "AddOutbound" ->
             IF same # {} THEN Refuse(node, Exists)
             ELSE Success([node EXCEPT !.outbounds = @ \cup
                             {[tag |-> c.tag, config |-> c.what]}], {})
        [] c.method = "RemoveOutbound" ->
             IF same = {} THEN Refuse(node, Missing)
             ELSE Success([node EXCEPT !.outbounds = @ \ same], {})

ReadStats(node, c) ==
  LET known == DOMAIN node.counters
  IN  CASE c.method = "GetStats" ->
             IF c.id \notin known THEN Refuse(node, Missing)
             ELSE Success(ReadCounters(node, {c.id}, c.reset),
                          {Item(c.id, node.counters[c.id])})
        [] c.method = "QueryStats" ->
             LET names == Matches[c.id] \cap known
             IN  Success(ReadCounters(node, names, c.reset),
                         {Item(s, node.counters[s]) : s \in names})
        [] c.method = "GetUsersStats" ->
             LET names == UserStats \cap known
             IN  Success(ReadCounters(node, names, c.reset),
                         {Item(s, node.counters[s]) : s \in names})

ManageRouting(node, c) ==
  CASE c.method = "ListRule" -> Success(node, Items(node.rules))
    [] c.method = "RemoveRule" ->
         IF c.tag \notin node.rules THEN Refuse(node, Missing)
         ELSE Success([node EXCEPT !.rules = @ \ {c.tag}], {})
    [] c.method = "GetBalancerInfo" ->
         Success(node, Items({node.override[c.tag]}))
    [] c.method = "OverrideBalancerTarget" ->
         Success([node EXCEPT !.override[c.tag] = c.id], {})

(* One call with its token.  A refused call has no effect.                 *)
Exec(node, token, c) ==
  Refuse(node, RefusalErrors) \cup
  CASE token \notin Accepts -> {}
    [] token \in Accepts /\ c.method \in {"AddUser", "RemoveUser"} ->
         AlterInbound(node, c)
    [] token \in Accepts /\
       c.method \in {"ListInbounds", "AddInbound", "RemoveInbound"} ->
         ManageInbounds(node, c)
    [] token \in Accepts /\
       c.method \in {"ListOutbounds", "AddOutbound", "RemoveOutbound"} ->
         ManageOutbounds(node, c)
    [] token \in Accepts /\
       c.method \in {"GetStats", "QueryStats", "GetUsersStats"} ->
         ReadStats(node, c)
    [] token \in Accepts /\
       c.method \in {"ListRule", "RemoveRule", "GetBalancerInfo",
                     "OverrideBalancerTarget"} ->
         ManageRouting(node, c)
    [] token \in Accepts /\ c.method = "TestRoute" ->
         Success(node, Items({c.what}))
    [] OTHER -> Success(node, {})

(* A node carries a unit of traffic; the first creates the counter.        *)
Carry(node, s) ==
  [node EXCEPT !.counters =
     [c \in DOMAIN @ \cup {s} |->
        (IF c \in DOMAIN @ THEN @[c] ELSE 0) + (IF c = s THEN 1 ELSE 0)]]
===============================================================================
