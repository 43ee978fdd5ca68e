---------------------------- MODULE XrayNodeProofs ----------------------------
(***************************************************************************)
(* What the statuses of gRPC come to as HTTP statuses, and what a call to  *)
(* a node may come to, for every status, node and call.                    *)
(***************************************************************************)
EXTENDS XrayNode, TLAPS

-----------------------------------------------------------------------------
(* Statuses.                                                               *)

(* The HTTP status of a gRPC error.  404 is how absence is told.           *)
LEMMA HttpOfAbsence ==
  ASSUME NEW s, IsNotFound(s)
  PROVE  GrpcCodeToHttp(s) = 404
<1>1. CASE s.code = "NOT_FOUND"
  BY <1>1, Zenon DEF GrpcCodeToHttp
<1>2. CASE s.code = "UNKNOWN" /\ "not found" \in s.details
  BY <1>2, Zenon DEF GrpcCodeToHttp
<1> QED
  BY <1>1, <1>2, Zenon DEF IsNotFound

(* 409 is how it is told that something is there already.                  *)
LEMMA HttpOfPresence ==
  ASSUME NEW s,
         \/ s.code = "ALREADY_EXISTS"
         \/ /\ s.code = "UNKNOWN" /\ "not found" \notin s.details
            /\ "already exists" \in s.details
  PROVE  GrpcCodeToHttp(s) = 409
<1>1. CASE s.code = "ALREADY_EXISTS"
  BY <1>1, Zenon DEF GrpcCodeToHttp
<1>2. CASE /\ s.code = "UNKNOWN" /\ "not found" \notin s.details
           /\ "already exists" \in s.details
  BY <1>2, Zenon DEF GrpcCodeToHttp
<1> QED
  BY <1>1, <1>2, Zenon

(* Nothing but absence is told by 404, and every error by one of these.    *)
LEMMA HttpOfStatus ==
  ASSUME NEW s
  PROVE  /\ GrpcCodeToHttp(s) \in {404, 409, 500, 501, 502}
         /\ IsNotFound(s) <=> GrpcCodeToHttp(s) = 404
<1>1. CASE IsNotFound(s)
  BY <1>1, HttpOfAbsence
<1>2. ASSUME ~IsNotFound(s)
      PROVE  GrpcCodeToHttp(s) \in {409, 500, 501, 502}
  <2> DEFINE http == GrpcCodeToHttp(s)
             special == {"ALREADY_EXISTS", "UNIMPLEMENTED", "UNAVAILABLE",
                         "UNKNOWN"}
  <2>1. /\ s.code # "NOT_FOUND"
        /\ s.code = "UNKNOWN" => "not found" \notin s.details
    BY <1>2, Zenon DEF IsNotFound
  <2>2. s.code = "ALREADY_EXISTS" => http = 409
    BY <2>1, HttpOfPresence, Zenon
  <2>3. s.code = "UNKNOWN" /\ "already exists" \in s.details => http = 409
    BY <2>1, HttpOfPresence, Zenon
  <2>4. s.code = "UNKNOWN" /\ "already exists" \notin s.details => http = 502
    BY <2>1, Zenon DEF GrpcCodeToHttp
  <2>5. s.code = "UNIMPLEMENTED" => http = 501
    BY <2>1, Zenon DEF GrpcCodeToHttp
  <2>6. s.code = "UNAVAILABLE" => http = 502
    BY <2>1, Zenon DEF GrpcCodeToHttp
  <2>7. s.code \notin special => http = 500
    BY <2>1, Zenon DEF GrpcCodeToHttp
  <2> HIDE DEF http
  <2>8. http = 409 \/ http = 502 \/ http = 501 \/ http = 500
    BY <2>2, <2>3, <2>4, <2>5, <2>6, <2>7, Zenon
  <2> QED
    BY <2>8 DEF http
<1> QED
  BY <1>1, <1>2

(* What nodes say of what is absent or already there.                      *)
LEMMA AbsenceAndPresence ==
  /\ \A s \in Missing : s \in Status /\ s # StatusOK /\ GrpcCodeToHttp(s) = 404
  /\ \A s \in Exists : s \in Status /\ s # StatusOK /\ GrpcCodeToHttp(s) = 409
  /\ StatusOK \in Status
<1>1. \A c \in Code, d \in SUBSET Phrase : [code |-> c, details |-> d] \in Status
  BY DEF Status
<1>2. /\ {"OK", "NOT_FOUND", "UNKNOWN", "ALREADY_EXISTS"} \subseteq Code
      /\ {{}, {"not found"}, {"already exists"}} \subseteq SUBSET Phrase
  BY DEF Code, Phrase
<1>3. Missing \cup Exists \cup {StatusOK} \subseteq Status
  BY <1>1, <1>2 DEF Missing, Exists, StatusOK
<1>4. StatusOK.code = "OK"
  BY DEF StatusOK
<1>5. ASSUME NEW s \in Missing
      PROVE  s # StatusOK /\ GrpcCodeToHttp(s) = 404
  <2>1. \/ s = [code |-> "NOT_FOUND", details |-> {}]
        \/ s = [code |-> "UNKNOWN", details |-> {"not found"}]
    BY Zenon DEF Missing
  <2>2. \/ s.code = "NOT_FOUND"
        \/ s.code = "UNKNOWN" /\ "not found" \in s.details
    <3>1. CASE s = [code |-> "NOT_FOUND", details |-> {}]
      BY <3>1
    <3>2. CASE s = [code |-> "UNKNOWN", details |-> {"not found"}]
      <4>1. s.code = "UNKNOWN"
        BY <3>2, Zenon
      <4>2. s.details = {"not found"}
        BY <3>2, Zenon
      <4> QED
        BY <4>1, <4>2, Zenon
    <3> QED
      BY <2>1, <3>1, <3>2, Zenon
  <2>3. s.code # "OK"
    BY <2>2, Zenon
  <2>4. GrpcCodeToHttp(s) = 404
    BY <2>2, HttpOfAbsence, Zenon DEF IsNotFound
  <2> QED
    BY <1>4, <2>3, <2>4
<1>6. ASSUME NEW s \in Exists
      PROVE  s # StatusOK /\ GrpcCodeToHttp(s) = 409
  <2>1. \/ s = [code |-> "ALREADY_EXISTS", details |-> {}]
        \/ s = [code |-> "UNKNOWN", details |-> {"already exists"}]
    BY Zenon DEF Exists
  <2>2. \/ s.code = "ALREADY_EXISTS"
        \/ /\ s.code = "UNKNOWN" /\ "already exists" \in s.details
           /\ "not found" \notin s.details
    <3>1. CASE s = [code |-> "ALREADY_EXISTS", details |-> {}]
      BY <3>1
    <3>2. CASE s = [code |-> "UNKNOWN", details |-> {"already exists"}]
      <4>1. s.code = "UNKNOWN"
        BY <3>2, Zenon
      <4>2. s.details = {"already exists"}
        BY <3>2, Zenon
      <4> QED
        BY <4>1, <4>2, Zenon
    <3> QED
      BY <2>1, <3>1, <3>2, Zenon
  <2>3. s.code # "OK"
    BY <2>2, Zenon
  <2>4. GrpcCodeToHttp(s) = 409
    BY <2>2, HttpOfPresence, Zenon
  <2> QED
    BY <1>4, <2>3, <2>4
<1> QED
  BY <1>3, <1>5, <1>6

(* What tells neither is told by another HTTP status.                      *)
LEMMA HttpOfNeither ==
  ASSUME NEW s, TellsNeither(s)
  PROVE  GrpcCodeToHttp(s) \notin {404, 409}
<1> DEFINE http == GrpcCodeToHttp(s)
           special == {"UNIMPLEMENTED", "UNAVAILABLE", "UNKNOWN"}
<1>1. /\ s.code # "NOT_FOUND" /\ s.code # "ALREADY_EXISTS"
      /\ s.code = "UNKNOWN" => s.details = {}
  BY DEF TellsNeither
<1>2. s.code = "UNKNOWN" => "not found" \notin s.details
                            /\ "already exists" \notin s.details
  BY <1>1, Zenon
<1>3. s.code = "UNKNOWN" => http = 502
  BY <1>1, <1>2, Zenon DEF GrpcCodeToHttp
<1>4. s.code = "UNIMPLEMENTED" => http = 501
  BY <1>1, Zenon DEF GrpcCodeToHttp
<1>5. s.code = "UNAVAILABLE" => http = 502
  BY <1>1, Zenon DEF GrpcCodeToHttp
<1>6. s.code \notin special => http = 500
  BY <1>1, Zenon DEF GrpcCodeToHttp
<1> HIDE DEF http
<1>7. http = 502 \/ http = 501 \/ http = 500
  BY <1>3, <1>4, <1>5, <1>6, Zenon
<1> QED
  BY <1>7 DEF http

-----------------------------------------------------------------------------
(* Nodes and their calls.                                                  *)

(* A node as a record.                                                     *)
NodeIs(node, inbounds, outbounds, users, rules, override, counters) ==
  node = [inbounds |-> inbounds, outbounds |-> outbounds, users |-> users,
          rules |-> rules, override |-> override, counters |-> counters]

(* What is true of every node: it has a record of these fields, names what *)
(* a reply can list, and has no user without an inbound.                   *)
NodeOK(node) ==
  /\ NodeIs(node, node.inbounds, node.outbounds, node.users, node.rules,
            node.override, node.counters)
  /\ \A i \in node.inbounds : i.tag \in Listed
  /\ \A o \in node.outbounds : o.tag \in Listed
  /\ \A u \in node.users : Tagged(node.inbounds, u.tag) # {}
  /\ node.rules \subseteq Listed
  /\ node.override \in [Id -> Listed]
  /\ DOMAIN node.counters \subseteq Listed
  /\ node.counters \in [DOMAIN node.counters -> Nat]

(* What is true of every call.                                             *)
CallOK(c) ==
  /\ c.method \in Method
  /\ c.tag \in Listed
  /\ c.reset \in BOOLEAN
  /\ c.method \in {"GetBalancerInfo", "OverrideBalancerTarget"} => c.tag \in Id
  /\ c.method = "OverrideBalancerTarget" => c.id \in Listed
  /\ c.method = "TestRoute" => c.what \in Listed

(* What the outcome o of a call at a node promises the bridge: the node    *)
(* stays one, the reply can be read, and an error is no change and tells   *)
(* no more.                                                                *)
OutcomeOK(node, o) ==
  /\ NodeOK(o.node)
  /\ o.reply \in Reply
  /\ o.reply.status # StatusOK => o.node = node /\ o.reply.payload = {}

(* A refusal leaves the node as it is.                                     *)
LEMMA RefuseOK ==
  ASSUME NEW node, NodeOK(node), NEW statuses \in SUBSET Status,
         NEW o \in Refuse(node, statuses)
  PROVE  /\ OutcomeOK(node, o)
         /\ o.node = node /\ o.reply.status \in statuses /\ o.reply.payload = {}
BY DEF Refuse, OutcomeOK, Reply

(* A success leaves the node it is said to leave.                          *)
LEMMA SuccessOK ==
  ASSUME NEW node, NEW new, NodeOK(new),
         NEW payload \in SUBSET [id : Listed, value : Nat],
         NEW o \in Success(new, payload)
  PROVE  /\ OutcomeOK(node, o)
         /\ o.node = new /\ o.reply.status = StatusOK /\ o.reply.payload = payload
BY AbsenceAndPresence DEF Success, OutcomeOK, Reply

(* A listing without figures.                                              *)
LEMMA ItemsOK ==
  ASSUME NEW ids \in SUBSET Listed
  PROVE  Items(ids) \in SUBSET [id : Listed, value : Nat]
BY DEF Items, Item

(* A node starts well-formed,                                              *)
LEMMA FreshNodeOK == NodeOK(FreshNode)
BY NodeAssumption DEF NodeOK, NodeIs, FreshNode, Listed, Tagged

(* carries traffic and stays so,                                           *)
LEMMA CarryOK ==
  ASSUME NEW node, NodeOK(node), NEW s \in Listed
  PROVE  NodeOK(Carry(node, s))
<1> DEFINE count == [c \in DOMAIN node.counters \cup {s} |->
                       (IF c \in DOMAIN node.counters
                        THEN node.counters[c] ELSE 0)
                       + (IF c = s THEN 1 ELSE 0)]
<1>1. NodeIs(Carry(node, s), node.inbounds, node.outbounds, node.users,
             node.rules, node.override, count)
  BY DEF NodeOK, NodeIs, Carry
<1>2. count \in [DOMAIN node.counters \cup {s} -> Nat]
  BY DEF NodeOK
<1> HIDE DEF count
<1> QED
  BY <1>1, <1>2 DEF NodeOK, NodeIs

(* and so it does when its counters are read or reset.                     *)
LEMMA ReadCountersOK ==
  ASSUME NEW node, NodeOK(node), NEW names, NEW reset \in BOOLEAN
  PROVE  NodeOK(ReadCounters(node, names, reset))
<1> DEFINE count == [s \in DOMAIN node.counters |->
                       IF reset /\ s \in names THEN 0 ELSE node.counters[s]]
<1>1. NodeIs(ReadCounters(node, names, reset), node.inbounds, node.outbounds,
             node.users, node.rules, node.override, count)
  BY DEF NodeOK, NodeIs, ReadCounters
<1>2. count \in [DOMAIN node.counters -> Nat]
  BY DEF NodeOK
<1> HIDE DEF count
<1> QED
  BY <1>1, <1>2 DEF NodeOK, NodeIs

-----------------------------------------------------------------------------
(* The calls, service by service.                                          *)

(* The outcome o of a call is a success that leaves this node.             *)
Succeeds(o, inbounds, outbounds, users, rules, override, counters) ==
  /\ o.reply.status = StatusOK
  /\ NodeIs(o.node, inbounds, outbounds, users, rules, override, counters)

(* It is an error of these that leaves the node alone.                     *)
Fails(node, o, statuses) ==
  o.node = node /\ o.reply.status \in statuses /\ o.reply.payload = {}

(* The updates of a node.                                                  *)
LEMMA UsersUpdate ==
  ASSUME NEW node, NEW i, NEW o, NEW u, NEW l, NEW b, NEW c,
         NodeIs(node, i, o, u, l, b, c), NEW y
  PROVE  NodeIs([node EXCEPT !.users = y], i, o, y, l, b, c)
BY DEF NodeIs

(* What a change of one table leaves alone.                                *)
LEMMA NodeUpdates ==
  ASSUME NEW node, NodeOK(node), NEW x, NEW y
  PROVE  /\ NodeIs([node EXCEPT !.users = x], node.inbounds, node.outbounds, x,
                   node.rules, node.override, node.counters)
         /\ NodeIs([node EXCEPT !.inbounds = x], x, node.outbounds, node.users,
                   node.rules, node.override, node.counters)
         /\ NodeIs([node EXCEPT !.outbounds = x], node.inbounds, x, node.users,
                   node.rules, node.override, node.counters)
         /\ NodeIs([node EXCEPT !.rules = x], node.inbounds, node.outbounds,
                   node.users, x, node.override, node.counters)
         /\ NodeIs([node EXCEPT !.override = x], node.inbounds, node.outbounds,
                   node.users, node.rules, x, node.counters)
         /\ NodeIs([node EXCEPT !.inbounds = x, !.users = y], x,
                   node.outbounds, y, node.rules, node.override, node.counters)
<1>1. node = [inbounds |-> node.inbounds, outbounds |-> node.outbounds,
              users |-> node.users, rules |-> node.rules,
              override |-> node.override, counters |-> node.counters]
  BY DEF NodeOK, NodeIs
<1>2. NodeIs([node EXCEPT !.users = x], node.inbounds, node.outbounds, x,
             node.rules, node.override, node.counters)
  BY <1>1 DEF NodeIs
<1>3. NodeIs([node EXCEPT !.inbounds = x], x, node.outbounds, node.users,
             node.rules, node.override, node.counters)
  BY <1>1 DEF NodeIs
<1>4. NodeIs([node EXCEPT !.outbounds = x], node.inbounds, x, node.users,
             node.rules, node.override, node.counters)
  BY <1>1 DEF NodeIs
<1>5. NodeIs([node EXCEPT !.rules = x], node.inbounds, node.outbounds,
             node.users, x, node.override, node.counters)
  BY <1>1 DEF NodeIs
<1>6. NodeIs([node EXCEPT !.override = x], node.inbounds, node.outbounds,
             node.users, node.rules, x, node.counters)
  BY <1>1 DEF NodeIs
<1>7. NodeIs([node EXCEPT !.inbounds = x, !.users = y], x,
             node.outbounds, y, node.rules, node.override, node.counters)
  <2>1. [node EXCEPT !.inbounds = x, !.users = y]
          = [[node EXCEPT !.inbounds = x] EXCEPT !.users = y]
    OBVIOUS
  <2> QED
    BY <1>3, <2>1, UsersUpdate
<1> QED
  BY <1>2, <1>3, <1>4, <1>5, <1>6, <1>7

(* The outcomes of adding and removing a user.                             *)
LEMMA AlterInboundOutcomes ==
  ASSUME NEW node, NodeOK(node), NEW c, CallOK(c),
         c.method \in {"AddUser", "RemoveUser"}, NEW o \in AlterInbound(node, c)
  PROVE  LET same == UserIn(node, c.tag, c.id)
             new == [tag |-> c.tag, email |-> c.id, what |-> c.what] IN
         /\ OutcomeOK(node, o) /\ o.reply.payload = {}
         /\ \/ same = {} /\ Fails(node, o, Missing)
            \/ c.method = "AddUser" /\ same # {} /\ Fails(node, o, Exists)
            \/ /\ c.method = "AddUser" /\ same = {}
               /\ Succeeds(o, node.inbounds, node.outbounds,
                           node.users \cup {new}, node.rules, node.override,
                           node.counters)
            \/ /\ c.method = "RemoveUser" /\ same # {}
               /\ Succeeds(o, node.inbounds, node.outbounds,
                           node.users \ same, node.rules, node.override,
                           node.counters)
<1> DEFINE same == UserIn(node, c.tag, c.id)
           new == [tag |-> c.tag, email |-> c.id, what |-> c.what]
           added == [node EXCEPT !.users = @ \cup {new}]
           removed == [node EXCEPT !.users = @ \ same]
<1>1. \/ Tagged(node.inbounds, c.tag) = {} /\ o \in Refuse(node, Missing)
      \/ c.method = "AddUser" /\ same # {} /\ o \in Refuse(node, Exists)
      \/ /\ c.method = "AddUser" /\ same = {}
         /\ Tagged(node.inbounds, c.tag) # {} /\ o \in Success(added, {})
      \/ c.method = "RemoveUser" /\ same = {} /\ o \in Refuse(node, Missing)
      \/ c.method = "RemoveUser" /\ same # {} /\ o \in Success(removed, {})
  <2>1. CASE Tagged(node.inbounds, c.tag) = {}
    <3>1. AlterInbound(node, c) = Refuse(node, Missing)
      BY <2>1 DEF AlterInbound
    <3> QED
      BY <2>1, <3>1
  <2>2. CASE /\ Tagged(node.inbounds, c.tag) # {} /\ c.method = "AddUser"
             /\ same = {}
    <3>1. AlterInbound(node, c) = Success(added, {})
      BY <2>2 DEF AlterInbound
    <3> QED
      BY <2>2, <3>1
  <2>3. CASE /\ Tagged(node.inbounds, c.tag) # {} /\ c.method = "AddUser"
             /\ same # {}
    <3>1. AlterInbound(node, c) = Refuse(node, Exists)
      BY <2>3 DEF AlterInbound
    <3> QED
      BY <2>3, <3>1
  <2>4. CASE Tagged(node.inbounds, c.tag) # {} /\ c.method = "RemoveUser"
    BY <2>4 DEF AlterInbound
  <2> QED
    BY <2>1, <2>2, <2>3, <2>4
<1>2. Tagged(node.inbounds, c.tag) = {} => same = {}
  BY DEF NodeOK, UserIn, Tagged
<1>3. /\ NodeIs(added, node.inbounds, node.outbounds, node.users \cup {new},
                node.rules, node.override, node.counters)
      /\ NodeIs(removed, node.inbounds, node.outbounds, node.users \ same,
                node.rules, node.override, node.counters)
  BY NodeUpdates
<1>4. new.tag = c.tag
  OBVIOUS
<1> HIDE DEF new, added, removed
<1>5. Tagged(node.inbounds, c.tag) # {} => NodeOK(added)
  BY <1>3, <1>4 DEF NodeOK, NodeIs
<1>6. NodeOK(removed)
  BY <1>3 DEF NodeOK, NodeIs
<1> HIDE DEF same
<1>7. /\ Missing \in SUBSET Status /\ Exists \in SUBSET Status
      /\ {} \in SUBSET [id : Listed, value : Nat]
  BY AbsenceAndPresence
<1>8. CASE o \in Refuse(node, Missing) /\ same = {}
  BY <1>8, <1>7, RefuseOK DEF Fails, same
<1>9. CASE c.method = "AddUser" /\ same # {} /\ o \in Refuse(node, Exists)
  BY <1>9, <1>7, RefuseOK DEF Fails, same
<1>10. CASE /\ c.method = "AddUser" /\ same = {}
            /\ Tagged(node.inbounds, c.tag) # {} /\ o \in Success(added, {})
  BY <1>10, <1>3, <1>5, <1>7, SuccessOK DEF Succeeds, same, new
<1>11. CASE c.method = "RemoveUser" /\ same # {} /\ o \in Success(removed, {})
  BY <1>11, <1>3, <1>6, <1>7, SuccessOK DEF Succeeds, same
<1> QED
  BY <1>1, <1>2, <1>8, <1>9, <1>10, <1>11

(* The outcomes of the calls for inbounds.                                 *)
LEMMA ManageInboundsOutcomes ==
  ASSUME NEW node, NodeOK(node), NEW c, CallOK(c),
         c.method \in {"ListInbounds", "AddInbound", "RemoveInbound"},
         NEW o \in ManageInbounds(node, c)
  PROVE  LET same == Tagged(node.inbounds, c.tag)
             new == [tag |-> c.tag, config |-> c.what] IN
         /\ OutcomeOK(node, o)
         /\ \/ /\ c.method = "ListInbounds"
               /\ o.node = node /\ o.reply.status = StatusOK
            \/ c.method = "AddInbound" /\ same # {} /\ Fails(node, o, Exists)
            \/ /\ c.method = "AddInbound" /\ same = {}
               /\ Succeeds(o, node.inbounds \cup {new}, node.outbounds,
                           node.users, node.rules, node.override,
                           node.counters)
            \/ c.method = "RemoveInbound" /\ same = {} /\ Fails(node, o, Missing)
            \/ /\ c.method = "RemoveInbound" /\ same # {}
               /\ Succeeds(o, node.inbounds \ same, node.outbounds,
                           node.users \ Tagged(node.users, c.tag), node.rules,
                           node.override, node.counters)
<1> DEFINE same == Tagged(node.inbounds, c.tag)
           new == [tag |-> c.tag, config |-> c.what]
           added == [node EXCEPT !.inbounds = @ \cup {new}]
           removed == [node EXCEPT !.inbounds = @ \ same,
                                   !.users = @ \ Tagged(@, c.tag)]
           tags == {i.tag : i \in node.inbounds}
<1>1. \/ c.method = "ListInbounds" /\ o \in Success(node, Items(tags))
      \/ c.method = "AddInbound" /\ same # {} /\ o \in Refuse(node, Exists)
      \/ c.method = "AddInbound" /\ same = {} /\ o \in Success(added, {})
      \/ c.method = "RemoveInbound" /\ same = {} /\ o \in Refuse(node, Missing)
      \/ c.method = "RemoveInbound" /\ same # {} /\ o \in Success(removed, {})
  BY DEF ManageInbounds
<1>3. /\ NodeIs(added, node.inbounds \cup {new}, node.outbounds, node.users,
                node.rules, node.override, node.counters)
      /\ NodeIs(removed, node.inbounds \ same, node.outbounds,
                node.users \ Tagged(node.users, c.tag),
                node.rules, node.override, node.counters)
  BY NodeUpdates
<1>4. new.tag = c.tag
  OBVIOUS
<1>2. tags \in SUBSET Listed
  BY DEF NodeOK
<1> HIDE DEF new, added, removed, tags
<1>5. NodeOK(added)
  BY <1>3, <1>4 DEF NodeOK, NodeIs, Tagged, CallOK
<1>6. NodeOK(removed)
  <2>1. \A u \in removed.users : Tagged(removed.inbounds, u.tag) # {}
    BY <1>3 DEF NodeOK, NodeIs, Tagged
  <2> QED
    BY <1>3, <2>1 DEF NodeOK, NodeIs
<1> HIDE DEF same
<1>7. /\ Missing \in SUBSET Status /\ Exists \in SUBSET Status
      /\ {} \in SUBSET [id : Listed, value : Nat]
  BY AbsenceAndPresence
<1>8. CASE c.method = "RemoveInbound" /\ o \in Refuse(node, Missing) /\ same = {}
  BY <1>8, <1>7, RefuseOK DEF Fails, same
<1>9. CASE c.method = "AddInbound" /\ same # {} /\ o \in Refuse(node, Exists)
  BY <1>9, <1>7, RefuseOK DEF Fails, same
<1>10. CASE c.method = "AddInbound" /\ same = {} /\ o \in Success(added, {})
  BY <1>10, <1>3, <1>5, <1>7, SuccessOK DEF Succeeds, same, new
<1>11. CASE c.method = "RemoveInbound" /\ same # {} /\ o \in Success(removed, {})
  BY <1>11, <1>3, <1>6, <1>7, SuccessOK DEF Succeeds, same
<1>12. CASE c.method = "ListInbounds" /\ o \in Success(node, Items(tags))
  BY <1>12, <1>2, ItemsOK, SuccessOK
<1> QED
  BY <1>1, <1>8, <1>9, <1>10, <1>11, <1>12

(* The outcomes of the calls for outbounds.                                *)
LEMMA ManageOutboundsOutcomes ==
  ASSUME NEW node, NodeOK(node), NEW c, CallOK(c),
         c.method \in {"ListOutbounds", "AddOutbound", "RemoveOutbound"},
         NEW o \in ManageOutbounds(node, c)
  PROVE  LET same == Tagged(node.outbounds, c.tag)
             new == [tag |-> c.tag, config |-> c.what] IN
         /\ OutcomeOK(node, o)
         /\ \/ /\ c.method = "ListOutbounds"
               /\ o.node = node /\ o.reply.status = StatusOK
            \/ c.method = "AddOutbound" /\ same # {} /\ Fails(node, o, Exists)
            \/ /\ c.method = "AddOutbound" /\ same = {}
               /\ Succeeds(o, node.inbounds, node.outbounds \cup {new},
                           node.users, node.rules, node.override,
                           node.counters)
            \/ c.method = "RemoveOutbound" /\ same = {} /\ Fails(node, o, Missing)
            \/ /\ c.method = "RemoveOutbound" /\ same # {}
               /\ Succeeds(o, node.inbounds, node.outbounds \ same,
                           node.users, node.rules, node.override,
                           node.counters)
<1> DEFINE same == Tagged(node.outbounds, c.tag)
           new == [tag |-> c.tag, config |-> c.what]
           added == [node EXCEPT !.outbounds = @ \cup {new}]
           removed == [node EXCEPT !.outbounds = @ \ same]
           tags == {i.tag : i \in node.outbounds}
<1>1. \/ c.method = "ListOutbounds" /\ o \in Success(node, Items(tags))
      \/ c.method = "AddOutbound" /\ same # {} /\ o \in Refuse(node, Exists)
      \/ c.method = "AddOutbound" /\ same = {} /\ o \in Success(added, {})
      \/ c.method = "RemoveOutbound" /\ same = {} /\ o \in Refuse(node, Missing)
      \/ c.method = "RemoveOutbound" /\ same # {} /\ o \in Success(removed, {})
  BY DEF ManageOutbounds
<1>2. tags \in SUBSET Listed
  BY DEF NodeOK
<1>3. /\ NodeIs(added, node.inbounds, node.outbounds \cup {new}, node.users,
                node.rules, node.override, node.counters)
      /\ NodeIs(removed, node.inbounds, node.outbounds \ same, node.users,
                node.rules, node.override, node.counters)
  BY NodeUpdates
<1>4. new.tag = c.tag
  OBVIOUS
<1> HIDE DEF new, added, removed, tags
<1>5. NodeOK(added)
  BY <1>3, <1>4 DEF NodeOK, NodeIs, CallOK
<1>6. NodeOK(removed)
  BY <1>3 DEF NodeOK, NodeIs
<1> HIDE DEF same
<1>7. /\ Missing \in SUBSET Status /\ Exists \in SUBSET Status
      /\ {} \in SUBSET [id : Listed, value : Nat]
  BY AbsenceAndPresence
<1>8. CASE /\ c.method = "RemoveOutbound" /\ o \in Refuse(node, Missing)
           /\ same = {}
  BY <1>8, <1>7, RefuseOK DEF Fails, same
<1>9. CASE c.method = "AddOutbound" /\ same # {} /\ o \in Refuse(node, Exists)
  BY <1>9, <1>7, RefuseOK DEF Fails, same
<1>10. CASE c.method = "AddOutbound" /\ same = {} /\ o \in Success(added, {})
  BY <1>10, <1>3, <1>5, <1>7, SuccessOK DEF Succeeds, same, new
<1>11. CASE c.method = "RemoveOutbound" /\ same # {} /\ o \in Success(removed, {})
  BY <1>11, <1>3, <1>6, <1>7, SuccessOK DEF Succeeds, same
<1>12. CASE c.method = "ListOutbounds" /\ o \in Success(node, Items(tags))
  BY <1>12, <1>2, ItemsOK, SuccessOK
<1> QED
  BY <1>1, <1>8, <1>9, <1>10, <1>11, <1>12

(* The names a call of the stats service reads.                            *)
NamesRead(c) ==
  CASE c.method = "GetStats" -> {c.id}
    [] c.method = "QueryStats" -> Matches[c.id]
    [] c.method = "GetUsersStats" -> UserStats

(* The outcomes of the calls that read figures.                            *)
LEMMA ReadStatsOutcomes ==
  ASSUME NEW node, NodeOK(node), NEW c, CallOK(c),
         c.method \in {"GetStats", "QueryStats", "GetUsersStats"},
         NEW o \in ReadStats(node, c)
  PROVE  /\ OutcomeOK(node, o)
         /\ \/ /\ c.method = "GetStats" /\ c.id \notin DOMAIN node.counters
               /\ Fails(node, o, Missing)
            \/ /\ o.reply.status = StatusOK
               /\ c.method = "GetStats" => c.id \in DOMAIN node.counters
               /\ o.node = ReadCounters(node, NamesRead(c) \cap DOMAIN node.counters,
                                        c.reset)
               /\ o.reply.payload =
                    {Item(s, node.counters[s]) :
                       s \in NamesRead(c) \cap DOMAIN node.counters}
<1> DEFINE names == NamesRead(c) \cap DOMAIN node.counters
           new == ReadCounters(node, names, c.reset)
           items == {Item(s, node.counters[s]) : s \in names}
<1>1. /\ NodeOK(new)
      /\ items \in SUBSET [id : Listed, value : Nat]
      /\ Missing \in SUBSET Status
  <2>1. \A s \in names : /\ s \in Listed
                         /\ node.counters[s] \in Nat
    BY DEF NodeOK
  <2>2. items \in SUBSET [id : Listed, value : Nat]
    BY <2>1 DEF Item
  <2> QED
    BY <2>2, ReadCountersOK, AbsenceAndPresence DEF CallOK
<1>2. CASE c.method = "GetStats" /\ c.id \notin DOMAIN node.counters
  <2>1. o \in Refuse(node, Missing)
    BY <1>2 DEF ReadStats
  <2> QED
    BY <1>1, <1>2, <2>1, RefuseOK DEF Fails
<1>3. ASSUME c.method # "GetStats" \/ c.id \in DOMAIN node.counters
      PROVE  o \in Success(new, items)
  <2>1. CASE c.method = "GetStats"
    <3>1. names = {c.id}
      BY <1>3, <2>1 DEF NamesRead
    <3>2. items = {Item(c.id, node.counters[c.id])}
      BY <3>1
    <3>3. ReadStats(node, c) = Success(ReadCounters(node, {c.id}, c.reset),
                                       {Item(c.id, node.counters[c.id])})
      BY <1>3, <2>1 DEF ReadStats
    <3> HIDE DEF names, items
    <3> QED
      BY <3>1, <3>2, <3>3
  <2>2. CASE c.method = "QueryStats"
    <3>1. NamesRead(c) = Matches[c.id]
      BY <2>2 DEF NamesRead
    <3> QED
      BY <2>2, <3>1 DEF ReadStats
  <2>3. CASE c.method = "GetUsersStats"
    <3>1. NamesRead(c) = UserStats
      BY <2>3 DEF NamesRead
    <3> QED
      BY <2>3, <3>1 DEF ReadStats
  <2> QED
    BY <2>1, <2>2, <2>3
<1> HIDE DEF new, items
<1>4. CASE c.method # "GetStats" \/ c.id \in DOMAIN node.counters
  <2>1. OutcomeOK(node, o) /\ o.node = new /\ o.reply.status = StatusOK
        /\ o.reply.payload = items
    BY <1>1, <1>3, <1>4, SuccessOK
  <2> QED
    BY <1>4, <2>1 DEF new, items
<1> QED
  BY <1>2, <1>4

(* The outcomes of the calls for rules, balancers and the logger.          *)
LEMMA ManageRoutingOutcomes ==
  ASSUME NEW node, NodeOK(node), NEW c, CallOK(c),
         c.method \in {"ListRule", "RemoveRule", "GetBalancerInfo",
                       "OverrideBalancerTarget"},
         NEW o \in ManageRouting(node, c)
  PROVE  /\ OutcomeOK(node, o)
         /\ \/ /\ c.method \in {"ListRule", "GetBalancerInfo"}
               /\ o.node = node /\ o.reply.status = StatusOK
            \/ /\ c.method = "RemoveRule" /\ c.tag \notin node.rules
               /\ Fails(node, o, Missing)
            \/ /\ c.method = "RemoveRule" /\ c.tag \in node.rules
               /\ Succeeds(o, node.inbounds, node.outbounds, node.users,
                           node.rules \ {c.tag}, node.override, node.counters)
            \/ /\ c.method = "OverrideBalancerTarget"
               /\ Succeeds(o, node.inbounds, node.outbounds, node.users,
                           node.rules, [node.override EXCEPT ![c.tag] = c.id],
                           node.counters)
<1> DEFINE removed == [node EXCEPT !.rules = @ \ {c.tag}]
           override == [node.override EXCEPT ![c.tag] = c.id]
           overridden == [node EXCEPT !.override = override]
<1>1. /\ Missing \in SUBSET Status
      /\ {} \in SUBSET [id : Listed, value : Nat]
  BY AbsenceAndPresence
<1>2. /\ NodeIs(removed, node.inbounds, node.outbounds, node.users,
                node.rules \ {c.tag}, node.override, node.counters)
      /\ NodeIs(overridden, node.inbounds, node.outbounds, node.users,
                node.rules, override, node.counters)
  BY NodeUpdates
<1>3. CASE c.method = "ListRule"
  <2>1. o \in Success(node, Items(node.rules))
    BY <1>3 DEF ManageRouting
  <2>2. node.rules \in SUBSET Listed
    BY DEF NodeOK
  <2> QED
    BY <1>3, <2>1, <2>2, ItemsOK, SuccessOK
<1>4. CASE c.method = "GetBalancerInfo"
  <2>1. o \in Success(node, Items({node.override[c.tag]}))
    BY <1>4 DEF ManageRouting
  <2>2. {node.override[c.tag]} \in SUBSET Listed
    BY <1>4 DEF NodeOK, CallOK
  <2> QED
    BY <1>4, <2>1, <2>2, ItemsOK, SuccessOK
<1>5. CASE c.method = "RemoveRule" /\ c.tag \notin node.rules
  <2>1. o \in Refuse(node, Missing)
    BY <1>5 DEF ManageRouting
  <2> QED
    BY <1>1, <1>5, <2>1, RefuseOK DEF Fails
<1>6. CASE c.method = "RemoveRule" /\ c.tag \in node.rules
  <2>1. o \in Success(removed, {})
    BY <1>6 DEF ManageRouting
  <2> HIDE DEF removed
  <2>2. NodeOK(removed)
    BY <1>2 DEF NodeOK, NodeIs
  <2> QED
    BY <1>1, <1>2, <1>6, <2>1, <2>2, SuccessOK DEF Succeeds
<1>7. CASE c.method = "OverrideBalancerTarget"
  <2>1. o \in Success(overridden, {})
    BY <1>7 DEF ManageRouting
  <2>2. override \in [Id -> Listed]
    BY <1>7 DEF NodeOK, CallOK
  <2> HIDE DEF overridden, override
  <2>3. NodeOK(overridden)
    BY <1>2, <2>2 DEF NodeOK, NodeIs
  <2> QED
    BY <1>1, <1>2, <1>7, <2>1, <2>3, SuccessOK DEF Succeeds, override
<1> QED
  BY <1>3, <1>4, <1>5, <1>6, <1>7

-----------------------------------------------------------------------------
(* A call is refused, or it is one of the services that carries it out, if *)
(* the node accepts its token.                                             *)
LEMMA ExecCases ==
  ASSUME NEW node, NEW token, NEW c, c.method \in Method,
         NEW o \in Exec(node, token, c)
  PROVE  \/ o \in Refuse(node, RefusalErrors)
         \/ /\ token \in Accepts
            /\ \/ /\ c.method \in {"AddUser", "RemoveUser"}
                  /\ o \in AlterInbound(node, c)
               \/ /\ c.method \in {"ListInbounds", "AddInbound", "RemoveInbound"}
                  /\ o \in ManageInbounds(node, c)
               \/ /\ c.method \in {"ListOutbounds", "AddOutbound",
                                   "RemoveOutbound"}
                  /\ o \in ManageOutbounds(node, c)
               \/ /\ c.method \in {"GetStats", "QueryStats", "GetUsersStats"}
                  /\ o \in ReadStats(node, c)
               \/ /\ c.method \in {"ListRule", "RemoveRule", "GetBalancerInfo",
                                   "OverrideBalancerTarget"}
                  /\ o \in ManageRouting(node, c)
               \/ c.method = "TestRoute" /\ o \in Success(node, Items({c.what}))
               \/ /\ c.method \in {"GetSysStats", "GetAllOnlineUsers",
                                   "RestartLogger"}
                  /\ o \in Success(node, {})
<1>1. CASE token \notin Accepts
  BY <1>1 DEF Exec
<1>2. CASE token \in Accepts /\ c.method \in {"AddUser", "RemoveUser"}
  BY <1>2 DEF Exec
<1>3. CASE /\ token \in Accepts
           /\ c.method \in {"ListInbounds", "AddInbound", "RemoveInbound"}
  BY <1>3 DEF Exec
<1>4. CASE /\ token \in Accepts
           /\ c.method \in {"ListOutbounds", "AddOutbound", "RemoveOutbound"}
  BY <1>4 DEF Exec
<1>5. CASE /\ token \in Accepts
           /\ c.method \in {"GetStats", "QueryStats", "GetUsersStats"}
  BY <1>5 DEF Exec
<1>6. CASE /\ token \in Accepts
           /\ c.method \in {"ListRule", "RemoveRule", "GetBalancerInfo",
                            "OverrideBalancerTarget"}
  BY <1>6 DEF Exec
<1>7. CASE token \in Accepts /\ c.method = "TestRoute"
  BY <1>7 DEF Exec
<1>8. CASE /\ token \in Accepts
           /\ c.method \in {"GetSysStats", "GetAllOnlineUsers", "RestartLogger"}
  BY <1>8 DEF Exec
<1> QED
  BY <1>1, <1>2, <1>3, <1>4, <1>5, <1>6, <1>7, <1>8 DEF Method

(* Whatever comes of a call, the node stays a node, the reply can be read, *)
(* an error is no change, and only a token the node accepts changes it.    *)
LEMMA ExecOK ==
  ASSUME NEW node, NodeOK(node), NEW token, NEW c, CallOK(c),
         NEW o \in Exec(node, token, c)
  PROVE  /\ OutcomeOK(node, o)
         /\ o.node # node => token \in Accepts
<1>1. /\ RefusalErrors \in SUBSET Status
      /\ {} \in SUBSET [id : Listed, value : Nat]
  BY NodeAssumption DEF TellsNeither
<1>2. c.method \in Method /\ c.tag \in Listed
  BY DEF CallOK
<1>3. ASSUME o \in Refuse(node, RefusalErrors)
      PROVE  OutcomeOK(node, o)
  BY <1>1, <1>3, RefuseOK
<1>4. ASSUME c.method \in {"AddUser", "RemoveUser"} /\ o \in AlterInbound(node, c)
      PROVE  OutcomeOK(node, o)
  BY <1>4, AlterInboundOutcomes
<1>5. ASSUME /\ c.method \in {"ListInbounds", "AddInbound", "RemoveInbound"}
             /\ o \in ManageInbounds(node, c)
      PROVE  OutcomeOK(node, o)
  BY <1>2, <1>5, ManageInboundsOutcomes
<1>6. ASSUME /\ c.method \in {"ListOutbounds", "AddOutbound", "RemoveOutbound"}
             /\ o \in ManageOutbounds(node, c)
      PROVE  OutcomeOK(node, o)
  BY <1>2, <1>6, ManageOutboundsOutcomes
<1>7. ASSUME /\ c.method \in {"GetStats", "QueryStats", "GetUsersStats"}
             /\ o \in ReadStats(node, c)
      PROVE  OutcomeOK(node, o)
  BY <1>7, ReadStatsOutcomes
<1>8. ASSUME /\ c.method \in {"ListRule", "RemoveRule", "GetBalancerInfo",
                              "OverrideBalancerTarget"}
             /\ o \in ManageRouting(node, c)
      PROVE  OutcomeOK(node, o)
  BY <1>8, ManageRoutingOutcomes
<1>9. ASSUME c.method = "TestRoute" /\ o \in Success(node, Items({c.what}))
      PROVE  OutcomeOK(node, o)
  <2>1. {c.what} \in SUBSET Listed
    BY <1>9 DEF CallOK
  <2> QED
    BY <1>9, <2>1, ItemsOK, SuccessOK
<1>10. ASSUME o \in Success(node, {})
      PROVE  OutcomeOK(node, o)
  BY <1>1, <1>10, SuccessOK
<1>11. \/ o \in Refuse(node, RefusalErrors)
       \/ token \in Accepts /\ OutcomeOK(node, o)
  BY <1>2, <1>4, <1>5, <1>6, <1>7, <1>8, <1>9, <1>10, ExecCases
<1> QED
  BY <1>1, <1>11, RefuseOK

==============================================================================
