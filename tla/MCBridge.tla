------------------------------- MODULE MCBridge -------------------------------
(***************************************************************************)
(* Instances of Bridge.  There are up to two nodes behind one domain, on   *)
(* ports 443 and 8443; at the other domain nobody answers.  The sets of    *)
(* inputs below choose what an instance is about.                          *)
(***************************************************************************)
EXTENDS Bridge, TLC

CONSTANTS
  d1, d2, dbad, t1, t2, n1,
  vin, nin,                 \* inbound in the config file, new inbound
  oout, nout, rule, bal,    \* outbounds, a routing rule, a balancer
  alice, superuser,         \* an email, an inbound tag that ends in "user"
  encoded,                  \* a segment that says "online" percent-encoded
  aliceUp, aliceDown, superUp,    \* stat names
  left, right, leftRight,   \* two segments, and the stat name they make
  pAll, pAlice,             \* patterns: "user>>>" and alice's email
  secret, wrong,            \* bridge tokens
  uuid, flow, pass, s1, s2  \* credentials; typed settings

MCDomain == {d1, d2, dbad}
MCInvalidDomain == {dbad}
MCToken == {t1, t2}
MCName == {n1}
MCId == {vin, nin, oout, nout, rule, bal, alice, superuser, aliceUp,
         aliceDown, superUp, leftRight, pAll, pAlice, "online", "stats"}

MCDecoded == (<<encoded>> :> "online") @@ (<<left, right>> :> leftRight)
MCAccepts == {t1}
MCNodes == {[domain |-> d1, port |-> 443], [domain |-> d1, port |-> 8443]}
OneNode == {[domain |-> d1, port |-> 443]}

(* "user>>>" is also part of "inbound>>>superuser>>>traffic>>>uplink".     *)
MCMatches ==
  (pAll :> {aliceUp, aliceDown, superUp}) @@ (pAlice :> {aliceUp, aliceDown})
MCUserStats == {aliceUp, aliceDown}
MCIdPart ==
  [s \in MCId |-> CASE s \in {aliceUp, aliceDown} -> alice
                    [] s = superUp -> superuser
                    [] OTHER -> NoId]

St(code) == [code |-> code, details |-> {}]

MCRefusals == {St("UNIMPLEMENTED"), St("UNKNOWN")}
AllRefusals == {St(c) : c \in Code \ {"OK", "NOT_FOUND", "ALREADY_EXISTS"}}
MCTransport == {St("UNAVAILABLE"), St("UNKNOWN")}
OneError == {St("UNAVAILABLE")}

Good == [scheme |-> "bearer", token |-> secret]

(* A request to the node on port 443, nothing wrong with it.               *)
Ask(method, path) ==
  [method |-> method, path |-> path, domain |-> d1, port |-> 443,
   token |-> t1, name |-> NoName, auth |-> Good, params |-> TRUE,
   flag |-> FALSE, arg |-> NoId, body |-> "none", in_tag |-> NoId,
   in_id |-> NoId, spec |-> NoId]

With(in, tag, id, spec) ==
  [in EXCEPT !.body = "ok", !.in_tag = tag, !.in_id = id, !.spec = spec]

Users == <<"v1", "users">>
Inbounds == <<"v1", "inbounds">>
Outbounds == <<"v1", "outbounds">>
Stats == <<"v1", "stats">>
Routing == <<"v1", "routing">>

Account(proto) ==
  [proto |-> proto, level |-> 1, uuid |-> uuid, flow |-> flow,
   security |-> "ZERO", password |-> pass, cipher |-> "AES_256_GCM"]

Config == [tag |-> "string", settings |-> s1, proxy_settings |-> s2]

AddAlice == With(Ask("POST", Users), vin, alice, Account(NoText))

Removal(segment) ==
  [Ask("DELETE", Append(Users, segment)) EXCEPT !.arg = vin, !.flag = TRUE]

RemoveAlice == Removal(alice)
RemoveStrictly == [RemoveAlice EXCEPT !.flag = FALSE]

(* Users and the inbound they are in, put, taken and put back.             *)
UserInputs ==
  {AddAlice, RemoveAlice, RemoveStrictly,
   Ask("DELETE", Append(Inbounds, vin))}

(* Every way to be rejected, and a request that is not.                    *)
RejectedInputs ==
  {AddAlice,
   [AddAlice EXCEPT !.domain = Absent],
   [AddAlice EXCEPT !.token = Absent],
   [AddAlice EXCEPT !.domain = dbad],
   [AddAlice EXCEPT !.auth = NoAuth],
   [AddAlice EXCEPT !.auth.scheme = "basic"],
   [AddAlice EXCEPT !.auth.token = wrong],
   [AddAlice EXCEPT !.token = t2],
   [AddAlice EXCEPT !.body = "syntax"],
   [AddAlice EXCEPT !.body = "data"],
   [AddAlice EXCEPT !.body = "media"],
   [AddAlice EXCEPT !.body = "large"],
   [AddAlice EXCEPT !.spec.proto = "other"],
   [AddAlice EXCEPT !.spec.proto = "trojan", !.spec.password = NoText],
   [AddAlice EXCEPT !.path = Append(Users, "")],
   [AddAlice EXCEPT !.method = "PUT"],
   [RemoveAlice EXCEPT !.params = FALSE],
   With(Ask("POST", Inbounds), nin, NoId, [Config EXCEPT !.tag = "number"]),
   With(Ask("POST", Inbounds), nin, NoId,
        [Config EXCEPT !.settings = "malformed"]),
   With(Ask("POST", Outbounds), nout, NoId,
        [Config EXCEPT !.proxy_settings = "malformed"])}

(* The same user at two nodes, one of them with two tokens, and an address *)
(* where nobody answers, through a cache that holds a single client.       *)
NodeInputs ==
  {AddAlice, [AddAlice EXCEPT !.port = 8443], [AddAlice EXCEPT !.token = t2],
   [AddAlice EXCEPT !.domain = d2], [RemoveAlice EXCEPT !.port = 65979]}

(* Both together.                                                         *)
WrongAndRightInputs == RejectedInputs \cup NodeInputs

(* The readings of counters that reset them, one that also throws the      *)
(* value away, and one that does not reset.                                *)
ResetStat == [Ask("GET", Append(Stats, aliceUp)) EXCEPT !.flag = TRUE]

ResetInputs ==
  {ResetStat, [ResetStat EXCEPT !.flag = FALSE],
   [ResetStat EXCEPT !.method = "HEAD"],
   [Ask("GET", Stats) EXCEPT !.arg = pAlice, !.flag = TRUE],
   [Ask("GET", Append(Users, "stats")) EXCEPT !.flag = TRUE]}

(* Accounts of every protocol, with names that are known and not; both     *)
(* kinds of configuration.                                                 *)
BodyInputs ==
  {With(Ask("POST", Users), vin, alice, Account(p)) :
     p \in {"vless", "vmess", "trojan", "shadowsocks"}} \cup
  {With(Ask("POST", Users), vin, alice,
        [Account(p) EXCEPT !.security = NoText, !.cipher = "other"]) :
     p \in {"vmess", "shadowsocks"}} \cup
  {With(Ask("POST", Inbounds), nin, NoId, Config),
   With(Ask("POST", Outbounds), nout, NoId,
        [Config EXCEPT !.settings = NoText]),
   With(Ask("POST", Append(Routing, "test")), vin, alice,
        [network |-> "UDP"]),
   With(Ask("POST", Append(Routing, "test")), vin, alice,
        [network |-> "other"])}

(* Paths that look alike, and users who share theirs with a listing.       *)
PathInputs ==
  {Ask("GET", <<"healthz">>), Ask("GET", Append(Users, "online")),
   Ask("HEAD", Append(Users, "stats")), Ask("GET", Append(Users, alice)),
   Ask("DELETE", Append(Stats, aliceUp)),
   Ask("GET", Append(Stats, "")), Ask("GET", Stats \o <<left, right>>),
   Removal("online"), Removal(encoded), Removal("stats"),
   With(Ask("POST", Users), vin, "online", Account("vless"))}

(* All handlers.                                                           *)
AllInputs ==
  {AddAlice, RemoveAlice, RemoveStrictly,
   Ask("DELETE", Append(Inbounds, nin)), Ask("DELETE", Append(Outbounds, nout)),
   Ask("DELETE", Routing \o <<"rules", rule>>),
   Ask("GET", Routing \o <<"balancers", bal>>),
   With(Ask("PUT", Routing \o <<"balancers", bal>>), NoId, oout, NoId),
   Ask("POST", <<"v1", "logger", "restart">>),
   [Ask("GET", Stats) EXCEPT !.arg = pAll]} \cup
  {Ask("GET", p) : p \in {Users, Inbounds, Outbounds, <<"v1", "sys">>,
                          Append(Routing, "rules")}} \cup
  ResetInputs \cup BodyInputs \cup PathInputs

(* Request identities are interchangeable, and so are channels.            *)
Symmetry == Permutations(Request) \cup Permutations(Chan)
===============================================================================
