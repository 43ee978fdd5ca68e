-------------------------------- MODULE Bridge --------------------------------
(***************************************************************************)
(* The bridge between its HTTP clients and the xray nodes: the client      *)
(* cache of nodes.rs, the extractors and handlers of every request, the    *)
(* gRPC calls under way, and the nodes at their other end (external).      *)
(*                                                                         *)
(* A request is handled by a task of its own and gives way to others only  *)
(* where the code awaits: for its body, and for the reply to its call.     *)
(* The extractors before the body never await, so Extract is one step;     *)
(* the body, the handler up to its call, one more; and the handler from    *)
(* the reply on, a third.  A call is executed, answered or lost in between *)
(* at any time, or never: the code sets no deadline.  When the HTTP client *)
(* goes away the handler is dropped where it waits, and all handlers are   *)
(* when the bridge itself restarts, with the cache; but a call that was    *)
(* sent may still be executed.  Nothing is ever retried.                   *)
(***************************************************************************)
EXTENDS XrayClientCache, Handlers

CONSTANTS
  Request,         \* HTTP requests, each made once
  Inputs,          \* what a request may ask (records, see Handlers)
  Nodes,           \* the addresses at which there is a node
  Nothing,         \* no input, answer, reply or record yet
  Counted,         \* the stat names traffic is counted under
  TransportErrors, \* statuses tonic makes of a call that gets no reply
  MaxTraffic,      \* bound: units of traffic generated per counter
  MaxRestarts      \* bound: restarts of nodes

ASSUME BridgeAssumption ==
  /\ Nothing \notin Inputs
  /\ MaxTraffic \in Nat /\ MaxRestarts \in Nat
  /\ Counted \subseteq Id
  /\ Nothing \notin Reply
  /\ NoAuth # [scheme |-> "bearer", token |-> BridgeToken]

(* A broken connection is not mistaken for a node that misses something,   *)
(* or has it already.                                                      *)
ASSUME TransportAssumption == \A s \in TransportErrors : TellsNeither(s)

(* The counters of users are among those that match "user>>>", and their   *)
(* names have a second part.                                               *)
ASSUME UsersAssumption ==
  \A s \in UserStats : s \in Matches[AllUsers] /\ IdPart[s] # NoId

(* What a request may be.  It has a body if its handler takes one, and Id  *)
(* has whatever requests name; a balancer is one that exists.              *)
ASSUME InputsAssumption ==
  \A q \in Inputs :
    LET in == Routed(q) IN
    /\ DOMAIN q = RequestFields
    /\ q.path \in Seq({q.path[i] : i \in DOMAIN q.path})
    /\ q.domain \in Domain \cup {Absent} /\ q.token \in Token \cup {Absent}
    /\ q.name \in Name \cup {NoName}
    /\ q.auth # NoAuth =>
         q.auth = [scheme |-> q.auth.scheme, token |-> q.auth.token]
    /\ q.params \in BOOLEAN /\ q.flag \in BOOLEAN
    /\ in.op \in Op =>
         /\ IF in.op \in TakesBody
            THEN in.body \in {"ok", "syntax", "data", "media", "large"}
            ELSE in.body = "none"
         /\ {in.tag, in.id} \subseteq Id \cup {NoId}
         /\ in.op \in {"get_balancer", "override_balancer"} => in.tag \in Id

VARIABLES
  cache,     \* XrayClientCache.inner
  phase,     \* where the task of a request is
  input,     \* what it asks
  held,      \* the client its handler holds
  resp,      \* the answer it was given
  sent,      \* the client its call was made with
  wire,      \* what became of that call
  back,      \* the node's reply to it, on its way
  reply,     \* the reply the bridge received
  nodes,     \* the node at each address
  seen,      \* history: what was asked for, before and after the execution,
             \* and what there was to see
  execs,     \* history: times a node executed the call of a request
  traffic,   \* history: units generated per counter, over all its lives
  restarts   \* history: restarts so far

tasks == <<phase, input, held, resp>>
calls == <<sent, wire, back, reply>>
world == <<nodes, seen, execs, traffic, restarts>>
vars == <<cache, tasks, calls, world>>

Live == ChansOf(cache) \cup
        {held[r].chan : r \in {q \in Request : held[q] # NoClient}}

(* Whether what the request names is there: the user in its inbound, the   *)
(* inbound, the outbound, the rule, the counter.                           *)
There(node, in) ==
  CASE in.op \in {"add_user", "remove_user"} ->
         UserIn(node, in.tag, in.id) # {}
    [] in.op \in {"add_inbound", "remove_inbound"} ->
         Tagged(node.inbounds, in.tag) # {}
    [] in.op \in {"add_outbound", "remove_outbound"} ->
         Tagged(node.outbounds, in.tag) # {}
    [] in.op = "remove_rule" -> in.tag \in node.rules
    [] in.op = "override_balancer" -> node.override[in.tag] = in.id
    [] in.op = "get_stat" -> in.id \in DOMAIN node.counters
    [] OTHER -> TRUE

(* What is there under the name of what the request adds.                  *)
Added(node, in) ==
  CASE in.op = "add_user" -> {u.what : u \in UserIn(node, in.tag, in.id)}
    [] in.op = "add_inbound" ->
         {i.config : i \in Tagged(node.inbounds, in.tag)}
    [] in.op = "add_outbound" ->
         {o.config : o \in Tagged(node.outbounds, in.tag)}
    [] OTHER -> {}

(* Handlers whose answer is what they read off the node.                   *)
Reads == {"list_inbounds", "list_outbounds", "list_rules", "get_balancer",
          "test_route", "get_stat", "query_stats", "get_users_stats",
          "list_users"}

(* What such a request asks to see of the node: a table, the counters it   *)
(* means with their values, or the network its route is tested for.        *)
Shown(node, in) ==
  LET Figures(names) == {Item(s, node.counters[s]) :
                           s \in names \cap DOMAIN node.counters}
  IN  CASE in.op = "list_inbounds" -> Items({i.tag : i \in node.inbounds})
        [] in.op = "list_outbounds" -> Items({o.tag : o \in node.outbounds})
        [] in.op = "list_rules" -> Items(node.rules)
        [] in.op = "get_balancer" -> Items({node.override[in.tag]})
        [] in.op = "test_route" ->
             Items({IF in.spec.network = "UDP" THEN "UDP" ELSE "TCP"})
        [] in.op = "get_stat" ->
             {Item(in.id, IF in.id \in DOMAIN node.counters
                          THEN node.counters[in.id] ELSE 0)}
        [] in.op = "query_stats" -> Figures(Matches[in.arg])
        [] in.op = "get_users_stats" -> Figures(UserStats)
        [] in.op = "list_users" ->
             Items({IdPart[s] : s \in UserStats \cap DOMAIN node.counters})
        [] OTHER -> {}

-----------------------------------------------------------------------------

Init ==
  /\ cache = << >>
  /\ phase = [r \in Request |-> "idle"]
  /\ input = [r \in Request |-> Nothing]
  /\ held = [r \in Request |-> NoClient]
  /\ resp = [r \in Request |-> Nothing]
  /\ sent = [r \in Request |-> NoClient]
  /\ wire = [r \in Request |-> "none"]
  /\ back = [r \in Request |-> Nothing]
  /\ reply = [r \in Request |-> Nothing]
  /\ nodes = [a \in Nodes |-> FreshNode]
  /\ seen = [r \in Request |-> Nothing]
  /\ execs = [r \in Request |-> 0]
  /\ traffic = [p \in Nodes \X Counted |-> 0]
  /\ restarts = 0

(* The handler of r ends with answer a and lets its client go.             *)
AnswerWith(r, a) ==
  /\ phase' = [phase EXCEPT ![r] = "done"]
  /\ resp' = [resp EXCEPT ![r] = ToClient(input[r].method, a)]
  /\ held' = [held EXCEPT ![r] = NoClient]

(* The path and the method say which handler it is for.                    *)
Arrive(r, q) ==
  /\ phase[r] = "idle"
  /\ phase' = [phase EXCEPT ![r] = "arrived"]
  /\ input' = [input EXCEPT ![r] = Routed(q)]
  /\ UNCHANGED <<cache, held, resp, calls, world>>

(* No handler of src/routes, and nothing of what those ask for.            *)
AnswerUnrouted(r) ==
  /\ input[r].op \in DOMAIN RouterAnswer
  /\ AnswerWith(r, RouterAnswer[input[r].op])
  /\ UNCHANGED cache

(* The extractors, in the order every handler lists them: NodeContext,     *)
(* Path and Query, BearerAuth.  The cache keeps what NodeContext did to it *)
(* also when a later one rejects the request.                              *)
MissingHeader(r) ==
  /\ input[r].op \in Op
  /\ ~HeaderOK(input[r])
  /\ AnswerWith(r, InvalidArgument)
  /\ UNCHANGED cache

FromRequestParts(r) ==
  LET in == input[r] IN
  /\ in.op \in Op
  /\ HeaderOK(in)
  /\ \E o \in GetOrCreate(cache, Live, KeyOf(in), in.name) :
       /\ cache' = o.cache
       /\ CASE o.client = NoClient -> AnswerWith(r, Internal)
            [] o.client # NoClient /\ ~in.params ->
                 AnswerWith(r, PlainError(400))
            [] o.client # NoClient /\ in.params /\ ~Authorized(in) ->
                 AnswerWith(r, Unauthenticated)
            [] OTHER -> /\ phase' = [phase EXCEPT ![r] = "handler"]
                        /\ held' = [held EXCEPT ![r] = o.client]
                        /\ UNCHANGED resp

(* Mutant: one request at a time, the lock kept until the answer.          *)
ExtractLocked(r) ==
  /\ phase[r] = "arrived"
  /\ \A q \in Request : held[q] = NoClient
  /\ AnswerUnrouted(r) \/ MissingHeader(r) \/ FromRequestParts(r)
  /\ UNCHANGED <<input, calls, world>>

Extract(r) ==
  /\ phase[r] = "arrived"
  /\ AnswerUnrouted(r) \/ MissingHeader(r) \/ FromRequestParts(r)
  /\ UNCHANGED <<input, calls, world>>

(* The body has been read: the handler rejects it, or makes its call.      *)
Reject(r) == \E a \in Rejections(input[r]) : AnswerWith(r, a)

Send(r) ==
  /\ sent' = [sent EXCEPT ![r] = held[r]]
  /\ wire' = [wire EXCEPT ![r] = "sent"]

(* Mutant: the call is made before the input is checked.                   *)
RunHandlerUnchecked(r) ==
  /\ phase[r] = "handler"
  /\ Send(r)
  /\ \/ Reject(r)
     \/ /\ Rejections(input[r]) = {}
        /\ phase' = [phase EXCEPT ![r] = "waiting"]
        /\ UNCHANGED <<held, resp>>
  /\ UNCHANGED <<cache, input, back, reply, world>>

RunHandler(r) ==
  /\ phase[r] = "handler"
  /\ \/ Reject(r) /\ UNCHANGED <<sent, wire>>
     \/ /\ Rejections(input[r]) = {}
        /\ phase' = [phase EXCEPT ![r] = "waiting"]
        /\ Send(r)
        /\ UNCHANGED <<held, resp>>
  /\ UNCHANGED <<cache, input, back, reply, world>>

(* The node executes the call of r, whether somebody still waits for it or *)
(* not; the reply sets out.                                                *)
Execute(r) ==
  /\ wire[r] = "sent"
  /\ AddressOf(sent[r]) \in Nodes
  /\ \E o \in Exec(nodes[AddressOf(sent[r])], sent[r].token,
                   CallOf(input[r])) :
       /\ nodes' = [nodes EXCEPT ![AddressOf(sent[r])] = o.node]
       /\ back' = [back EXCEPT ![r] = o.reply]
  /\ wire' = [wire EXCEPT ![r] = "executed"]
  /\ execs' = [execs EXCEPT ![r] = @ + 1]
  /\ seen' = [seen EXCEPT ![r] =
                IF Target(input[r]) \in Nodes
                THEN [before  |-> There(nodes[Target(input[r])], input[r]),
                      after   |-> There(nodes'[Target(input[r])], input[r]),
                      added   |-> Added(nodes'[Target(input[r])], input[r]),
                      changed |-> nodes' # nodes,
                      shown   |-> Shown(nodes[Target(input[r])], input[r])]
                ELSE Nothing]
  /\ UNCHANGED <<cache, tasks, sent, reply, traffic, restarts>>

(* The reply reaches the bridge, in time.                                  *)
ReplyArrives(r) ==
  /\ phase[r] = "waiting"
  /\ wire[r] = "executed"
  /\ reply[r] = Nothing
  /\ reply' = [reply EXCEPT ![r] = back[r]]
  /\ UNCHANGED <<cache, tasks, sent, wire, back, world>>

(* There is no connection, or it breaks before the reply is here: executed *)
(* or not, or still to be executed from the node's receive buffer, the     *)
(* call ends with a status made up by tonic.                               *)
TransportFails(r) ==
  /\ phase[r] = "waiting"
  /\ reply[r] = Nothing
  /\ \E s \in TransportErrors :
       reply' = [reply EXCEPT ![r] = [status |-> s, payload |-> {}]]
  /\ UNCHANGED <<cache, tasks, sent, wire, back, world>>

(* Mutant: a call that failed in transport is made again.                  *)
ResumeRetrying(r) ==
  /\ phase[r] = "waiting"
  /\ reply[r] # Nothing
  /\ IF reply[r].status.code = "UNAVAILABLE"
     THEN /\ wire' = [wire EXCEPT ![r] = "sent"]
          /\ reply' = [reply EXCEPT ![r] = Nothing]
          /\ UNCHANGED <<phase, held, resp>>
     ELSE /\ AnswerWith(r, Finish(input[r], reply[r]))
          /\ UNCHANGED <<wire, reply>>
  /\ UNCHANGED <<cache, input, sent, back, world>>

(* Mutant: an answer waits for the other calls on the same channel.        *)
ResumeInTurn(r) ==
  /\ phase[r] = "waiting"
  /\ reply[r] # Nothing
  /\ \A q \in Request : held[q] = held[r] => reply[q] # Nothing
  /\ AnswerWith(r, Finish(input[r], reply[r]))
  /\ UNCHANGED <<cache, input, calls, world>>

(* The handler resumes with the reply and answers.                         *)
Resume(r) ==
  /\ phase[r] = "waiting"
  /\ reply[r] # Nothing
  /\ AnswerWith(r, Finish(input[r], reply[r]))
  /\ UNCHANGED <<cache, input, calls, world>>

(* Where a task can be dropped.                                            *)
Running == {"arrived", "handler", "waiting"}

(* The HTTP client closes its connection: the task is dropped.             *)
Disconnect(r) ==
  /\ phase[r] \in Running
  /\ phase' = [phase EXCEPT ![r] = "gone"]
  /\ held' = [held EXCEPT ![r] = NoClient]
  /\ UNCHANGED <<cache, input, resp, calls, world>>

(* The bridge is stopped, or crashes, and is started again: nothing of it  *)
(* is left, and nothing it sent is taken back.                             *)
RestartBridge ==
  /\ cache' = << >>
  /\ phase' = [r \in Request |->
                 IF phase[r] \in Running THEN "gone" ELSE phase[r]]
  /\ held' = [r \in Request |-> NoClient]
  /\ UNCHANGED <<input, resp, calls, world>>

(* A node starts again from its configuration file.                        *)
Restart(a) ==
  /\ restarts < MaxRestarts
  /\ nodes' = [nodes EXCEPT ![a] = FreshNode]
  /\ restarts' = restarts + 1
  /\ UNCHANGED <<cache, tasks, calls, seen, execs, traffic>>

(* A node carries a unit of traffic; the first creates the counter.        *)
Traffic(a, s) ==
  /\ traffic[a, s] < MaxTraffic
  /\ traffic' = [traffic EXCEPT ![<<a, s>>] = @ + 1]
  /\ nodes' = [nodes EXCEPT ![a] = Carry(@, s)]
  /\ UNCHANGED <<cache, tasks, calls, seen, execs, restarts>>

BridgeStep(r) == Extract(r) \/ RunHandler(r) \/ Resume(r)

ClientStep(r) == (\E q \in Inputs : Arrive(r, q)) \/ Disconnect(r)

NetworkStep(r) == Execute(r) \/ ReplyArrives(r) \/ TransportFails(r)

NodeStep(a) == Restart(a) \/ \E s \in Counted : Traffic(a, s)

Next ==
  \/ \E r \in Request : BridgeStep(r) \/ ClientStep(r) \/ NetworkStep(r)
  \/ RestartBridge
  \/ \E a \in Nodes : NodeStep(a)

(* tokio polls a task that can go on.  Nothing is assumed of the nodes and *)
(* the network, nor of the HTTP client that still owes its body.           *)
Fairness ==
  \A r \in Request :
    /\ WF_vars(Extract(r))
    /\ WF_vars(RunHandler(r) /\ input[r].op \notin TakesBody)
    /\ WF_vars(Resume(r))

Spec == Init /\ [][Next]_vars

FairSpec == Spec /\ Fairness

-----------------------------------------------------------------------------
(* Types of the state of the bridge and its surroundings.                  *)
TypeOK ==
  /\ cache \in Seq(Entry) /\ Len(cache) <= MaxEntries
  /\ phase \in [Request -> {"idle", "arrived", "handler", "waiting", "done",
                            "gone"}]
  /\ \A r \in Request : input[r] # Nothing =>
       input[r].op \in Op \cup DOMAIN RouterAnswer
  /\ held \in [Request -> XrayClient \cup {NoClient}]
  /\ sent \in [Request -> XrayClient \cup {NoClient}]
  /\ wire \in [Request -> {"none", "sent", "executed"}]
  /\ \A r \in Request : reply[r] # Nothing => reply[r].status \in Status
  /\ execs \in [Request -> Nat]
  /\ restarts \in 0..MaxRestarts

Done(r) == phase[r] = "done"

(* The bridge without its cache: each request served on its own.           *)
Stage ==
  [r \in Request |-> CASE phase[r] = "idle" -> "idle"
                       [] phase[r] \in Running -> "open"
                       [] phase[r] = "done" -> "answered"
                       [] phase[r] = "gone" -> "dropped"]

Service == INSTANCE BridgeService
             WITH stage <- Stage, asked <- input, answer <- resp,
                  effect <- back

(* Whatever clients the requests share, lend each other through the cache, *)
(* displace or lose in a restart of the bridge: each of them is served as  *)
(* if it were alone (nodes.rs:41-168, routes/handler.rs:167-334).          *)
ImplementsService == Service!Spec

(* Two handlers that wait on one channel, whether they got it by making it *)
(* or from the cache, are for one domain, port and token; and whoever will *)
(* find that channel in the cache is, too.  It stays so when the entry is  *)
(* displaced or the cache is rebuilt while a handler is still suspended    *)
(* (nodes.rs:31-34, 50-95).                                                *)
ChannelsKeptApart ==
  \A r \in Request : held[r] # NoClient =>
    /\ \A q \in Request :
         held[q] # NoClient /\ held[q].chan = held[r].chan =>
           KeyOf(input[q]) = KeyOf(input[r])
    /\ \A i \in DOMAIN cache :
         cache[i].client.chan = held[r].chan =>
           cache[i].key = KeyOf(input[r])

(* What a request line and its query and body name, told without the       *)
(* routing table: the text of the last segment, what it is under.          *)
TextOf(segment) ==
  IF <<segment>> \in DOMAIN Decoded THEN Decoded[<<segment>>] ELSE segment

Posts(q, to) == q.method = "POST" /\ q.path = to

Names(q, method, under, text) ==
  /\ q.method = method
  /\ Len(q.path) = Len(under) + 1
  /\ SubSeq(q.path, 1, Len(under)) = under
  /\ TextOf(q.path[Len(q.path)]) = text

ResetsCounter(q, s) ==
  /\ q.method \in {"GET", "HEAD"} /\ q.flag
  /\ \/ q.path = <<"v1", "stats">> /\ s \in Matches[q.arg]
     \/ q.path = <<"v1", "users", "stats">> /\ s \in UserStats
     \/ q.path[2] = "stats" /\ Capture(q.path) = s

Changes(old, new) == (old \ new) \cup (new \ old)

(* What a request may change on a node.                                    *)
MayChange(old, new, q) ==
  /\ \A u \in Changes(old.users, new.users) :
       \/ Posts(q, <<"v1", "users">>) /\ q.in_tag = u.tag /\ q.in_id = u.email
       \/ Names(q, "DELETE", <<"v1", "users">>, u.email) /\ q.arg = u.tag
       \/ Names(q, "DELETE", <<"v1", "inbounds">>, u.tag)
  /\ \A i \in Changes(old.inbounds, new.inbounds) :
       \/ Posts(q, <<"v1", "inbounds">>) /\ q.in_tag = i.tag
       \/ Names(q, "DELETE", <<"v1", "inbounds">>, i.tag)
  /\ \A o \in Changes(old.outbounds, new.outbounds) :
       \/ Posts(q, <<"v1", "outbounds">>) /\ q.in_tag = o.tag
       \/ Names(q, "DELETE", <<"v1", "outbounds">>, o.tag)
  /\ \A t \in Changes(old.rules, new.rules) :
       Names(q, "DELETE", <<"v1", "routing", "rules">>, t)
  /\ \A b \in Id : old.override[b] # new.override[b] =>
       /\ Names(q, "PUT", <<"v1", "routing", "balancers">>, b)
       /\ new.override[b] = q.in_id
  /\ \A s \in DOMAIN old.counters :
       old.counters[s] # new.counters[s] => ResetsCounter(q, s)

(* A node only changes by a restart, by its own traffic, or by the call of *)
(* a request that named its address, carried the token it accepts, proved  *)
(* the bridge token, had a valid body, and whose method, path, query and   *)
(* body ask for that very change: whatever clients the shared cache held,  *)
(* lent and dropped in between (routes/mod.rs:15-63,                       *)
(* routes/handler.rs:167-334, nodes.rs:50-95).                             *)
ChangedOnlyAsAsked ==
  [][\A a \in Nodes :
       nodes'[a] # nodes[a] /\ restarts' = restarts /\ traffic' = traffic =>
         \E r \in Request :
           /\ execs'[r] = execs[r] + 1
           /\ Target(input[r]) = a
           /\ input[r].token \in Accepts
           /\ Service!Acceptable(input[r])
           /\ MayChange(nodes[a], nodes'[a], input[r])]_vars

(* Static routes hide two users from DELETE /v1/users/{email}, unless they *)
(* are percent-encoded, and no others; GET below /v1/users only knows the  *)
(* two listings; and whatever is below /v1/stats is the name of a counter, *)
(* slashes and all (routes/mod.rs:29-38).                                  *)
PathsNameTheirSubject ==
  \A r \in Request : input[r] # Nothing =>
    LET q == input[r]
        Below(collection) ==
          Len(q.path) > 2 /\ SubSeq(q.path, 1, 2) = <<"v1", collection>>
        read == q.method \in {"GET", "HEAD"}
        rest == SubSeq(q.path, 3, Len(q.path))
    IN  /\ Below("users") /\ Len(rest) = 1 /\ rest # <<"">> =>
             CASE q.method = "DELETE" /\ rest[1] \notin {"online", "stats"} ->
                    q.op = "remove_user" /\ q.id = TextOf(rest[1])
               [] read /\ rest[1] = "online" -> q.op = "get_online_users"
               [] read /\ rest[1] = "stats" -> q.op = "get_users_stats"
               [] OTHER -> q.op = "method_not_allowed"
        /\ Below("stats") /\ rest # <<"">> =>
             IF read
             THEN /\ q.op = "get_stat"
                  /\ q.id = IF rest \in DOMAIN Decoded THEN Decoded[rest]
                            ELSE rest[1]
             ELSE q.op = "method_not_allowed"

(* A request's call is executed at most once, however often connections    *)
(* break: an operation that is not idempotent (add_user, a reset) is never *)
(* repeated behind the caller's back.                                      *)
AtMostOnce == \A r \in Request : execs[r] <= 1

(* What was added is what the body describes: the credentials of the       *)
(* protocol and its level, or the two settings, each in its place.         *)
AsDescribed(what, in) ==
  CASE in.op = "add_user" ->
         LET spec == in.spec
             proto == IF spec.proto = NoText THEN "vless" ELSE spec.proto
         IN  /\ what.level = spec.level /\ what.account.type = proto
             /\ proto \in {"vless", "vmess"} => what.account.id = spec.uuid
             /\ proto = "vless" => what.account.flow = spec.flow
             /\ proto \in {"trojan", "shadowsocks"} =>
                  what.account.password = spec.password
             /\ proto = "vmess" =>
                  /\ what.account.security \in {"NONE", "ZERO"} =>
                       spec.security = what.account.security
                  /\ spec.security \in KnownSecurity =>
                       what.account.security = spec.security
             /\ proto = "shadowsocks" =>
                  /\ what.account.cipher # "NONE" \/ spec.cipher = "NONE"
                  /\ spec.cipher \in KnownCipher =>
                       what.account.cipher = spec.cipher
    [] OTHER -> /\ what.transport = in.spec.settings
                /\ what.proxy = in.spec.proxy_settings

(* A success is the truth about the node the request named: what 201 and   *)
(* 200 say was done was done by this request; what it added is what it     *)
(* described, whichever of its many like-typed fields that takes; and the  *)
(* note of an idempotent DELETE says that there was nothing to do          *)
(* (routes/handler.rs:173-194, 204-237, xray/account.rs:30-98).            *)
SuccessIsTrue ==
  \A r \in Request :
    Done(r) /\ resp[r].http \in {200, 201} /\ input[r].path # <<"healthz">> =>
      LET in == input[r] IN
      /\ execs[r] = 1
      /\ in.op \in Adds =>
           /\ ~seen[r].before /\ seen[r].after
           /\ \A what \in seen[r].added : AsDescribed(what, in)
      /\ in.op \in {"remove_user", "remove_inbound", "remove_outbound",
                    "remove_rule"} =>
           ~seen[r].after /\ (seen[r].before <=> ~resp[r].note)
      /\ in.op = "override_balancer" => seen[r].after

(* A 4xx answer is final: the request changed nothing and never will, also *)
(* not by a call still under way.  Either no node was called, or it is the *)
(* 404 of what was absent, or the 409 of what was there.                   *)
ClientErrorIsFinal ==
  \A r \in Request : Done(r) /\ resp[r].http \in 400..499 =>
    \/ sent[r] = NoClient /\ resp[r].http # 409
    \/ /\ resp[r].http \in {404, 409}
       /\ wire[r] = "executed"
       /\ ~seen[r].changed
       /\ seen[r].before <=> resp[r].http = 409

(* Whoever is told that a call failed has to know whether it may have had  *)
(* an effect: an executed change is answered with a success, or with a     *)
(* status tonic made up for a broken connection, and with nothing else.    *)
EffectIsReported ==
  \A r \in Request :
    Done(r) /\ execs[r] > 0 /\ seen[r] # Nothing /\ seen[r].changed =>
      \/ resp[r].http \in {200, 201}
      \/ \E s \in TransportErrors :
           resp[r] = ToClient(input[r].method, Grpc(s))

(* Absence is no error where the API says so: a node that finds nothing of *)
(* a counter has its caller told 0 (xray/stats.rs:94-107), and DELETE of a *)
(* user is idempotent unless ignore_missing=false                          *)
(* (routes/handler.rs:210-228), whichever way the node words it.           *)
AbsenceIsNoError ==
  \A r \in Request :
    /\ Done(r) /\ wire[r] = "executed" /\ ~seen[r].before
    /\ reply[r] = back[r] /\ reply[r].status \notin RefusalErrors
    => LET in == input[r] IN
       /\ in.op = "get_stat" =>
            /\ resp[r].http = 200
            /\ in.method # "HEAD" => resp[r].body = {Item(in.id, 0)}
       /\ in.op = "remove_user" =>
            IF in.flag THEN resp[r].http = 200 /\ resp[r].note
            ELSE resp[r].http = 404

(* A reading tells what the node it named had when it looked: a failure    *)
(* never passes for a 0 or an empty list, and no value is another node's,  *)
(* another counter's, or from before or after.  list_users leaves out no   *)
(* user with traffic (it may list more, see ListedAreUsers), and           *)
(* test_route tests UDP exactly when UDP was asked for                     *)
(* (xray/stats.rs:55-213, xray/handler.rs:99-158, xray/routing.rs:26-127). *)
ReadsAreTrue ==
  \A r \in Request :
    /\ Done(r) /\ resp[r].http = 200
    /\ input[r].op \in Reads /\ input[r].method # "HEAD"
    => /\ wire[r] = "executed"
       /\ IF input[r].op = "list_users" THEN seen[r].shown \subseteq resp[r].body
          ELSE resp[r].body = seen[r].shown

-----------------------------------------------------------------------------
ResetAnswers(a) ==
  {r \in Request : /\ Done(r) /\ resp[r].http = 200
                   /\ input[r].op \in Resets /\ input[r].flag
                   /\ Target(input[r]) = a}

(* The units of traffic that items tell of counter s, each as a pair.      *)
Units(items, s) ==
  UNION {{i} \X (1..i.value) : i \in {j \in items : j.id = s}}

(* The traffic of counter s at a that callers were told and have to keep.  *)
Taken(a, s) ==
  Cardinality(UNION {{r} \X Units(resp[r].body, s) : r \in ResetAnswers(a)})

Current(a, s) ==
  IF s \in DOMAIN nodes[a].counters THEN nodes[a].counters[s] ELSE 0

(* A unit of traffic is reported by at most one resetting read, and none   *)
(* is reported that was not carried.  None is lost either, as long as the  *)
(* node stays up and every executed read is answered with a body; a lost   *)
(* reply takes the traffic it reported with it, and HEAD with ?reset=true  *)
(* throws it away (xray/stats.rs:55-108, 172-200, routes/mod.rs:27-32).    *)
ResetCountsOnce ==
  \A a \in Nodes, s \in Counted :
    /\ Taken(a, s) + Current(a, s) <= traffic[a, s]
    /\ restarts = 0 /\ (\A r \in Request : execs[r] > 0 =>
                          /\ Done(r) /\ resp[r].http \in {200, 201}
                          /\ input[r].method # "HEAD")
         => Taken(a, s) + Current(a, s) = traffic[a, s]

-----------------------------------------------------------------------------
(* README.md:303: "| 422 | `INVALID_ARGUMENT` | Missing required body field *)
(* (e.g. `tag`) |".  The code field of a 422 answer.                       *)
UnprocessableIsInvalidArgument ==
  \A r \in Request :
    Done(r) /\ resp[r].http = 422 => resp[r].code = "INVALID_ARGUMENT"

(* xray/stats.rs:202, of list_users: "only users with traffic records".    *)
(* Whoever is listed is a user, and has such a record.                     *)
ListedAreUsers ==
  \A r \in Request :
    Done(r) /\ resp[r].http = 200 /\ input[r].op = "list_users" =>
      \A i \in resp[r].body : \E s \in UserStats : IdPart[s] = i.id

-----------------------------------------------------------------------------
(* The extractors and a handler without a body never wait: no lock is held *)
(* across an await, so every such request is answered, given up by its     *)
(* client, or waiting for its node (nodes.rs:42, 51).                      *)
HandlersProceed ==
  \A r \in Request :
    phase[r] = "arrived" ~>
      (\/ phase[r] \in {"waiting", "done", "gone"}
       \/ phase[r] = "handler" /\ input[r].op \in TakesBody)

(* A caller whose call got its reply, or the news that it failed, is       *)
(* answered.                                                               *)
RepliesAreDelivered ==
  \A r \in Request : reply[r] # Nothing ~> phase[r] \in {"done", "gone"}
===============================================================================
