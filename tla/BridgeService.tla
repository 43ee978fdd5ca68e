----------------------------- MODULE BridgeService -----------------------------
(***************************************************************************)
(* What the bridge promises whoever sends it requests, told without its    *)
(* cache, clients, channels, tasks and suspensions: every request is       *)
(* served as if it were alone.  Something wrong with it, and it is refused *)
(* and no node hears of it.  Otherwise the node at the address it names    *)
(* carries out its call at most once, with the request's own token, and    *)
(* its answer is made of its own reply, or says that none came.  It may be *)
(* dropped at any time, alone or with others, without its call being taken *)
(* back.                                                                   *)
(***************************************************************************)
EXTENDS NodeHeaders, Handlers

CONSTANTS
  Request,         \* HTTP requests, each made once
  Inputs,          \* what a request may ask
  Nodes,           \* the addresses at which there is a node
  Nothing,         \* no input, answer or reply yet
  Counted,         \* the stat names traffic is counted under
  TransportErrors  \* statuses of a call that gets no reply

VARIABLES
  stage,    \* "idle", "open", "answered" or "dropped"
  asked,    \* what the request asks
  answer,   \* the answer it was given
  effect,   \* the node's reply to its call, once that is carried out
  nodes     \* the node at each address

vars == <<stage, asked, answer, effect, nodes>>

(* What a caller may expect to be carried out.                             *)
Acceptable(in) ==
  /\ in.op \in Op
  /\ HeaderOK(in) /\ in.domain \notin InvalidDomain
  /\ in.params
  /\ in.auth = [scheme |-> "bearer", token |-> BridgeToken]
  /\ in.op \in TakesBody => in.body = "ok"
  /\ in.op = "add_user" =>
       \/ in.spec.proto \in {"vless", "vmess", NoText}
       \/ /\ in.spec.proto \in {"trojan", "shadowsocks"}
          /\ in.spec.password # NoText
  /\ in.op \in {"add_inbound", "add_outbound"} =>
       /\ in.spec.tag = "string"
       /\ in.spec.settings # "malformed"
       /\ in.spec.proxy_settings # "malformed"

(* The answers that say what is wrong.  An address that is none is told as *)
(* an internal error.                                                      *)
Refusals ==
  {Unauthenticated, InvalidArgument, UnprocessableEntity, Internal}
    \cup {PlainError(http) : http \in {400, 404, 405, 413, 415, 422}}

-----------------------------------------------------------------------------

Init ==
  /\ stage = [r \in Request |-> "idle"]
  /\ asked = [r \in Request |-> Nothing]
  /\ answer = [r \in Request |-> Nothing]
  /\ effect = [r \in Request |-> Nothing]
  /\ nodes = [a \in Nodes |-> FreshNode]

Ask(r, q) ==
  /\ stage[r] = "idle"
  /\ stage' = [stage EXCEPT ![r] = "open"]
  /\ asked' = [asked EXCEPT ![r] = Routed(q)]
  /\ UNCHANGED <<answer, effect, nodes>>

Conclude(r, a) ==
  /\ stage[r] = "open"
  /\ stage' = [stage EXCEPT ![r] = "answered"]
  /\ answer' = [answer EXCEPT ![r] = ToClient(asked[r].method, a)]
  /\ UNCHANGED <<asked, effect, nodes>>

(* The answer that needs no node at all.                                   *)
Healthy(r) ==
  /\ stage[r] = "open"
  /\ asked[r].op = "healthz"
  /\ Conclude(r, RouterAnswer.healthz)

TurnDown(r) ==
  /\ stage[r] = "open"
  /\ asked[r].op # "healthz" /\ ~Acceptable(asked[r])
  /\ \E a \in Refusals : Conclude(r, a)

(* The call of r is carried out, whatever has become of r.                 *)
Perform(r) ==
  /\ stage[r] # "idle" /\ Acceptable(asked[r])
  /\ effect[r] = Nothing
  /\ Target(asked[r]) \in Nodes
  /\ \E o \in Exec(nodes[Target(asked[r])], asked[r].token,
                   CallOf(asked[r])) :
       /\ nodes' = [nodes EXCEPT ![Target(asked[r])] = o.node]
       /\ effect' = [effect EXCEPT ![r] = o.reply]
  /\ UNCHANGED <<stage, asked, answer>>

Tell(r) ==
  /\ effect[r] # Nothing
  /\ Conclude(r, Finish(asked[r], effect[r]))

GiveUp(r) ==
  /\ stage[r] = "open" /\ Acceptable(asked[r])
  /\ \E s \in TransportErrors :
       Conclude(r, Finish(asked[r], [status |-> s, payload |-> {}]))

Drop(gone) ==
  /\ gone # {}
  /\ \A r \in gone : stage[r] = "open"
  /\ stage' = [r \in Request |-> IF r \in gone THEN "dropped" ELSE stage[r]]
  /\ UNCHANGED <<asked, answer, effect, nodes>>

(* A node starts again, or carries traffic.                                *)
NodeStep(a) ==
  /\ \E node \in {FreshNode} \cup {Carry(nodes[a], s) : s \in Counted} :
       nodes' = [nodes EXCEPT ![a] = node]
  /\ UNCHANGED <<stage, asked, answer, effect>>

Next ==
  \/ \E r \in Request :
       \/ \E q \in Inputs : Ask(r, q)
       \/ Healthy(r) \/ TurnDown(r)
       \/ Perform(r) \/ Tell(r) \/ GiveUp(r)
  \/ \E gone \in SUBSET Request : Drop(gone)
  \/ \E a \in Nodes : NodeStep(a)

Spec == Init /\ [][Next]_vars
===============================================================================
