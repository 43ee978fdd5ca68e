----------------------------- MODULE BridgeProofs -----------------------------
(***************************************************************************)
(* Theorems about the bridge, for any number of requests, nodes, inputs    *)
(* and channels, any capacity of the cache and any reply a node may give.  *)
(***************************************************************************)
EXTENDS Bridge, XrayClientCacheProofs, HandlersProofs

-----------------------------------------------------------------------------
(* Requests.                                                               *)

(* What a request is, once it is routed.                                   *)
LEMMA InputOK ==
  ASSUME NEW q \in Inputs
  PROVE  LET in == Routed(q) IN
         /\ in.op \in Op \cup DOMAIN RouterAnswer
         /\ in.op \in Op => RequestOK(in)
         /\ in.domain \in Domain \cup {Absent}
         /\ in.token \in Token \cup {Absent}
         /\ in.name \in Name \cup {NoName}
         /\ in.auth # NoAuth =>
              in.auth = [scheme |-> in.auth.scheme, token |-> in.auth.token]
         /\ in.params \in BOOLEAN
<1> DEFINE in == Routed(q)
<1>1. /\ DOMAIN q = RequestFields
      /\ q.domain \in Domain \cup {Absent} /\ q.token \in Token \cup {Absent}
      /\ q.name \in Name \cup {NoName}
      /\ q.auth # NoAuth =>
           q.auth = [scheme |-> q.auth.scheme, token |-> q.auth.token]
      /\ q.params \in BOOLEAN /\ q.flag \in BOOLEAN
      /\ in.op \in Op =>
           /\ IF in.op \in TakesBody
              THEN in.body \in {"ok", "syntax", "data", "media", "large"}
              ELSE in.body = "none"
           /\ {in.tag, in.id} \subseteq Id \cup {NoId}
           /\ in.op \in {"get_balancer", "override_balancer"} => in.tag \in Id
  BY InputsAssumption
<1>2. /\ in.domain = q.domain /\ in.token = q.token /\ in.name = q.name
      /\ in.auth = q.auth /\ in.params = q.params /\ in.flag = q.flag
  BY <1>1, RoutedFields DEF RequestFields
<1>3. in.op \in Op \cup DOMAIN RouterAnswer
  BY <1>1, RoutedOp
<1> HIDE DEF in
<1>4. in.op \in Op => RequestOK(in)
  BY <1>1, <1>2 DEF RequestOK
<1> QED
  BY <1>1, <1>2, <1>3, <1>4 DEF in

-----------------------------------------------------------------------------
(* The inductive invariant.                                                *)

(* The phases of the task of a request.                                    *)
Phase == {"idle", "arrived", "handler", "waiting", "done", "gone"}

(* The types of the variables, and what the cache is made of.              *)
Types ==
  /\ cache \in Seq(Entry) /\ Len(cache) <= MaxEntries
  /\ EntriesServe(cache) /\ EntriesValid(cache)
  /\ phase \in [Request -> Phase]
  /\ input \in [Request -> {Routed(q) : q \in Inputs} \cup {Nothing}]
  /\ held \in [Request -> XrayClient \cup {NoClient}]
  /\ resp = [r \in Request |-> resp[r]]
  /\ sent \in [Request -> XrayClient \cup {NoClient}]
  /\ wire \in [Request -> {"none", "sent", "executed"}]
  /\ back \in [Request -> Reply \cup {Nothing}]
  /\ reply \in [Request -> Reply \cup {Nothing}]
  /\ nodes = [a \in Nodes |-> nodes[a]]
  /\ \A a \in Nodes : NodeOK(nodes[a])
  /\ seen = [r \in Request |-> seen[r]]
  /\ execs \in [Request -> Nat]
  /\ restarts \in 0..MaxRestarts

(* Nothing is wrong with the request but, maybe, its body.                 *)
Admitted(in) ==
  /\ in.op \in Op
  /\ HeaderOK(in) /\ in.domain \notin InvalidDomain
  /\ in.params
  /\ Authorized(in)

(* The client is one for the node and token that in names.                 *)
Served(in, client) ==
  client \in XrayClient /\ client # NoClient /\ Serves(client, KeyOf(in))

(* A reply made up by the client of a broken connection.                   *)
FromTransport(rep) ==
  \E s \in TransportErrors : rep = [status |-> s, payload |-> {}]

(* A task in phase ph, for input in, holding client h, whose call was made *)
(* with client s: both serve what it asks, and nothing is wrong with it.   *)
TaskOK(ph, in, h, s) ==
  /\ ph # "idle" => \E q \in Inputs : in = Routed(q)
  /\ ph \in {"handler", "waiting"} => Served(in, h) /\ Admitted(in)
  /\ ph \in {"idle", "arrived", "handler"} => s = NoClient
  /\ ph = "waiting" => s # NoClient
  /\ s # NoClient => Served(in, s) /\ Admitted(in) /\ BodyOK(in)

(* A call made with client s of which w has become, with the node's reply  *)
(* b and the reply rep at the bridge, after n executions.                  *)
CallMade(s, w, b, rep, n) ==
  /\ w = "none" <=> s = NoClient
  /\ b = Nothing <=> w # "executed"
  /\ n = IF w = "executed" THEN 1 ELSE 0
  /\ rep # Nothing => /\ s # NoClient
                      /\ (w = "executed" /\ rep = b) \/ FromTransport(rep)

(* All of this, of every request.                                          *)
IInv ==
  /\ Types
  /\ \A r \in Request :
       /\ TaskOK(phase[r], input[r], held[r], sent[r])
       /\ CallMade(sent[r], wire[r], back[r], reply[r], execs[r])

(* The bridge starts without requests, clients and calls.                  *)
LEMMA InitInv == Init => IInv
<1> SUFFICES ASSUME Init PROVE IInv
  OBVIOUS
<1>1. /\ cache \in Seq(Entry) /\ Len(cache) <= MaxEntries
      /\ EntriesServe(cache) /\ EntriesValid(cache)
  <2>1. cache = << >> /\ Len(cache) = 0
    BY EmptySeq DEF Init
  <2>2. MaxEntries \in Nat
    BY CacheAssumption
  <2> QED
    BY <2>1, <2>2, EmptySeq DEF EntriesServe, EntriesValid
<1>2. nodes = [a \in Nodes |-> nodes[a]] /\ \A a \in Nodes : NodeOK(nodes[a])
  BY FreshNodeOK DEF Init
<1>3. restarts \in 0..MaxRestarts
  BY BridgeAssumption DEF Init
<1>4. Types
  BY <1>1, <1>2, <1>3 DEF Init, Types, Phase
<1> QED
  BY <1>4 DEF Init, IInv, TaskOK, CallMade

(* A step that leaves everything else about the other requests alone.      *)
Others(r) ==
  \A q \in Request \ {r} :
    /\ phase'[q] = phase[q] /\ input'[q] = input[q] /\ held'[q] = held[q]
    /\ sent'[q] = sent[q] /\ wire'[q] = wire[q] /\ back'[q] = back[q]
    /\ reply'[q] = reply[q] /\ execs'[q] = execs[q]

(* A step of one request preserves IInv if it does so for that request.    *)
LEMMA StepOfOne ==
  ASSUME IInv, NEW r \in Request, Types', Others(r),
         TaskOK(phase'[r], input'[r], held'[r], sent'[r]),
         CallMade(sent'[r], wire'[r], back'[r], reply'[r], execs'[r])
  PROVE  IInv'
BY DEF IInv, Others

(* One lemma per action.                                                   *)
LEMMA ArriveInv ==
  ASSUME IInv, NEW r \in Request, NEW q \in Inputs, Arrive(r, q)
  PROVE  IInv'
<1>1. Types'
  BY DEF IInv, Types, Arrive, calls, world, Phase
<1>2. Others(r)
  BY DEF IInv, Types, Arrive, calls, world, Others
<1>3. TaskOK(phase'[r], input'[r], held'[r], sent'[r])
  BY DEF IInv, Types, Arrive, calls, world, TaskOK
<1>4. CallMade(sent'[r], wire'[r], back'[r], reply'[r], execs'[r])
  BY DEF IInv, Types, Arrive, calls, world
<1> QED
  BY <1>1, <1>2, <1>3, <1>4, StepOfOne

(* A handler that ends keeps all that, whatever it answers.                *)
LEMMA AnswerInv ==
  ASSUME IInv, NEW r \in Request, NEW a, phase[r] # "idle", AnswerWith(r, a),
         UNCHANGED <<input, calls, world>>,
         cache' \in Seq(Entry), Len(cache') <= MaxEntries,
         EntriesServe(cache'), EntriesValid(cache')
  PROVE  IInv'
<1>1. Types'
  BY DEF IInv, Types, AnswerWith, calls, world, Phase
<1>2. Others(r)
  BY DEF IInv, Types, AnswerWith, calls, world, Others
<1>3. TaskOK(phase'[r], input'[r], held'[r], sent'[r])
  BY DEF IInv, Types, AnswerWith, calls, world, TaskOK
<1>4. CallMade(sent'[r], wire'[r], back'[r], reply'[r], execs'[r])
  BY DEF IInv, Types, AnswerWith, calls, world
<1> QED
  BY <1>1, <1>2, <1>3, <1>4, StepOfOne

(* A task knows a request that is routed.                                  *)
LEMMA InputKnown ==
  ASSUME IInv, NEW r \in Request, phase[r] # "idle"
  PROVE  /\ input[r].op \in Op \cup DOMAIN RouterAnswer
         /\ input[r].op \in Op => RequestOK(input[r])
         /\ input[r].domain \in Domain \cup {Absent}
         /\ input[r].token \in Token \cup {Absent}
         /\ input[r].name \in Name \cup {NoName}
         /\ input[r].auth # NoAuth =>
              input[r].auth = [scheme |-> input[r].auth.scheme,
                               token |-> input[r].auth.token]
         /\ input[r].params \in BOOLEAN
<1>1. PICK q \in Inputs : input[r] = Routed(q)
  BY DEF IInv, TaskOK
<1> QED
  BY <1>1, InputOK

(* What NodeContext makes of headers that are there.                       *)
LEMMA LookupOfRequest ==
  ASSUME IInv, NEW r \in Request, phase[r] # "idle", HeaderOK(input[r]),
         NEW o \in GetOrCreate(cache, Live, KeyOf(input[r]), input[r].name)
  PROVE  /\ o.cache \in Seq(Entry) /\ Len(o.cache) <= MaxEntries
         /\ EntriesServe(o.cache) /\ EntriesValid(o.cache)
         /\ o.client = NoClient => input[r].domain \in InvalidDomain
         /\ o.client # NoClient => /\ Served(input[r], o.client)
                                   /\ input[r].domain \notin InvalidDomain
<1> DEFINE in == input[r]
           key == KeyOf(in)
<1>1. key \in Key /\ key.domain = in.domain
  <2>1. in.domain \in Domain /\ in.token \in Token
    BY InputKnown DEF HeaderOK
  <2> QED
    BY <2>1, KeyOfType DEF KeyOf
<1>2. in.name \in Name \cup {NoName}
  BY InputKnown
<1>3. Len(cache) <= MaxEntries /\ cache \in Seq(Entry) /\ EntriesServe(cache)
      /\ EntriesValid(cache)
  BY DEF IInv, Types
<1> HIDE DEF in, key
<1>4. o \in GetOrCreate(cache, Live, key, in.name)
  BY DEF key, in
<1>5. /\ o.cache \in Seq(Entry) /\ Len(o.cache) <= MaxEntries
      /\ EntriesServe(o.cache) /\ EntriesValid(o.cache)
      /\ o.client = NoClient => key.domain \in InvalidDomain
      /\ o.client # NoClient => /\ o.client \in XrayClient
                                /\ Serves(o.client, key)
                                /\ key.domain \notin InvalidDomain
  BY <1>1, <1>2, <1>3, <1>4, LookupServes
<1>6. o.client # NoClient => Served(in, o.client)
  BY <1>5 DEF Served, key
<1> QED
  BY <1>1, <1>5, <1>6 DEF in

(* The extractors leave the client that serves the request, or an answer.  *)
LEMMA ExtractInv ==
  ASSUME IInv, NEW r \in Request, Extract(r)
  PROVE  IInv'
<1>1. phase[r] = "arrived" /\ UNCHANGED <<input, calls, world>>
  BY DEF Extract
<1>2. /\ cache \in Seq(Entry) /\ Len(cache) <= MaxEntries
      /\ EntriesServe(cache) /\ EntriesValid(cache)
  BY DEF IInv, Types
<1>3. CASE AnswerUnrouted(r)
  BY <1>1, <1>2, <1>3, AnswerInv DEF AnswerUnrouted
<1>4. CASE MissingHeader(r)
  BY <1>1, <1>2, <1>4, AnswerInv DEF MissingHeader
<1>5. CASE FromRequestParts(r)
  <2> DEFINE in == input[r]
  <2>1. in.op \in Op /\ HeaderOK(in)
    BY <1>5 DEF FromRequestParts
  <2>2. PICK o \in GetOrCreate(cache, Live, KeyOf(in), in.name) :
          /\ cache' = o.cache
          /\ CASE o.client = NoClient -> AnswerWith(r, Internal)
               [] o.client # NoClient /\ ~in.params ->
                    AnswerWith(r, PlainError(400))
               [] o.client # NoClient /\ in.params /\ ~Authorized(in) ->
                    AnswerWith(r, Unauthenticated)
               [] OTHER -> /\ phase' = [phase EXCEPT ![r] = "handler"]
                           /\ held' = [held EXCEPT ![r] = o.client]
                           /\ UNCHANGED resp
    BY <1>5 DEF FromRequestParts
  <2>3. /\ o.cache \in Seq(Entry) /\ Len(o.cache) <= MaxEntries
        /\ EntriesServe(o.cache) /\ EntriesValid(o.cache)
        /\ o.client # NoClient => /\ Served(in, o.client)
                                  /\ in.domain \notin InvalidDomain
    BY <1>1, <2>1, LookupOfRequest
  <2>4. \/ \E a : AnswerWith(r, a)
        \/ /\ o.client # NoClient /\ in.params /\ Authorized(in)
           /\ phase' = [phase EXCEPT ![r] = "handler"]
           /\ held' = [held EXCEPT ![r] = o.client]
           /\ UNCHANGED resp
    BY <1>1, <2>1, <2>2, InputKnown
  <2>5. ASSUME NEW a, AnswerWith(r, a) PROVE IInv'
    BY <1>1, <2>2, <2>3, <2>5, AnswerInv
  <2>6. ASSUME o.client # NoClient, in.params, Authorized(in),
               phase' = [phase EXCEPT ![r] = "handler"],
               held' = [held EXCEPT ![r] = o.client], UNCHANGED resp
        PROVE  IInv'
    <3>1. Served(in, o.client) /\ Admitted(in)
      BY <2>1, <2>3, <2>6 DEF Admitted
    <3>2. Types'
      <4>1. o.client \in XrayClient
        BY <3>1 DEF Served
      <4> QED
        BY <1>1, <2>2, <2>3, <2>6, <4>1 DEF IInv, Types, calls, world, Phase
    <3>3. Others(r)
      BY <1>1, <2>6 DEF IInv, Types, calls, world, Others
    <3>4. TaskOK(phase'[r], input'[r], held'[r], sent'[r])
      BY <1>1, <2>6, <3>1 DEF IInv, Types, calls, TaskOK
    <3>5. CallMade(sent'[r], wire'[r], back'[r], reply'[r], execs'[r])
      BY <1>1 DEF IInv, calls, world
    <3> QED
      BY <3>2, <3>3, <3>4, <3>5, StepOfOne
  <2> QED
    BY <2>4, <2>5, <2>6
<1> QED
  BY <1>3, <1>4, <1>5 DEF Extract

(* The handler calls only if nothing is wrong with the body.               *)
LEMMA RunHandlerInv ==
  ASSUME IInv, NEW r \in Request, RunHandler(r)
  PROVE  IInv'
<1>1. /\ phase[r] = "handler" /\ UNCHANGED <<cache, input, back, reply, world>>
      /\ \/ Reject(r) /\ UNCHANGED <<sent, wire>>
         \/ /\ Rejections(input[r]) = {}
            /\ phase' = [phase EXCEPT ![r] = "waiting"]
            /\ Send(r)
            /\ UNCHANGED <<held, resp>>
  BY DEF RunHandler
<1>2. ASSUME Reject(r), UNCHANGED <<sent, wire>>
      PROVE  IInv'
  <2>1. PICK a \in Rejections(input[r]) : AnswerWith(r, a)
    BY <1>2 DEF Reject
  <2>2. UNCHANGED <<input, calls, world>>
    BY <1>1, <1>2 DEF calls
  <2>3. /\ cache' \in Seq(Entry) /\ Len(cache') <= MaxEntries
        /\ EntriesServe(cache') /\ EntriesValid(cache')
    BY <1>1 DEF IInv, Types
  <2> QED
    BY <1>1, <2>1, <2>2, <2>3, AnswerInv
<1>3. ASSUME Rejections(input[r]) = {},
             phase' = [phase EXCEPT ![r] = "waiting"], Send(r),
             UNCHANGED <<held, resp>>
      PROVE  IInv'
  <2>1. Served(input[r], held[r]) /\ Admitted(input[r])
    BY <1>1 DEF IInv, TaskOK
  <2>2. BodyOK(input[r])
    <3>1. RequestOK(input[r])
      BY <1>1, <2>1, InputKnown DEF Admitted
    <3> QED
      BY <1>3, <3>1, RejectionsMean DEF RequestOK
  <2>3. Types'
    BY <1>1, <1>3 DEF IInv, Types, Send, world, Phase
  <2>4. Others(r)
    BY <1>1, <1>3 DEF IInv, Types, Send, world, Others
  <2>5. TaskOK(phase'[r], input'[r], held'[r], sent'[r])
    BY <1>1, <1>3, <2>1, <2>2 DEF IInv, Types, Send, TaskOK, Served
  <2>6. CallMade(sent'[r], wire'[r], back'[r], reply'[r], execs'[r])
    <3>1. sent[r] = NoClient /\ held[r] # NoClient
      BY <1>1, <2>1 DEF IInv, TaskOK, Served
    <3>2. CallMade(sent[r], wire[r], back[r], reply[r], execs[r])
      BY DEF IInv
    <3>3. sent'[r] = held[r] /\ wire'[r] = "sent"
      BY <1>3 DEF IInv, Types, Send
    <3> QED
      BY <1>1, <3>1, <3>2, <3>3 DEF CallMade, world
  <2> QED
    BY <2>3, <2>4, <2>5, <2>6, StepOfOne
<1> QED
  BY <1>1, <1>2, <1>3

(* The client of a call is built for the address the request names and     *)
(* carries its token; the call is one a node understands.                  *)
LEMMA CallOfTask ==
  ASSUME IInv, NEW r \in Request, wire[r] # "none"
  PROVE  /\ sent[r] # NoClient
         /\ AddressOf(sent[r]) = Target(input[r])
         /\ sent[r].token = input[r].token
         /\ RequestOK(input[r]) /\ Admitted(input[r]) /\ BodyOK(input[r])
         /\ CallOK(CallOf(input[r]))
         /\ phase[r] \in {"waiting", "done", "gone"}
<1>1. sent[r] # NoClient
  BY DEF IInv, CallMade
<1>2. /\ Served(input[r], sent[r]) /\ Admitted(input[r]) /\ BodyOK(input[r])
      /\ phase[r] \in {"waiting", "done", "gone"}
  BY <1>1 DEF IInv, TaskOK, Types, Phase
<1>3. RequestOK(input[r])
  BY <1>2, InputKnown DEF Admitted
<1>4. AddressOf(sent[r]) = Target(input[r]) /\ sent[r].token = input[r].token
  BY <1>2 DEF Served, Serves, AddressOf, Target, KeyOf
<1> QED
  BY <1>1, <1>2, <1>3, <1>4, CallOfOK

(* A call is executed while it is on the wire, hence once.                 *)
LEMMA ExecuteInv ==
  ASSUME IInv, NEW r \in Request, Execute(r)
  PROVE  IInv'
<1> DEFINE at == AddressOf(sent[r])
<1>1. /\ wire[r] = "sent" /\ at \in Nodes
      /\ wire' = [wire EXCEPT ![r] = "executed"]
      /\ execs' = [execs EXCEPT ![r] = execs[r] + 1]
      /\ seen' = [seen EXCEPT ![r] = seen'[r]]
      /\ UNCHANGED <<cache, tasks, sent, reply, traffic, restarts>>
  BY DEF Execute, IInv, Types
<1>2. PICK o \in Exec(nodes[at], sent[r].token, CallOf(input[r])) :
        /\ nodes' = [nodes EXCEPT ![at] = o.node]
        /\ back' = [back EXCEPT ![r] = o.reply]
  BY DEF Execute
<1>3. NodeOK(o.node) /\ o.reply \in Reply
  <2>1. CallOK(CallOf(input[r]))
    BY <1>1, CallOfTask
  <2>2. NodeOK(nodes[at])
    BY <1>1 DEF IInv, Types
  <2> HIDE DEF at
  <2> QED
    BY <1>2, <2>1, <2>2, ExecOK DEF OutcomeOK
<1>4. Types'
  <2>1. nodes' = [a \in Nodes |-> nodes'[a]] /\ \A a \in Nodes : NodeOK(nodes'[a])
    BY <1>1, <1>2, <1>3 DEF IInv, Types
  <2>2. back' \in [Request -> Reply \cup {Nothing}]
    BY <1>2, <1>3 DEF IInv, Types
  <2>3. /\ wire' \in [Request -> {"none", "sent", "executed"}]
        /\ execs' \in [Request -> Nat]
    BY <1>1 DEF IInv, Types
  <2>4. seen' = [q \in Request |-> seen'[q]]
    BY <1>1 DEF IInv, Types
  <2> QED
    BY <1>1, <2>1, <2>2, <2>3, <2>4 DEF IInv, Types, tasks
<1> HIDE DEF at
<1>5. Others(r)
  BY <1>1, <1>2 DEF IInv, Types, tasks, Others
<1>6. TaskOK(phase'[r], input'[r], held'[r], sent'[r])
  BY <1>1 DEF IInv, tasks
<1>7. CallMade(sent'[r], wire'[r], back'[r], reply'[r], execs'[r])
  <2>1. CallMade(sent[r], wire[r], back[r], reply[r], execs[r])
    BY DEF IInv
  <2>2. /\ wire'[r] = "executed" /\ back'[r] = o.reply
        /\ execs'[r] = execs[r] + 1 /\ sent'[r] = sent[r] /\ reply'[r] = reply[r]
    BY <1>1, <1>2 DEF IInv, Types
  <2>3. o.reply # Nothing
    BY <1>3, BridgeAssumption
  <2> QED
    BY <1>1, <2>1, <2>2, <2>3 DEF CallMade
<1> QED
  BY <1>4, <1>5, <1>6, <1>7, StepOfOne

(* A call ends for the bridge, one way or the other.                       *)
LEMMA ReplyInv ==
  ASSUME IInv, NEW r \in Request, phase[r] = "waiting",
         NEW rep \in Reply,
         (wire[r] = "executed" /\ rep = back[r]) \/ FromTransport(rep),
         reply' = [reply EXCEPT ![r] = rep],
         UNCHANGED <<cache, tasks, sent, wire, back, world>>
  PROVE  IInv'
<1>1. Types'
  BY DEF IInv, Types, tasks, world
<1>2. Others(r)
  BY DEF IInv, Types, tasks, world, Others
<1>3. TaskOK(phase'[r], input'[r], held'[r], sent'[r])
  BY DEF IInv, tasks
<1>4. CallMade(sent'[r], wire'[r], back'[r], reply'[r], execs'[r])
  <2>1. CallMade(sent[r], wire[r], back[r], reply[r], execs[r])
    BY DEF IInv
  <2>2. sent[r] # NoClient
    BY DEF IInv, TaskOK
  <2>3. reply'[r] = rep
    BY DEF IInv, Types
  <2> QED
    BY <2>1, <2>2, <2>3 DEF CallMade, world
<1> QED
  BY <1>1, <1>2, <1>3, <1>4, StepOfOne

(* The reply of an executed call.                                          *)
LEMMA ReplyArrivesInv ==
  ASSUME IInv, NEW r \in Request, ReplyArrives(r)
  PROVE  IInv'
<1>1. back[r] \in Reply
  <2>1. back[r] \in Reply \cup {Nothing}
    BY DEF IInv, Types
  <2>2. CallMade(sent[r], wire[r], back[r], reply[r], execs[r])
    BY DEF IInv
  <2> QED
    BY <2>1, <2>2 DEF CallMade, ReplyArrives
<1> QED
  BY <1>1, ReplyInv DEF ReplyArrives

(* The reply of a call whose connection broke, executed or not.            *)
LEMMA TransportFailsInv ==
  ASSUME IInv, NEW r \in Request, TransportFails(r)
  PROVE  IInv'
<1>1. PICK s \in TransportErrors :
        reply' = [reply EXCEPT ![r] = [status |-> s, payload |-> {}]]
  BY DEF TransportFails
<1> DEFINE rep == [status |-> s, payload |-> {}]
<1>2. rep \in Reply
  <2>1. s \in Status
    BY TransportAssumption DEF TellsNeither
  <2> QED
    BY <2>1 DEF Reply
<1>3. FromTransport(rep)
  BY DEF FromTransport
<1> QED
  BY <1>1, <1>2, <1>3, ReplyInv DEF TransportFails

(* The answer takes the task to its end.                                   *)
LEMMA ResumeInv ==
  ASSUME IInv, NEW r \in Request, Resume(r)
  PROVE  IInv'
<1>1. /\ cache' \in Seq(Entry) /\ Len(cache') <= MaxEntries
      /\ EntriesServe(cache') /\ EntriesValid(cache')
  BY DEF Resume, IInv, Types
<1> QED
  BY <1>1, AnswerInv DEF Resume

(* A client that goes away takes the task with it.                         *)
LEMMA DisconnectInv ==
  ASSUME IInv, NEW r \in Request, Disconnect(r)
  PROVE  IInv'
<1>1. Types'
  BY DEF IInv, Types, Disconnect, calls, world, Phase
<1>2. Others(r)
  BY DEF IInv, Types, Disconnect, calls, world, Others
<1>3. TaskOK(phase'[r], input'[r], held'[r], sent'[r])
  BY DEF IInv, Types, Disconnect, calls, Running, TaskOK
<1>4. CallMade(sent'[r], wire'[r], back'[r], reply'[r], execs'[r])
  BY DEF IInv, Disconnect, calls, world
<1> QED
  BY <1>1, <1>2, <1>3, <1>4, StepOfOne

(* All tasks are dropped at once.                                          *)
LEMMA RestartBridgeInv ==
  ASSUME IInv, RestartBridge
  PROVE  IInv'
<1>1. /\ cache' \in Seq(Entry) /\ Len(cache') <= MaxEntries
      /\ EntriesServe(cache') /\ EntriesValid(cache')
  <2>1. cache' = << >> /\ Len(cache') = 0
    BY EmptySeq DEF RestartBridge
  <2>2. MaxEntries \in Nat
    BY CacheAssumption
  <2> QED
    BY <2>1, <2>2, EmptySeq DEF EntriesServe, EntriesValid
<1>2. phase' \in [Request -> Phase] /\ held' \in [Request -> XrayClient \cup {NoClient}]
  BY DEF IInv, Types, RestartBridge, Phase
<1>3. Types'
  BY <1>1, <1>2 DEF IInv, Types, RestartBridge, calls, world
<1>4. ASSUME NEW r \in Request
      PROVE  /\ TaskOK(phase'[r], input'[r], held'[r], sent'[r])
             /\ CallMade(sent'[r], wire'[r], back'[r], reply'[r], execs'[r])
  <2>1. TaskOK(phase[r], input[r], held[r], sent[r])
    BY DEF IInv
  <2>2. CallMade(sent[r], wire[r], back[r], reply[r], execs[r])
    BY DEF IInv
  <2>3. /\ phase'[r] = IF phase[r] \in Running THEN "gone" ELSE phase[r]
        /\ UNCHANGED <<input, sent, wire, back, reply, execs>>
    BY DEF RestartBridge, calls, world
  <2> QED
    BY <2>1, <2>2, <2>3 DEF TaskOK, Running
<1> QED
  BY <1>3, <1>4 DEF IInv

(* What the nodes do by themselves is nothing to the bridge.               *)
LEMMA WorldInv ==
  ASSUME IInv, UNCHANGED <<cache, tasks, calls, seen, execs>>,
         nodes' = [a \in Nodes |-> nodes'[a]],
         \A a \in Nodes : NodeOK(nodes'[a]), restarts' \in 0..MaxRestarts
  PROVE  IInv'
<1>1. Types'
  BY DEF IInv, Types, tasks, calls
<1> QED
  BY <1>1 DEF IInv, tasks, calls

(* Nodes restart and carry traffic, whatever the requests do.              *)
LEMMA NodeStepInv ==
  ASSUME IInv, NEW a \in Nodes, NodeStep(a)
  PROVE  IInv'
<1>1. /\ nodes = [b \in Nodes |-> nodes[b]] /\ \A b \in Nodes : NodeOK(nodes[b])
      /\ restarts \in 0..MaxRestarts
  BY DEF IInv, Types
<1>2. CASE Restart(a)
  <2>1. nodes' = [nodes EXCEPT ![a] = FreshNode] /\ restarts' = restarts + 1
        /\ restarts < MaxRestarts
    BY <1>2 DEF Restart
  <2>2. restarts' \in 0..MaxRestarts
    BY <1>1, <2>1, BridgeAssumption
  <2>3. /\ nodes' = [b \in Nodes |-> nodes'[b]]
        /\ \A b \in Nodes : NodeOK(nodes'[b])
    BY <1>1, <2>1, FreshNodeOK
  <2> QED
    BY <1>2, <2>2, <2>3, WorldInv DEF Restart
<1>3. ASSUME NEW s \in Counted, Traffic(a, s)
      PROVE  IInv'
  <2>1. nodes' = [nodes EXCEPT ![a] = Carry(nodes[a], s)] /\ restarts' = restarts
    BY <1>3 DEF Traffic
  <2>2. NodeOK(Carry(nodes[a], s))
    <3>1. s \in Listed
      BY BridgeAssumption DEF Listed
    <3> QED
      BY <1>1, <3>1, CarryOK
  <2>3. /\ nodes' = [b \in Nodes |-> nodes'[b]]
        /\ \A b \in Nodes : NodeOK(nodes'[b])
    BY <1>1, <2>1, <2>2
  <2> QED
    BY <1>1, <1>3, <2>1, <2>3, WorldInv DEF Traffic
<1> QED
  BY <1>2, <1>3 DEF NodeStep

(* IInv is inductive.                                                      *)
LEMMA NextInv == IInv /\ [Next]_vars => IInv'
<1> SUFFICES ASSUME IInv, [Next]_vars PROVE IInv'
  OBVIOUS
<1>1. ASSUME NEW r \in Request,
             BridgeStep(r) \/ ClientStep(r) \/ NetworkStep(r)
      PROVE  IInv'
  <2>1. CASE BridgeStep(r)
    BY <2>1, ExtractInv, RunHandlerInv, ResumeInv DEF BridgeStep
  <2>2. CASE ClientStep(r)
    BY <2>2, ArriveInv, DisconnectInv DEF ClientStep
  <2>3. CASE NetworkStep(r)
    BY <2>3, ExecuteInv, ReplyArrivesInv, TransportFailsInv DEF NetworkStep
  <2> QED
    BY <1>1, <2>1, <2>2, <2>3
<1>2. CASE UNCHANGED vars
  BY <1>2, WorldInv DEF vars, world, IInv, Types
<1> QED
  BY <1>1, <1>2, RestartBridgeInv, NodeStepInv DEF Next

(* The inductive invariant: whatever the requests did to the shared cache  *)
(* in between, a handler holds a client for the very address and token its *)
(* request names, and calls are made only for requests that passed every   *)
(* check (nodes.rs:50-168, routes/handler.rs:167-334).                     *)
THEOREM Invariant == Spec => []IInv
<1>1. Init => IInv
  BY InitInv
<1>2. IInv /\ [Next]_vars => IInv'
  BY NextInv
<1> QED
  BY <1>1, <1>2, PTL DEF Spec

-----------------------------------------------------------------------------
(* Types, and calls.                                                       *)

(* The state of the bridge and its surroundings has its type: the cache is *)
(* within its capacity, requests have a handler or none, what a node       *)
(* replies is a status of gRPC.                                            *)
THEOREM TypeCorrect == Spec => []TypeOK
<1>1. IInv => TypeOK
  <2> SUFFICES ASSUME IInv PROVE TypeOK
    OBVIOUS
  <2>1. ASSUME NEW r \in Request, input[r] # Nothing
        PROVE  input[r].op \in Op \cup DOMAIN RouterAnswer
    <3>1. PICK q \in Inputs : input[r] = Routed(q)
      BY <2>1 DEF IInv, Types
    <3> QED
      BY <3>1, InputOK
  <2>2. ASSUME NEW r \in Request, reply[r] # Nothing
        PROVE  reply[r].status \in Status
    BY <2>2 DEF IInv, Types, Reply
  <2> QED
    BY <2>1, <2>2 DEF IInv, Types, TypeOK, Phase
<1> QED
  BY <1>1, Invariant, PTL

(* No call is executed twice, for any number of requests, restarts and     *)
(* broken connections: nothing in the bridge makes a call again.           *)
THEOREM NothingRepeated == Spec => []AtMostOnce
<1>1. IInv => AtMostOnce
  BY DEF IInv, CallMade, AtMostOnce
<1> QED
  BY <1>1, Invariant, PTL

-----------------------------------------------------------------------------
(* The shared channels.                                                    *)

(* The clients that handlers hold.                                         *)
Lent == {held[q] : q \in {r \in Request : held[r] # NoClient}}

(* Only handlers hold clients, and there is one client to a channel, among *)
(* all that are held and all that are cached.                              *)
ChannelInv ==
  /\ \A r \in Request : held[r] # NoClient => phase[r] \in {"handler", "waiting"}
  /\ EntriesOK(cache)
  /\ OneToAChannel(cache, Lent)

(* Nothing is cached or held at the start.                                 *)
LEMMA NothingLent ==
  ASSUME cache = << >>, \A r \in Request : held[r] = NoClient
  PROVE  ChannelInv
<1>1. Lent = {} /\ \A i \in 1..Len(cache) : FALSE
  BY EmptySeq DEF Lent
<1> QED
  BY <1>1 DEF ChannelInv, EntriesOK, EntriesServe, KeysDistinct,
              ChansDistinct, OneToAChannel

(* A step of r after which it holds nothing, or what it held before.       *)
LetsGo(r) ==
  /\ \A q \in Request \ {r} : held'[q] = held[q] /\ phase'[q] = phase[q]
  /\ \/ held'[r] = NoClient
     \/ held'[r] = held[r] /\ phase'[r] \in {"handler", "waiting"}

(* Whoever lets its client go, or keeps it, shares it with nobody new.     *)
LEMMA LettingGo ==
  ASSUME ChannelInv, NEW r \in Request, LetsGo(r), UNCHANGED cache
  PROVE  ChannelInv'
<1>1. Lent' \subseteq Lent
  BY DEF Lent, LetsGo
<1>2. OneToAChannel(cache', Lent')
  BY <1>1 DEF ChannelInv, OneToAChannel
<1> QED
  BY <1>2 DEF ChannelInv, LetsGo

(* An answer ends what a handler holds.                                    *)
LEMMA AnswerLetsGo ==
  ASSUME IInv, NEW r \in Request, NEW a, AnswerWith(r, a)
  PROVE  LetsGo(r) /\ held'[r] = NoClient
BY DEF IInv, Types, AnswerWith, LetsGo

(* The lookup: the client it lends is the one on its channel, and a later  *)
(* extractor that rejects the request lets it go.                          *)
LEMMA ExtractKeepsChannels ==
  ASSUME IInv, ChannelInv, NEW r \in Request, Extract(r)
  PROVE  ChannelInv'
<1>1. phase[r] = "arrived" /\ UNCHANGED <<input, calls, world>>
  BY DEF Extract
<1>2. CASE AnswerUnrouted(r)
  BY <1>2, AnswerLetsGo, LettingGo DEF AnswerUnrouted
<1>3. CASE MissingHeader(r)
  BY <1>3, AnswerLetsGo, LettingGo DEF MissingHeader
<1>4. CASE FromRequestParts(r)
  <2> DEFINE in == input[r]
             key == KeyOf(in)
  <2>1. in.op \in Op /\ HeaderOK(in)
    BY <1>4 DEF FromRequestParts
  <2>2. PICK o \in GetOrCreate(cache, Live, KeyOf(in), in.name) :
          /\ cache' = o.cache
          /\ CASE o.client = NoClient -> AnswerWith(r, Internal)
               [] o.client # NoClient /\ ~in.params ->
                    AnswerWith(r, PlainError(400))
               [] o.client # NoClient /\ in.params /\ ~Authorized(in) ->
                    AnswerWith(r, Unauthenticated)
               [] OTHER -> /\ phase' = [phase EXCEPT ![r] = "handler"]
                           /\ held' = [held EXCEPT ![r] = o.client]
                           /\ UNCHANGED resp
    BY <1>4 DEF FromRequestParts
  <2>3. key \in Key /\ in.name \in Name \cup {NoName}
    <3>1. in.domain \in Domain /\ in.token \in Token
      BY <1>1, <2>1, InputKnown DEF HeaderOK
    <3> QED
      BY <1>1, <3>1, InputKnown, KeyOfType DEF KeyOf
  <2>4. cache \in Seq(Entry) /\ EntriesOK(cache) /\ OneToAChannel(cache, Lent)
    BY DEF IInv, Types, ChannelInv
  <2>5. CASE o.client = NoClient
    <3>1. AnswerWith(r, Internal)
      BY <2>2, <2>5
    <3>2. o.cache = cache
      <4> HIDE DEF key
      <4>1. o \in GetOrCreate(cache, Live, key, in.name)
        BY DEF key
      <4> QED
        BY <2>3, <2>4, <2>5, <4>1, NoClientIsFailure DEF IsFailure
    <3> QED
      BY <2>2, <3>1, <3>2, AnswerLetsGo, LettingGo
  <2>6. CASE o.client # NoClient
    <3>1. EntriesOK(o.cache) /\ OneToAChannel(o.cache, Lent \cup {o.client})
      <4>1. ChansOf(cache) \subseteq Live /\ \A c \in Lent : c.chan \in Live
        BY DEF Live, Lent
      <4> HIDE DEF key, in
      <4>2. o \in GetOrCreate(cache, Live, key, in.name)
        BY DEF key
      <4> QED
        BY <2>3, <2>4, <2>6, <4>1, <4>2, LookupGrants
    <3>2. /\ \A q \in Request \ {r} : held'[q] = held[q] /\ phase'[q] = phase[q]
          /\ \/ held'[r] = NoClient
             \/ held'[r] = o.client /\ phase'[r] = "handler"
      <4>1. \/ \E a : AnswerWith(r, a)
            \/ /\ phase' = [phase EXCEPT ![r] = "handler"]
               /\ held' = [held EXCEPT ![r] = o.client]
        BY <1>1, <2>1, <2>2, <2>6, InputKnown
      <4> QED
        BY <4>1 DEF IInv, Types, AnswerWith
    <3>3. Lent' \subseteq Lent \cup {o.client}
      BY <3>2 DEF Lent
    <3>4. EntriesOK(cache') /\ OneToAChannel(cache', Lent')
      BY <2>2, <3>1, <3>3 DEF OneToAChannel
    <3> QED
      BY <3>2, <3>4 DEF ChannelInv
  <2> QED
    BY <2>5, <2>6
<1> QED
  BY <1>2, <1>3, <1>4 DEF Extract

(* All other steps leave clients where they are, or let them go: the call  *)
(* is made on the client the handler holds and keeps.                      *)
LEMMA OthersKeepChannels ==
  ASSUME IInv, ChannelInv, NEW r \in Request,
         \/ RunHandler(r) \/ Resume(r) \/ Disconnect(r) \/ NetworkStep(r)
         \/ \E q \in Inputs : Arrive(r, q)
  PROVE  ChannelInv'
<1>1. UNCHANGED cache
  BY DEF RunHandler, Resume, Disconnect, NetworkStep, Execute, ReplyArrives,
         TransportFails, Arrive
<1>2. CASE RunHandler(r)
  <2>1. CASE Reject(r)
    BY <1>1, <2>1, AnswerLetsGo, LettingGo DEF Reject
  <2>2. CASE /\ phase' = [phase EXCEPT ![r] = "waiting"]
             /\ UNCHANGED <<held, resp>>
    <3>1. LetsGo(r)
      BY <2>2 DEF IInv, Types, LetsGo
    <3> QED
      BY <1>1, <3>1, LettingGo
  <2> QED
    BY <1>2, <2>1, <2>2 DEF RunHandler
<1>3. CASE Resume(r)
  BY <1>1, <1>3, AnswerLetsGo, LettingGo DEF Resume
<1>4. CASE Disconnect(r)
  <2>1. LetsGo(r)
    BY <1>4 DEF Disconnect, IInv, Types, LetsGo
  <2> QED
    BY <1>1, <2>1, LettingGo
<1>5. CASE NetworkStep(r)
  <2>1. UNCHANGED <<phase, held>>
    BY <1>5 DEF NetworkStep, Execute, ReplyArrives, TransportFails, tasks
  <2> QED
    BY <1>1, <2>1 DEF ChannelInv, Lent
<1>6. ASSUME NEW q \in Inputs, Arrive(r, q)
      PROVE  ChannelInv'
  <2>1. held[r] = NoClient
    BY <1>6 DEF Arrive, ChannelInv
  <2>2. LetsGo(r)
    BY <1>6, <2>1 DEF Arrive, IInv, Types, LetsGo
  <2> QED
    BY <1>1, <2>2, LettingGo
<1> QED
  BY <1>2, <1>3, <1>4, <1>5, <1>6

(* ChannelInv is inductive, given IInv.                                    *)
LEMMA NextKeepsChannels ==
  IInv /\ ChannelInv /\ [Next]_vars => ChannelInv'
<1> SUFFICES ASSUME IInv, ChannelInv, [Next]_vars PROVE ChannelInv'
  OBVIOUS
<1>1. ASSUME NEW r \in Request,
             BridgeStep(r) \/ ClientStep(r) \/ NetworkStep(r)
      PROVE  ChannelInv'
  BY <1>1, ExtractKeepsChannels, OthersKeepChannels
     DEF BridgeStep, ClientStep
<1>2. CASE RestartBridge
  <2>1. cache' = << >> /\ \A r \in Request : held'[r] = NoClient
    BY <1>2 DEF RestartBridge
  <2>2. Lent' = {} /\ \A i \in 1..Len(cache') : FALSE
    BY <2>1, EmptySeq DEF Lent
  <2> QED
    BY <2>1, <2>2 DEF ChannelInv, EntriesOK, EntriesServe, KeysDistinct,
                      ChansDistinct, OneToAChannel
<1>3. CASE UNCHANGED <<cache, tasks>>
  BY <1>3 DEF ChannelInv, Lent, tasks
<1>4. ASSUME NEW a \in Nodes, NodeStep(a)
      PROVE  UNCHANGED <<cache, tasks>>
  BY <1>4 DEF NodeStep, Restart, Traffic
<1>5. CASE UNCHANGED vars
  BY <1>3, <1>5 DEF vars
<1> QED
  BY <1>1, <1>2, <1>3, <1>4, <1>5 DEF Next

(* No channel, cached or in use, ever leads to two domains, ports or       *)
(* tokens, for any number of requests and any capacity: though the bridge  *)
(* lends channels to handlers that are suspended on them while the cache   *)
(* displaces them, makes them anew, or is lost in a restart                *)
(* (nodes.rs:31-34, 50-95).                                                *)
THEOREM ChannelsAlwaysApart == Spec => []ChannelsKeptApart
<1>1. Init => ChannelInv
  BY NothingLent DEF Init
<1>2. IInv /\ ChannelInv /\ [Next]_vars => ChannelInv'
  BY NextKeepsChannels
<1>3. IInv /\ ChannelInv => ChannelsKeptApart
  <2> SUFFICES ASSUME IInv, ChannelInv, NEW r \in Request, held[r] # NoClient
               PROVE  /\ \A q \in Request :
                           held[q] # NoClient /\ held[q].chan = held[r].chan =>
                             KeyOf(input[q]) = KeyOf(input[r])
                      /\ \A i \in DOMAIN cache :
                           cache[i].client.chan = held[r].chan =>
                             cache[i].key = KeyOf(input[r])
    BY DEF ChannelsKeptApart
  <2>1. \A q \in Request : held[q] # NoClient => Serves(held[q], KeyOf(input[q]))
    BY DEF ChannelInv, IInv, TaskOK, Served
  <2>2. ASSUME NEW q \in Request, held[q] # NoClient, held[q].chan = held[r].chan
        PROVE  KeyOf(input[q]) = KeyOf(input[r])
    <3>1. held[q] = held[r]
      BY <2>2 DEF ChannelInv, OneToAChannel, Lent
    <3> QED
      BY <2>1, <2>2, <3>1 DEF Serves, KeyOf
  <2>3. ASSUME NEW i \in DOMAIN cache, cache[i].client.chan = held[r].chan
        PROVE  cache[i].key = KeyOf(input[r])
    <3>1. i \in 1..Len(cache) /\ cache[i] \in Entry
      BY LenProperties, ElementOfSeq DEF IInv, Types
    <3>2. cache[i].client = held[r]
      BY <2>3, <3>1 DEF ChannelInv, OneToAChannel, Lent
    <3>3. Serves(held[r], cache[i].key) /\ cache[i].key \in Key
      BY <3>1, <3>2 DEF IInv, Types, EntriesServe, Entry
    <3> QED
      BY <2>1, <3>3 DEF Serves, KeyOf, Key
  <2> QED
    BY <2>2, <2>3
<1> QED
  BY <1>1, <1>2, <1>3, Invariant, PTL DEF Spec

-----------------------------------------------------------------------------
(* The bridge implements the service.  Service is an instance of a module  *)
(* that says in the words of Handlers, too, what nodes and handlers do:    *)
(* what these words mean there is what they mean here.                     *)

(* The two instances of the status mapping agree.                          *)
LEMMA SameStatuses ==
  /\ Service!Missing = Missing /\ Service!Exists = Exists
  /\ Service!StatusOK = StatusOK
  /\ \A s : Service!IsNotFound(s) = IsNotFound(s)
  /\ \A s : Service!GrpcCodeToHttp(s) = GrpcCodeToHttp(s)
<1>1. Service!Missing = Missing /\ Service!Exists = Exists
  BY Zenon DEF Service!Missing, Missing, Service!Exists, Exists
<1>2. Service!StatusOK = StatusOK
  BY DEF Service!StatusOK, StatusOK
<1>3. ASSUME NEW s
      PROVE  Service!IsNotFound(s) = IsNotFound(s)
  BY Zenon DEF Service!IsNotFound, IsNotFound
<1>4. ASSUME NEW s
      PROVE  Service!GrpcCodeToHttp(s) = GrpcCodeToHttp(s)
  BY Zenon DEF Service!GrpcCodeToHttp, GrpcCodeToHttp
<1> QED
  BY <1>1, <1>2, <1>3, <1>4

(* So do those of the answers,                                             *)
LEMMA SameAnswers ==
  /\ \A h, c, b, n : Service!Answer(h, c, b, n) = Answer(h, c, b, n)
  /\ \A h, c : Service!ErrorAnswer(h, c) = ErrorAnswer(h, c)
  /\ \A h : Service!PlainError(h) = PlainError(h)
  /\ \A m, a : Service!ToClient(m, a) = ToClient(m, a)
  /\ \A s : Service!Grpc(s) = Grpc(s)
  /\ Service!Unauthenticated = Unauthenticated
  /\ Service!InvalidArgument = InvalidArgument
  /\ Service!UnprocessableEntity = UnprocessableEntity
  /\ Service!Internal = Internal
  /\ Service!RouterAnswer = RouterAnswer
<1>1. \A h, c, b, n : Service!Answer(h, c, b, n) = Answer(h, c, b, n)
  BY DEF Service!Answer, Answer
<1>2. \A h, c : Service!ErrorAnswer(h, c) = ErrorAnswer(h, c)
  BY <1>1 DEF Service!ErrorAnswer, ErrorAnswer
<1>3. \A h : Service!PlainError(h) = PlainError(h)
  BY <1>2 DEF Service!PlainError, PlainError
<1>4. \A m, a : Service!ToClient(m, a) = ToClient(m, a)
  BY <1>1 DEF Service!ToClient, ToClient
<1>5. \A s : Service!Grpc(s) = Grpc(s)
  BY <1>2, SameStatuses DEF Service!Grpc, Grpc
<1>6. /\ Service!Unauthenticated = Unauthenticated
      /\ Service!InvalidArgument = InvalidArgument
      /\ Service!UnprocessableEntity = UnprocessableEntity
      /\ Service!Internal = Internal
  BY <1>2 DEF Service!Unauthenticated, Service!InvalidArgument,
       Service!UnprocessableEntity, Service!Internal, Unauthenticated,
       InvalidArgument, UnprocessableEntity, Internal
<1>7. Service!RouterAnswer = RouterAnswer
  BY <1>1, <1>3 DEF Service!RouterAnswer, RouterAnswer
<1> QED
  BY <1>1, <1>2, <1>3, <1>4, <1>5, <1>6, <1>7

(* of the state of a node,                                                 *)
LEMMA SameNodes ==
  /\ Service!FreshNode = FreshNode
  /\ \A n, p : Service!Success(n, p) = Success(n, p)
  /\ \A n, st : Service!Refuse(n, st) = Refuse(n, st)
  /\ \A i, v : Service!Item(i, v) = Item(i, v)
  /\ \A ids : Service!Items(ids) = Items(ids)
  /\ \A n, names, reset :
       Service!ReadCounters(n, names, reset) = ReadCounters(n, names, reset)
  /\ \A table, t : Service!Tagged(table, t) = Tagged(table, t)
  /\ \A n, t, e : Service!UserIn(n, t, e) = UserIn(n, t, e)
  /\ \A n, s : Service!Carry(n, s) = Carry(n, s)
<1>1. Service!FreshNode = FreshNode
  BY DEF Service!FreshNode, FreshNode
<1>2. \A n, p : Service!Success(n, p) = Success(n, p)
  BY SameStatuses DEF Service!Success, Success
<1>3. \A n, st : Service!Refuse(n, st) = Refuse(n, st)
  BY DEF Service!Refuse, Refuse
<1>4. \A i, v : Service!Item(i, v) = Item(i, v)
  BY DEF Service!Item, Item
<1>5. \A ids : Service!Items(ids) = Items(ids)
  BY <1>4 DEF Service!Items, Items
<1>6. \A n, names, reset :
        Service!ReadCounters(n, names, reset) = ReadCounters(n, names, reset)
  BY DEF Service!ReadCounters, ReadCounters
<1>7. \A table, t : Service!Tagged(table, t) = Tagged(table, t)
  BY DEF Service!Tagged, Tagged
<1>8. \A n, t, e : Service!UserIn(n, t, e) = UserIn(n, t, e)
  BY DEF Service!UserIn, UserIn
<1>9. \A n, s : Service!Carry(n, s) = Carry(n, s)
  BY DEF Service!Carry, Carry
<1> QED
  BY <1>1, <1>2, <1>3, <1>4, <1>5, <1>6, <1>7, <1>8, <1>9

(* of what its services do,                                                *)
LEMMA SameServices ==
  ASSUME NEW n, NEW c
  PROVE  /\ Service!AlterInbound(n, c) = AlterInbound(n, c)
         /\ Service!ManageInbounds(n, c) = ManageInbounds(n, c)
         /\ Service!ManageOutbounds(n, c) = ManageOutbounds(n, c)
         /\ Service!ReadStats(n, c) = ReadStats(n, c)
         /\ Service!ManageRouting(n, c) = ManageRouting(n, c)
<1>1. Service!AlterInbound(n, c) = AlterInbound(n, c)
  <2>1. /\ Service!UserIn(n, c.tag, c.id) = UserIn(n, c.tag, c.id)
        /\ Service!Tagged(n.inbounds, c.tag) = Tagged(n.inbounds, c.tag)
    BY SameNodes
  <2>2. CASE Tagged(n.inbounds, c.tag) = {}
    BY <2>1, <2>2, SameNodes, SameStatuses
       DEF Service!AlterInbound, AlterInbound
  <2>3. CASE Tagged(n.inbounds, c.tag) # {}
    <3>1. Service!AlterInbound(n, c) =
            CASE c.method = "AddUser" ->
                   IF UserIn(n, c.tag, c.id) # {} THEN Refuse(n, Exists)
                   ELSE Success([n EXCEPT !.users = @ \cup
                                   {[tag |-> c.tag, email |-> c.id,
                                     what |-> c.what]}], {})
              [] c.method = "RemoveUser" ->
                   IF UserIn(n, c.tag, c.id) = {} THEN Refuse(n, Missing)
                   ELSE Success([n EXCEPT !.users =
                                   @ \ UserIn(n, c.tag, c.id)], {})
      BY <2>1, <2>3, SameNodes, SameStatuses DEF Service!AlterInbound
    <3> QED
      BY <2>3, <3>1 DEF AlterInbound
  <2> QED
    BY <2>2, <2>3
<1>2. Service!ManageInbounds(n, c) = ManageInbounds(n, c)
  BY SameNodes, SameStatuses DEF Service!ManageInbounds, ManageInbounds
<1>3. Service!ManageOutbounds(n, c) = ManageOutbounds(n, c)
  BY SameNodes, SameStatuses DEF Service!ManageOutbounds, ManageOutbounds
<1>4. Service!ReadStats(n, c) = ReadStats(n, c)
  BY SameNodes, SameStatuses DEF Service!ReadStats, ReadStats
<1>5. Service!ManageRouting(n, c) = ManageRouting(n, c)
  BY SameNodes, SameStatuses DEF Service!ManageRouting, ManageRouting
<1> QED
  BY <1>1, <1>2, <1>3, <1>4, <1>5

(* of the execution of a call,                                             *)
LEMMA SameExec ==
  ASSUME NEW n, NEW token, NEW c
  PROVE  Service!Exec(n, token, c) = Exec(n, token, c)
BY SameServices, SameNodes DEF Service!Exec, Exec

(* of the routing table,                                                   *)
LEMMA SameRouting ==
  /\ \A method, path : Service!OpFor(method, path) = OpFor(method, path)
  /\ \A path : Service!Capture(path) = Capture(path)
<1>1. Service!Routes = Routes
  BY DEF Service!Routes, Service!StatsRoutes, Service!HandlerRoutes,
       Service!RoutingRoutes, Service!At, Routes, StatsRoutes, HandlerRoutes,
       RoutingRoutes, At
<1>2. \A route, path : Service!Fits(route, path) = Fits(route, path)
  BY DEF Service!Fits, Fits
<1>3. \A path : Service!Fitting(path) = Fitting(path)
  BY <1>1, <1>2 DEF Service!Fitting, Fitting
<1>4. \A path : Service!Matched(path) = Matched(path)
  BY <1>3 DEF Service!Matched, Matched
<1>5. \A method, path : Service!Offered(method, path) = Offered(method, path)
  BY <1>4 DEF Service!Offered, Offered, Service!ServedAs, ServedAs
<1>6. \A method, path : Service!OpFor(method, path) = OpFor(method, path)
  BY <1>4, <1>5 DEF Service!OpFor, OpFor
<1>7. \A path : Service!Capture(path) = Capture(path)
  <2> SUFFICES ASSUME NEW path
               PROVE  Service!Capture(path) = Capture(path)
    OBVIOUS
  <2> DEFINE there == CHOOSE route \in Service!Matched(path) : TRUE
             here == CHOOSE route \in Matched(path) : TRUE
             Cut(route) == SubSeq(path, Len(route.prefix) + 1, Len(path))
             Text(captured) == IF captured \in DOMAIN Decoded
                               THEN Decoded[captured] ELSE captured[1]
  <2>1. there = here
    BY <1>4
  <2>2. Service!Capture(path) = Text(Cut(there))
    BY DEF Service!Capture
  <2>3. Capture(path) = Text(Cut(here))
    BY DEF Capture
  <2> HIDE DEF there, here
  <2> QED
    BY <2>1, <2>2, <2>3
<1> QED
  BY <1>6, <1>7

(* of the request as its handler gets it,                                  *)
LEMMA SameRequests ==
  /\ Service!Op = Op /\ Service!MethodOf = MethodOf
  /\ Service!TakesBody = TakesBody /\ Service!Adds = Adds
  /\ \A q : Service!Routed(q) = Routed(q)
<1>1. \A f, g : Service!Over(f, g) = Over(f, g)
  BY DEF Service!Over, Over
<1>2. /\ Service!HandlerService = HandlerService
      /\ Service!StatsService = StatsService
      /\ Service!RoutingAndLoggerService = RoutingAndLoggerService
  BY DEF Service!HandlerService, HandlerService, Service!StatsService,
       StatsService, Service!RoutingAndLoggerService, RoutingAndLoggerService
<1>3. Service!MethodOf = MethodOf
  BY <1>1, <1>2 DEF Service!MethodOf, MethodOf
<1>4. Service!Op = Op
  BY <1>3 DEF Service!Op, Op
<1>5. Service!Adds = Adds
  BY DEF Service!Adds, Adds
<1>6. Service!TakesBody = TakesBody
  BY <1>5 DEF Service!TakesBody, TakesBody
<1>7. \A op, q : Service!TagOf(op, q) = TagOf(op, q)
  BY <1>5, SameRouting DEF Service!TagOf, TagOf
<1>8. \A op, q : Service!NameOf(op, q) = NameOf(op, q)
  BY SameRouting DEF Service!NameOf, NameOf
<1>9. \A q : Service!Routed(q) = Routed(q)
  BY <1>1, <1>7, <1>8, SameRouting DEF Service!Routed, Routed
<1> QED
  BY <1>3, <1>4, <1>5, <1>6, <1>9

(* and of the calls and what is made of their replies.                     *)
LEMMA SameCalls ==
  /\ \A in : Service!CallOf(in) = CallOf(in)
  /\ \A in, rep : Service!Finish(in, rep) = Finish(in, rep)
<1>1. \A spec : Service!ProtoOf(spec) = ProtoOf(spec)
  BY DEF Service!ProtoOf, ProtoOf
<1>2. /\ \A spec : Service!SecurityOf(spec) = SecurityOf(spec)
      /\ \A spec : Service!CipherOf(spec) = CipherOf(spec)
  BY DEF Service!SecurityOf, SecurityOf, Service!KnownSecurity, KnownSecurity,
       Service!CipherOf, CipherOf, Service!KnownCipher, KnownCipher
<1>3. \A spec : Service!AccountOf(spec) = AccountOf(spec)
  BY <1>1, <1>2 DEF Service!AccountOf, AccountOf
<1>4. \A in : Service!WhatOf(in) = WhatOf(in)
  BY <1>3 DEF Service!WhatOf, WhatOf, Service!UserOf, UserOf,
       Service!ConfigOf, ConfigOf, Service!NetworkOf, NetworkOf
<1>5. \A in : Service!IdOf(in) = IdOf(in)
  BY DEF Service!IdOf, IdOf
<1>6. \A in : Service!ResetOf(in) = ResetOf(in)
  BY DEF Service!ResetOf, ResetOf, Service!Resets, Resets
<1>7. \A in : Service!CallOf(in) = CallOf(in)
  BY <1>4, <1>5, <1>6, SameRequests DEF Service!CallOf, CallOf
<1>8. \A in, payload : Service!BodyOf(in, payload) = BodyOf(in, payload)
  BY SameNodes DEF Service!BodyOf, BodyOf
<1>9. \A in, rep : Service!Finish(in, rep) = Finish(in, rep)
  BY <1>8, SameNodes, SameStatuses, SameAnswers, SameRequests
     DEF Service!Finish, Finish
<1> QED
  BY <1>7, <1>9

(* Where a task is, and what that is to the service.                       *)
StageAt(p) ==
  CASE p = "idle" -> "idle"
    [] p \in Running -> "open"
    [] p = "done" -> "answered"
    [] p = "gone" -> "dropped"

(* The stage the service sees of each phase.                               *)
LEMMA StageOfPhase ==
  /\ StageAt("idle") = "idle" /\ StageAt("done") = "answered"
  /\ StageAt("gone") = "dropped"
  /\ \A p \in Running : StageAt(p) = "open"
<1>1. StageAt("idle") = "idle"
  BY DEF StageAt, Running
<1>2. StageAt("done") = "answered"
  BY DEF StageAt, Running
<1>3. StageAt("gone") = "dropped"
  BY DEF StageAt, Running
<1>4. ASSUME NEW p \in Running PROVE StageAt(p) = "open"
  BY DEF StageAt, Running
<1> QED
  BY <1>1, <1>2, <1>3, <1>4

(* The same of all requests, before and after a step.                      *)
LEMMA StageIs ==
  /\ Stage = [r \in Request |-> StageAt(phase[r])]
  /\ Stage' = [r \in Request |-> StageAt(phase'[r])]
BY DEF Stage, StageAt

(* One task goes on.                                                       *)
LEMMA StageStep ==
  ASSUME NEW r \in Request, NEW p, phase \in [Request -> Phase],
         phase' = [phase EXCEPT ![r] = p]
  PROVE  /\ Stage[r] = StageAt(phase[r])
         /\ Stage' = [Stage EXCEPT ![r] = StageAt(p)]
BY StageIs

(* The two ways to say that nothing is wrong with a request.               *)
LEMMA AcceptableIs ==
  ASSUME NEW in,
         in.auth # NoAuth =>
           in.auth = [scheme |-> in.auth.scheme, token |-> in.auth.token]
  PROVE  Service!Acceptable(in) <=> Admitted(in) /\ BodyOK(in)
<1>1. in.auth = [scheme |-> "bearer", token |-> BridgeToken] <=> Authorized(in)
  BY BridgeAssumption DEF Authorized
<1>2. Service!HeaderOK(in) <=> HeaderOK(in)
  BY DEF Service!HeaderOK, HeaderOK
<1> QED
  BY <1>1, <1>2, SameRequests DEF Service!Acceptable, Admitted, BodyOK

(* The same of the request of a task.                                      *)
LEMMA AcceptableTask ==
  ASSUME IInv, NEW r \in Request, phase[r] # "idle"
  PROVE  Service!Acceptable(input[r]) <=>
           Admitted(input[r]) /\ BodyOK(input[r])
<1>1. input[r].auth # NoAuth =>
        input[r].auth = [scheme |-> input[r].auth.scheme,
                         token |-> input[r].auth.token]
  BY InputKnown
<1> QED
  BY <1>1, AcceptableIs

(* Every rejection is one the service may give.                            *)
LEMMA RefusalsAre ==
  /\ BodyRejections \subseteq Service!Refusals
  /\ {Unauthenticated, InvalidArgument, Internal, PlainError(400)}
       \subseteq Service!Refusals
  /\ {RouterAnswer["not_found"], RouterAnswer["method_not_allowed"]}
       \subseteq Service!Refusals
<1>1. Service!Refusals =
        {Unauthenticated, InvalidArgument, UnprocessableEntity, Internal}
          \cup {PlainError(http) : http \in {400, 404, 405, 413, 415, 422}}
  BY SameAnswers DEF Service!Refusals
<1>2. /\ RouterAnswer["not_found"] = PlainError(404)
      /\ RouterAnswer["method_not_allowed"] = PlainError(405)
  BY DEF RouterAnswer
<1> QED
  BY <1>1, <1>2 DEF BodyRejections

(* What leaves all that the service shows alone.                           *)
LEMMA Stutters ==
  ASSUME NEW r \in Request, NEW p \in Running, phase \in [Request -> Phase],
         phase[r] \in Running, phase' = [phase EXCEPT ![r] = p],
         UNCHANGED <<input, resp, back, nodes>>
  PROVE  UNCHANGED Service!vars
<1>1. Stage' = Stage
  <2>1. Stage[r] = "open" /\ StageAt(p) = "open"
    BY StageStep, StageOfPhase
  <2> QED
    BY <2>1, StageStep, StageIs
<1> QED
  BY <1>1 DEF Service!vars

(* A request that arrives asks the service.                                *)
LEMMA ArriveAsks ==
  ASSUME IInv, NEW r \in Request, NEW q \in Inputs, Arrive(r, q)
  PROVE  Service!Ask(r, q)
<1>1. Stage[r] = "idle" /\ Stage' = [Stage EXCEPT ![r] = "open"]
  <2>1. /\ phase \in [Request -> Phase]
        /\ phase' = [phase EXCEPT ![r] = "arrived"]
    BY DEF IInv, Types, Arrive
  <2>2. /\ Stage[r] = StageAt(phase[r])
        /\ Stage' = [Stage EXCEPT ![r] = StageAt("arrived")]
    BY <2>1, StageStep
  <2> QED
    BY <2>2, StageOfPhase DEF Arrive, Running
<1> QED
  BY <1>1, SameRequests DEF Arrive, Service!Ask, calls, world

(* Any answer concludes an open request.                                   *)
LEMMA AnswerConcludes ==
  ASSUME IInv, NEW r \in Request, NEW a, phase[r] \in Running,
         AnswerWith(r, a), UNCHANGED <<input, back, nodes>>
  PROVE  Stage[r] = "open" /\ Service!Conclude(r, a)
<1>1. Stage[r] = "open" /\ Stage' = [Stage EXCEPT ![r] = "answered"]
  <2>1. /\ phase \in [Request -> Phase]
        /\ phase' = [phase EXCEPT ![r] = "done"]
    BY DEF IInv, Types, AnswerWith
  <2>2. /\ Stage[r] = StageAt(phase[r])
        /\ Stage' = [Stage EXCEPT ![r] = StageAt("done")]
    BY <2>1, StageStep
  <2> QED
    BY <2>2, StageOfPhase DEF Running
<1> QED
  BY <1>1, SameAnswers DEF AnswerWith, Service!Conclude

(* A rejection turns down what is not acceptable.                          *)
LEMMA RefusalTurnsDown ==
  ASSUME IInv, NEW r \in Request, NEW a \in Service!Refusals,
         phase[r] \in Running, AnswerWith(r, a),
         UNCHANGED <<input, back, nodes>>, input[r].op # "healthz",
         ~Admitted(input[r]) \/ ~BodyOK(input[r])
  PROVE  Service!TurnDown(r)
<1>1. ~Service!Acceptable(input[r])
  BY AcceptableTask DEF Running
<1> QED
  BY <1>1, AnswerConcludes DEF Service!TurnDown

(* One lemma per action: it is a step of the service, or none.             *)
LEMMA ExtractImplements ==
  ASSUME IInv, NEW r \in Request, Extract(r)
  PROVE  \/ Service!Healthy(r) \/ Service!TurnDown(r)
         \/ UNCHANGED Service!vars
<1>1. /\ phase[r] = "arrived" /\ phase[r] \in Running
      /\ UNCHANGED <<input, back, nodes>>
      /\ phase \in [Request -> Phase]
  BY DEF Extract, calls, world, Running, IInv, Types
<1>2. input[r].op \in Op => input[r].op # "healthz"
  BY OpNames DEF HandlerOps, StatsOps, RoutingAndLoggerOps
<1>3. CASE AnswerUnrouted(r)
  <2>1. /\ input[r].op \in {"not_found", "method_not_allowed", "healthz"}
        /\ AnswerWith(r, RouterAnswer[input[r].op])
    BY <1>3, OpNames DEF AnswerUnrouted
  <2>2. CASE input[r].op = "healthz"
    <3>1. RouterAnswer[input[r].op] = Service!RouterAnswer.healthz
      BY <2>2, SameAnswers
    <3> QED
      BY <1>1, <2>1, <2>2, <3>1, AnswerConcludes DEF Service!Healthy
  <2>3. CASE input[r].op # "healthz"
    <3>1. RouterAnswer[input[r].op] \in Service!Refusals
      BY <2>1, <2>3, RefusalsAre
    <3>2. ~Admitted(input[r])
      BY <2>1, OpNames
         DEF Admitted, HandlerOps, StatsOps, RoutingAndLoggerOps
    <3> QED
      BY <1>1, <2>1, <2>3, <3>1, <3>2, RefusalTurnsDown
  <2> QED
    BY <2>2, <2>3
<1>4. CASE MissingHeader(r)
  <2>1. InvalidArgument \in Service!Refusals
    BY RefusalsAre
  <2>2. /\ AnswerWith(r, InvalidArgument) /\ input[r].op # "healthz"
        /\ ~Admitted(input[r])
    BY <1>2, <1>4 DEF MissingHeader, Admitted
  <2> QED
    BY <1>1, <2>1, <2>2, RefusalTurnsDown
<1>5. CASE FromRequestParts(r)
  <2> DEFINE in == input[r]
  <2>1. in.op \in Op /\ in.op # "healthz" /\ HeaderOK(in)
    BY <1>2, <1>5 DEF FromRequestParts
  <2>2. PICK o \in GetOrCreate(cache, Live, KeyOf(in), in.name) :
          /\ cache' = o.cache
          /\ CASE o.client = NoClient -> AnswerWith(r, Internal)
               [] o.client # NoClient /\ ~in.params ->
                    AnswerWith(r, PlainError(400))
               [] o.client # NoClient /\ in.params /\ ~Authorized(in) ->
                    AnswerWith(r, Unauthenticated)
               [] OTHER -> /\ phase' = [phase EXCEPT ![r] = "handler"]
                           /\ held' = [held EXCEPT ![r] = o.client]
                           /\ UNCHANGED resp
    BY <1>5 DEF FromRequestParts
  <2>3. o.client = NoClient => in.domain \in InvalidDomain
    BY <1>1, <2>1, LookupOfRequest
  <2>4. in.params \in BOOLEAN
    BY <1>1, InputKnown
  <2>5. \/ o.client = NoClient /\ AnswerWith(r, Internal)
        \/ ~in.params /\ AnswerWith(r, PlainError(400))
        \/ ~Authorized(in) /\ AnswerWith(r, Unauthenticated)
        \/ phase' = [phase EXCEPT ![r] = "handler"] /\ UNCHANGED resp
    BY <2>2, <2>4
  <2>6. ASSUME o.client = NoClient, AnswerWith(r, Internal)
        PROVE  Service!TurnDown(r)
    <3>1. ~Admitted(in) /\ Internal \in Service!Refusals
      BY <2>3, <2>6, RefusalsAre DEF Admitted
    <3> QED
      BY <1>1, <2>1, <2>6, <3>1, RefusalTurnsDown
  <2>7. ASSUME ~in.params, AnswerWith(r, PlainError(400))
        PROVE  Service!TurnDown(r)
    <3>1. ~Admitted(in) /\ PlainError(400) \in Service!Refusals
      BY <2>7, RefusalsAre DEF Admitted
    <3> QED
      BY <1>1, <2>1, <2>7, <3>1, RefusalTurnsDown
  <2>8. ASSUME ~Authorized(in), AnswerWith(r, Unauthenticated)
        PROVE  Service!TurnDown(r)
    <3>1. ~Admitted(in) /\ Unauthenticated \in Service!Refusals
      BY <2>8, RefusalsAre DEF Admitted
    <3> QED
      BY <1>1, <2>1, <2>8, <3>1, RefusalTurnsDown
  <2>9. ASSUME phase' = [phase EXCEPT ![r] = "handler"], UNCHANGED resp
        PROVE  UNCHANGED Service!vars
    BY <1>1, <2>9, Stutters DEF Running
  <2> QED
    BY <2>5, <2>6, <2>7, <2>8, <2>9
<1> QED
  BY <1>3, <1>4, <1>5 DEF Extract

(* A handler turns down what is wrong with the body, or goes on unseen.    *)
LEMMA RunHandlerImplements ==
  ASSUME IInv, NEW r \in Request, RunHandler(r)
  PROVE  Service!TurnDown(r) \/ UNCHANGED Service!vars
<1>1. /\ phase[r] = "handler" /\ phase[r] \in Running
      /\ UNCHANGED <<input, back, nodes>>
      /\ phase \in [Request -> Phase]
      /\ \/ Reject(r)
         \/ phase' = [phase EXCEPT ![r] = "waiting"] /\ UNCHANGED resp
  BY DEF RunHandler, world, Running, IInv, Types
<1>2. ASSUME Reject(r)
      PROVE  Service!TurnDown(r)
  <2>1. PICK a \in Rejections(input[r]) : AnswerWith(r, a)
    BY <1>2 DEF Reject
  <2>2. input[r].op \in Op /\ input[r].op # "healthz"
    BY <1>1, OpNames DEF IInv, TaskOK, Admitted, HandlerOps, StatsOps,
         RoutingAndLoggerOps
  <2>3. RequestOK(input[r])
    BY <1>1, <2>2, InputKnown
  <2>4. ~BodyOK(input[r]) /\ a \in BodyRejections
    BY <2>1, <2>3, RejectionsMean DEF RequestOK
  <2>5. a \in Service!Refusals
    BY <2>4, RefusalsAre
  <2> QED
    BY <1>1, <2>1, <2>2, <2>4, <2>5, RefusalTurnsDown
<1>3. ASSUME phase' = [phase EXCEPT ![r] = "waiting"], UNCHANGED resp
      PROVE  UNCHANGED Service!vars
  BY <1>1, <1>3, Stutters DEF Running
<1> QED
  BY <1>1, <1>2, <1>3

(* The node executes what the service was asked for.                       *)
LEMMA ExecuteImplements ==
  ASSUME IInv, NEW r \in Request, Execute(r)
  PROVE  Service!Perform(r)
<1> DEFINE at == AddressOf(sent[r])
<1>1. /\ wire[r] = "sent" /\ at \in Nodes
      /\ UNCHANGED <<phase, input, resp>>
  BY DEF Execute, tasks
<1>2. /\ at = Target(input[r]) /\ sent[r].token = input[r].token
      /\ Admitted(input[r]) /\ BodyOK(input[r])
      /\ phase[r] \in {"waiting", "done", "gone"}
  BY <1>1, CallOfTask
<1>3. Service!Target(input[r]) = Target(input[r])
  BY DEF Service!Target, Service!AddressOf, Service!KeyOf, Service!PortOf,
       Service!Port, Target, AddressOf, KeyOf, PortOf, Port
<1>4. Service!Acceptable(input[r])
  BY <1>2, AcceptableTask
<1>5. Stage[r] # "idle" /\ Stage' = Stage
  BY <1>1, <1>2, StageIs, StageOfPhase DEF Running
<1>6. back[r] = Nothing
  <2>1. CallMade(sent[r], wire[r], back[r], reply[r], execs[r])
    BY DEF IInv
  <2> QED
    BY <1>1, <2>1 DEF CallMade
<1>7. PICK o \in Exec(nodes[at], sent[r].token, CallOf(input[r])) :
        /\ nodes' = [nodes EXCEPT ![at] = o.node]
        /\ back' = [back EXCEPT ![r] = o.reply]
  BY DEF Execute
<1>8. Service!CallOf(input[r]) = CallOf(input[r])
  BY SameCalls
<1> HIDE DEF at
<1>9. o \in Service!Exec(nodes[at], input[r].token, CallOf(input[r]))
  BY <1>2, <1>7, SameExec
<1> QED
  BY <1>1, <1>2, <1>3, <1>4, <1>5, <1>6, <1>7, <1>8, <1>9 DEF Service!Perform

(* The answer is what the service may give of its reply, or of none.       *)
LEMMA ResumeImplements ==
  ASSUME IInv, NEW r \in Request, Resume(r)
  PROVE  Service!Tell(r) \/ Service!GiveUp(r)
<1>1. /\ phase[r] = "waiting" /\ phase[r] \in Running /\ reply[r] # Nothing
      /\ UNCHANGED <<input, back, nodes>>
      /\ AnswerWith(r, Finish(input[r], reply[r]))
  BY DEF Resume, calls, world, Running
<1>2. Stage[r] = "open" /\ Service!Conclude(r, Finish(input[r], reply[r]))
  BY <1>1, AnswerConcludes
<1>3. /\ Service!Finish(input[r], reply[r]) = Finish(input[r], reply[r])
      /\ Service!Acceptable(input[r])
  <2>1. Admitted(input[r]) /\ BodyOK(input[r])
    BY <1>1 DEF IInv, TaskOK
  <2> QED
    BY <1>1, <2>1, AcceptableTask, SameCalls
<1>4. CallMade(sent[r], wire[r], back[r], reply[r], execs[r])
  BY DEF IInv
<1>5. CASE wire[r] = "executed" /\ reply[r] = back[r]
  BY <1>1, <1>2, <1>3, <1>5 DEF Service!Tell
<1>6. CASE FromTransport(reply[r])
  BY <1>2, <1>3, <1>6 DEF Service!GiveUp, FromTransport
<1> QED
  BY <1>1, <1>4, <1>5, <1>6 DEF CallMade

(* A client that goes away drops its request.                              *)
LEMMA DisconnectImplements ==
  ASSUME IInv, NEW r \in Request, Disconnect(r)
  PROVE  Service!Drop({r})
<1>1. Stage[r] = "open" /\ Stage' = [Stage EXCEPT ![r] = "dropped"]
  <2>1. /\ phase \in [Request -> Phase]
        /\ phase' = [phase EXCEPT ![r] = "gone"]
    BY DEF IInv, Types, Disconnect
  <2>2. /\ Stage[r] = StageAt(phase[r])
        /\ Stage' = [Stage EXCEPT ![r] = StageAt("gone")]
    BY <2>1, StageStep
  <2> QED
    BY <2>2, StageOfPhase DEF Disconnect
<1>2. Stage' = [q \in Request |-> IF q \in {r} THEN "dropped" ELSE Stage[q]]
  BY <1>1, StageIs
<1> QED
  BY <1>1, <1>2 DEF Service!Drop, Disconnect, calls, world

(* A restart drops all that are open.                                      *)
LEMMA RestartBridgeImplements ==
  ASSUME IInv, RestartBridge
  PROVE  \/ \E gone \in SUBSET Request : Service!Drop(gone)
         \/ UNCHANGED Service!vars
<1> DEFINE gone == {r \in Request : phase[r] \in Running}
<1>1. /\ phase' = [r \in Request |->
                     IF phase[r] \in Running THEN "gone" ELSE phase[r]]
      /\ UNCHANGED <<input, resp, back, nodes>>
  BY DEF RestartBridge, calls, world
<1>2. Stage' = [r \in Request |-> IF r \in gone THEN "dropped" ELSE Stage[r]]
  BY <1>1, StageIs, StageOfPhase
<1>3. \A r \in gone : Stage[r] = "open"
  BY StageIs, StageOfPhase
<1>4. CASE gone = {}
  BY <1>1, <1>2, <1>4, StageIs DEF Service!vars
<1>5. CASE gone # {}
  BY <1>1, <1>2, <1>3, <1>5 DEF Service!Drop
<1> QED
  BY <1>4, <1>5

(* Nodes do what they do in the service.                                   *)
LEMMA NodeStepImplements ==
  ASSUME NEW a \in Nodes, NodeStep(a)
  PROVE  Service!NodeStep(a)
<1>1. Stage' = Stage
  BY StageIs DEF NodeStep, Restart, Traffic, tasks
<1>2. CASE Restart(a)
  BY <1>1, <1>2, SameNodes DEF Restart, tasks, calls, Service!NodeStep
<1>3. ASSUME NEW s \in Counted, Traffic(a, s) PROVE Service!NodeStep(a)
  BY <1>1, <1>3, SameNodes DEF Traffic, tasks, calls, Service!NodeStep
<1> QED
  BY <1>2, <1>3 DEF NodeStep

(* The bridge starts as the service does.                                  *)
LEMMA InitImplements == Init => Service!Init
<1> SUFFICES ASSUME Init PROVE Service!Init
  OBVIOUS
<1>1. Stage = [r \in Request |-> "idle"]
  BY StageIs, StageOfPhase DEF Init
<1> QED
  BY <1>1, SameNodes DEF Init, Service!Init

(* Every step is a step of the service, or none.                           *)
LEMMA NextImplements ==
  IInv /\ [Next]_vars => [Service!Next]_(Service!vars)
<1> SUFFICES ASSUME IInv, [Next]_vars
             PROVE  Service!Next \/ UNCHANGED Service!vars
  OBVIOUS
<1>1. ASSUME NEW r \in Request, BridgeStep(r)
      PROVE  Service!Next \/ UNCHANGED Service!vars
  <2>1. CASE Extract(r)
    BY <2>1, ExtractImplements DEF Service!Next
  <2>2. CASE RunHandler(r)
    BY <2>2, RunHandlerImplements DEF Service!Next
  <2>3. CASE Resume(r)
    BY <2>3, ResumeImplements DEF Service!Next
  <2> QED
    BY <1>1, <2>1, <2>2, <2>3 DEF BridgeStep
<1>2. ASSUME NEW r \in Request, ClientStep(r)
      PROVE  Service!Next
  <2>1. CASE Disconnect(r)
    <3>1. Service!Drop({r}) /\ {r} \in SUBSET Request
      BY <2>1, DisconnectImplements
    <3> QED
      BY <3>1 DEF Service!Next
  <2> QED
    BY <1>2, <2>1, ArriveAsks DEF ClientStep, Service!Next
<1>3. ASSUME NEW r \in Request, NetworkStep(r)
      PROVE  Service!Next \/ UNCHANGED Service!vars
  <2>1. CASE Execute(r)
    BY <2>1, ExecuteImplements DEF Service!Next
  <2>2. CASE ReplyArrives(r) \/ TransportFails(r)
    BY <2>2, StageIs DEF ReplyArrives, TransportFails, tasks, world,
         Service!vars
  <2> QED
    BY <1>3, <2>1, <2>2 DEF NetworkStep
<1>4. CASE RestartBridge
  BY <1>4, RestartBridgeImplements DEF Service!Next
<1>5. ASSUME NEW a \in Nodes, NodeStep(a)
      PROVE  Service!Next
  BY <1>5, NodeStepImplements DEF Service!Next
<1>6. CASE UNCHANGED vars
  BY <1>6, StageIs DEF vars, tasks, calls, world, Service!vars
<1> QED
  BY <1>1, <1>2, <1>3, <1>4, <1>5, <1>6 DEF Next

(* The bridge is what its callers were promised, for any number of them:   *)
(* however requests share, lend and displace clients in the cache, break   *)
(* off and restart, each of them is served as if it were alone: it is      *)
(* refused and no node hears of it, or the node it named carries out its   *)
(* call at most once and the answer is made of its own reply               *)
(* (nodes.rs:41-168, routes/handler.rs:167-334).                           *)
THEOREM ServiceImplemented == Spec => ImplementsService
<1>1. Init => Service!Init
  BY InitImplements
<1>2. IInv /\ [Next]_vars => [Service!Next]_(Service!vars)
  BY NextImplements
<1> QED
  BY <1>1, <1>2, Invariant, PTL DEF Spec, ImplementsService, Service!Spec
===============================================================================
