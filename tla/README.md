# TLA+ models of xray-bridge

xray-bridge turns HTTP requests into single gRPC calls to xray nodes. Which
node is named by headers of the request itself; the bridge keeps nothing but a
bounded cache of gRPC clients, shared by all requests. This directory holds
TLA+ modules of the bridge, the TLC configurations that check them on small
instances, and theorems with proofs for TLAPS: every safety property the passing runs check
and both refinements are proved for all values of the constants; liveness is model-checked.
Paths below are relative to the crate's `src/`.

    tlc -config MCBridgeUsers.cfg MCBridge      # check an instance
    tlapm XrayClientCacheProofs.tla             # check the proofs
    tlapm NodeContextProofs.tla
    tlapm BearerAuthProofs.tla
    tlapm XrayNodeProofs.tla
    tlapm HandlersProofs.tla
    tlapm BridgeProofs.tla
    tlapm BridgeAnswersProofs.tla
    tlapm StatNamesProofs.tla

## 1. The system

| Component | State | Operations | Hard because | Correct when |
|---|---|---|---|---|
| client cache, `nodes.rs:26-96` | LRU map (domain, port, token) -> client, under a mutex | `get_or_create` | concurrent requests displace each other's entries while clones are in use; failure half-way | a client fits the key it is found under; order of last use; channels reused, never mixed up |
| `NodeContext`, `nodes.rs:120-168` | none | parse headers, look up | runs before authentication; a port that does not parse becomes 443 | refused requests get no client |
| `BearerAuth`, `auth.rs` | none | compare tokens | a loop that must read everything and forget nothing | accepts the bridge token only |
| handlers, `routes/*.rs` | none | 20 handlers: checks, one call, answer | suspended at the body and at the call; caller may leave | the answer is true of the node |
| gRPC wrappers, `xray/*.rs` | none | build the call, decode the reply | lost, late, unanswered calls; no deadline, no retry; stat names with `>` in them | one call at most, with the caller's own token |
| error mapping, `error.rs` | none | status -> HTTP | the meaning of `Unknown` is in its text | 4xx only when nothing happened |
| accounts, `xray/account.rs`; typed settings, `routes/handler.rs:97-161` | none | validate, encode | fallbacks for unknown names; ten like-typed arguments | invalid input reaches no node, valid input as it was meant |
| router, `routes/mod.rs` | none | path and method -> handler | static against parameter routes, wildcard, HEAD | a path leads to what it names |
| settings and startup, `config.rs`, `main.rs` | token, port | read the environment, serve | two sources, read once | no token, no start |
| xray node (external) | users, inbounds, outbounds, rules, counters | the gRPC services | restarts, refuses, is slow | not the bridge's business |

How they interact: axum runs a task per HTTP request. The router picks its
handler. Its extractors run in the order of the handler's parameters:
`NodeContext` (which uses the cache), `Path` and `Query`, `BearerAuth`, and last
the JSON body. The handler then makes one gRPC call on a clone of the cached
channel and turns the reply into the answer. Tasks share the cache, through its
mutex, and the channels, through their clones; they are suspended only while they
wait for the body and for the reply.

## 2. Modules

| Module | Models | Its state |
|---|---|---|
| `NodeHeaders` | the X-Node-* headers: checks, port, key, address | none: operators |
| `XrayClientCache` | the LRU cache; `get_or_create` as the set of its outcomes | none |
| `NodeContext` | concurrent requests using the cache: `MissingHeader`, `FromRequestParts`, `Drop` | the cache, each request's headers and client, the eviction message, and `recency`, a history of all keys by last use |
| `ClientPool` | abstract: what the cache promises, without any order | pooled channel per key, held channel per request |
| `AppError` | `error.rs`: status to HTTP status and code field | none |
| `Router` | `routes/mod.rs`: which handler a method and a path lead to, what a parameter captures | none |
| `Accounts` | `xray/account.rs`, typed settings, network names: which payload a body becomes | none |
| `XrayNode` | a node as the bridge uses it (external) | a node is a value, `Exec` the outcomes of a call |
| `Handlers` | the 20 handlers and the wrappers they call, without their awaits | none |
| `Bridge` | tasks, cache, calls under way, nodes, put together | see below |
| `BridgeService` | abstract: every request served as if it were alone | stage, question, answer and effect per request; the nodes |
| `BearerAuth` | settings, and the comparison of a token, byte by byte | environment, file, settings; the comparison under way |
| `StatNames` | `parse_stat_name`, `list_users` over arbitrary emails and tags | the counters of a node |
| `MCNodeContext`, `MCBridge`, `MCBearerAuth`, `MCStatNames` | instances: sets of headers, requests, tokens, names | |
| `XrayClientCacheProofs`, `XrayNodeProofs`, `HandlersProofs` | lemmas about the operators of these modules | |
| `NodeContextProofs`, `BearerAuthProofs`, `BridgeProofs`, `BridgeAnswersProofs`, `StatNamesProofs` | theorems about the specifications | |

`NodeHeaders` is used by `XrayClientCache` and by `BridgeService`; `Handlers` is
built on `Router`, `Accounts` and `XrayNode`; `Bridge` extends `XrayClientCache` and
`Handlers`.

**XrayClientCache.** The cache is a sequence of entries, most recently used
first. `Hits` is the lookup, `Touch` the promotion by `LruCache::get`, `Put` the
insertion that may drop the last entry, `ToDisplace` the key the eviction message
names, chosen, as in the code, before the URI is parsed. The mutex is held
from lookup to insertion and nothing awaits in between, so a call is one step. A
channel is an identity; a new one differs from all that some handle refers to.

**Bridge.** The code between two awaits is one action.

| Action | Code |
|---|---|
| `Arrive` | axum accepts a request; `Routed` adds the handler and its identifiers |
| `Extract` | `AnswerUnrouted`: 404, 405, `/healthz`. Else `NodeContext`, `Path`/`Query`, `BearerAuth`, in this order; none of them awaits |
| `RunHandler` | the body is there: it is rejected, or the call is sent on the held client |
| `Execute` | the node executes the call, also when nobody waits for it any more |
| `ReplyArrives`, `TransportFails` | the await ends with the node's reply, or with a status tonic makes up |
| `Resume` | the handler's answer: `Finish`, with `ignore_missing` and the counter that reads 0 |
| `Disconnect` | the HTTP client leaves: hyper drops the task where it is suspended |
| `RestartBridge` | the process ends and starts again: tasks and cache are gone, sent calls are not |
| `Restart`, `Traffic` | the node starts again from its configuration file; it carries traffic |

`execs`, `seen` and `traffic` are histories: they are read by properties only. `seen` has, of the execution of a
request's call, whether what the request names was there before and after it (`There`), what stands under the name
of something added (`Added`), whether the node changed, and what a reading had to see (`Shown`).

**BridgeService.** It knows no cache, client, channel, task or suspension. A request
is asked, and then turned down (something is wrong with it, and no node hears of it) or
performed, at most once, at the address and with the token of its own headers; it is told
its own reply, or that none came; it may be dropped, alone or with others. The mapping from
`Bridge` forgets where a task is suspended, which client it holds and what has reached the
bridge: `stage` comes from `phase`, `effect` is the reply as the node gave it. What is wrong
with a request is stated anew (`Acceptable`), as the API has it.

**BearerAuth.** `Configure` is the operator, `Start` `main` up to `axum::serve`, `Stop` the
end of the process. `FromRequestParts` makes the checks before the loop of
`constant_time_eq`, `CompareByte` is a turn of the loop, `Decide` its end. A byte is the set
of its bits, so XOR is the symmetric difference and OR the union. Comparisons share
nothing but the settings, so one at a time is enough. In `Handlers` the same check is `Authorized`:
equality, which is what `AcceptsExactly` says of the loop.

**StatNames.** A text is a sequence of pieces: `>` and words. Elsewhere stat names are
model values; `IdPart` and `Matches`, which say what their second part is and which patterns
they contain, stand for the operators of this module.

**Abstraction.** Emails, tags, stat names, tokens and domains are model values (but in
`StatNames` and `BearerAuth`). Of the text of an error two facts are kept: whether it
contains "not found", and "already exists". The body of a request is valid or fails in one
of four ways (syntax, data, media type, size); `spec` holds of an account or a configuration
the fields the code passes on, names that are looked up in any case being written in one. A 2xx body
is a set of (name, value) pairs. Logging is left out but for the label of a client and the
eviction message, about which the source makes statements.

## 3. What is checked

| Run | Instance | Properties |
|---|---|---|
| `node_context` | 2 request slots (reused for ever), cache of 2, 5 keys of which one is no address, 4 channels | `TypeOK`, `HeldServesRequest`, `ChannelsNotShared`, `MostRecentlyUsed`, `ChannelReused`, `DisplacedIsLogged`, `ImplementsPool` |
| `users` | 2 requests over add, remove (idempotent and strict) of one user and removal of its inbound; 1 restart of the node, any number of the bridge | `AtMostOnce`, `SuccessIsTrue`, `ClientErrorIsFinal`, `EffectIsReported`, `AbsenceIsNoError`, `ImplementsService` |
| `requests` | 2 requests over every way to be rejected and over two nodes on two ports with two tokens, a port that does not parse, an address without a node; cache of 1 | `TypeOK`, `ClientErrorIsFinal`, `ChannelsKeptApart`, `ChangedOnlyAsAsked`, `ImplementsService` |
| `stats` | 2 requests over resetting and plain reads, GET and HEAD; up to 2 units of traffic, 1 restart; counters that are absent at the start and again after the restart; cache of 1 | `ResetCountsOnce`, `AbsenceIsNoError`, `ReadsAreTrue` |
| `all_handlers` | 1 request over all 20 handlers, accounts of each protocol with known, unknown and absent names, configurations with each setting, paths near a route with every method; every status as a refusal; 1 restart | `SuccessIsTrue`, `ReadsAreTrue`, `ChangedOnlyAsAsked`, `PathsNameTheirSubject` |
| `live` | as `users`, no restart of the node, no symmetry | `HandlersProceed`, `RepliesAreDelivered` |
| `bearer_auth` | bytes of 2 bits, header tokens of 0 to 3 bytes, bridge tokens of 1 and 2, empty or absent, in environment and file | `TypeOK`, `AcceptsExactly`, `ComparesEveryByte`, `NoServiceWithoutToken` |
| `stat_names` | 2 counters, each with one of 44 emails or tags: all 40 of up to three pieces, and four of four pieces | `PartsAreTheName`, `FieldsTellApart`, `ListsTheUsers` |

The properties in words:

- `HeldServesRequest`, `ChannelsNotShared`: whatever other requests do to the
  cache, a handler holds a client for its own node and token, and no channel serves
  two keys. `ChannelReused`: a key keeps its channel while it is cached. The unit
  test `cache_get_or_create_same_key_reuses_entry` (`nodes.rs:179`) compares tokens
  only and would pass with a new channel per request.
- `ChannelsKeptApart`: the same of `Bridge`, where handlers are suspended on their channels while
  others look up and displace, where later extractors reject requests that have
  changed the cache, callers leave and the bridge restarts: requests on one channel name
  the same domain, port and token, and who will find it in the cache does, too.
- `MostRecentlyUsed`, `DisplacedIsLogged`: the cache is the first `MaxEntries`
  keys by last use; an entry leaves a full cache only, and is named in the log.
- `ImplementsPool`, `ImplementsService`: `NodeContext` implements `ClientPool`, and
  `Bridge` implements `BridgeService`. The second says that sharing is invisible:
  every behaviour of concurrent requests on shared clients, with
  restarts of the bridge, is one in which each request is served alone.
- `ChangedOnlyAsAsked`: a node changes only by a call of a request that named its
  address, carried a token it accepts, proved the bridge token, had a valid body,
  and whose method, path, query and body ask for that change. It is stated with the raw request and
  the requirements of the API (`Acceptable`, `MayChange`), not with the routing table or the
  guards of the model.
- `PathsNameTheirSubject`: what a path leads to, told without a table: two emails cannot be
  used below `/v1/users` unless they are percent-encoded, and no others.
- `SuccessIsTrue`, `ClientErrorIsFinal`, `EffectIsReported`: what an answer says of
  the node is so. A 2xx answer means that this request's own call did it, and that what
  it added has each credential and setting in its place, and a vmess user has `NONE` or `ZERO`
  for its security only if the body says so, never as the fallback for a name nobody knows; a 4xx
  answer that nothing happened and nothing will; and a call that had an effect is
  answered with a success or with a status that means the transport broke.
- `AtMostOnce`, `ResetCountsOnce`: no call is repeated; a unit of traffic is never
  reported twice, and it is lost only with a lost reply, a caller who left, a HEAD request
  that resets, or a restart.
- `AbsenceIsNoError`: whichever way the node words absence, a counter it does not have reads 0 with status 200
  (`stats`), and the DELETE of a user it does not have succeeds with a note, or is a 404 if
  `ignore_missing=false` (`users`). Status and body are the answer's, "it does not have" is
  the node's, from the history of the execution.
- `ReadsAreTrue`: a 200 of a handler that reads shows what the node it named had at the execution: a failure
  passes neither for a 0 nor for an empty list, and no value is another node's, another counter's, or from
  before a reset or a restart that came first. `test_route` tests UDP exactly if UDP was asked for.
  `list_users` leaves out nobody with traffic; that it may list more is the finding of run `list_users`.
- `HandlersProceed`, `RepliesAreDelivered`: no request waits for another.
- `AcceptsExactly`, `ComparesEveryByte`, `NoServiceWithoutToken`: the token of the start is
  accepted, and nothing else; the number of bytes compared does not depend on them; an empty
  token in the environment stops the start even when the file has one.
- `PartsAreTheName`, `FieldsTellApart`, `ListsTheUsers`: nothing of a stat name is lost; as long
  as an email or tag has no `>>>` in it and does not end in `>`, the four fields identify the
  counter, and a user with traffic is listed, whatever other counters there are. Nobody else is listed as long
  as *all* emails and tags are so and no tag ends in `user`: the tag `x>>>user>>>y` does not end in it, and has `x`
  listed all the same. Ids that begin with `>` or are empty are fine. Those that end in `>` are not: `a>` is listed as `a`.

**Bounds.** A wrong client needs two requests and an entry displaced between them;
two slots, reused without end, and a cache of two give every order of hit,
miss, displacement and return of a displaced key. The keys differ in
the domain only, the port only or the token only. Four channels are as
many as two cached and two held clients can occupy, so one is free for every miss
(a miss is made with at most one slot holding a client). In `Bridge` a request is made once: two are
enough for two calls to overlap, and for one to fall between the execution and the answer
of the other. `MaxTraffic` and `MaxRestarts` bound what nodes do; restarts of the bridge are
not bounded. Two bits are enough for bytes that
differ in one bit, in all, and for differences that cancel out; three bytes against two
for a prefix on either side. Two counters, `MaxCounters`, are what a confusion takes.
Requests and channels are interchangeable, hence the symmetry sets, which the
`live` run does without. `Bridge` may stop once all requests are made, so
its runs do not check for deadlock; the others do.

**Fairness.** Weak fairness of `Extract`, of `RunHandler` for handlers without a body,
and of `Resume`, per request: tokio polls a task that can go on. Nothing
is assumed of the node, of the network or of the sender of a body, because the code
sets no deadline for them: a call may stay unanswered for ever, and `HandlersProceed`
and `RepliesAreDelivered` promise no more than that.

**Disagreements between code and documentation.** Each has a run in which TLC finds
the state or step that contradicts the quoted line.

| Run | Line | What the code does |
|---|---|---|
| `label` | `nodes.rs:22`, repository `README.md:100` | a hit keeps the label of the request that created the client |
| `eviction_log` | `nodes.rs:58` | the message names an entry that stays if the URI then fails to parse |
| `unprocessable` | `README.md:303` | a missing body field is axum's plain-text 422, without a code |
| `list_users` | `xray/stats.rs:202` | `user>>>` matches anywhere in a name, such as that of an inbound whose tag ends in `user` |

Two more rows of the error reference are incomplete, as `GrpcCodeToHttp` shows
without a run: a 409 also comes with code `UNKNOWN` (`README.md:302` names
`ALREADY_EXISTS` only), and a 500 carries the node's own gRPC code when the node refused
the call with one that has no row (`README.md:306` names `INTERNAL_ERROR` only).

## 4. What is proved

`NodeContextProofs` proves, for every set of requests and headers, every set of
channels and every capacity:

| Theorem | Statement |
|---|---|
| `TypeCorrect` | `Spec => []TypeOK` |
| `HeldAlwaysServesRequest` | `Spec => []HeldServesRequest` |
| `ChannelsNeverShared` | `Spec => []ChannelsNotShared` |
| `CacheIsMostRecentlyUsed` | `Spec => []MostRecentlyUsed` |
| `ChannelAlwaysReused` | `Spec => ChannelReused` |
| `DisplacedAlwaysLogged` | `Spec => DisplacedIsLogged` |
| `CacheImplementsPool` | `Spec => ImplementsPool` |

They assume what the modules declare: the capacity is positive (`NonZeroUsize` in
`XrayClientCache::new`), invalid domains are domains, "no client" is not a client,
and headers have the values the header checks let through. TLC evaluates these assumptions in
every run. `CacheImplementsPool` also assumes `NothingHeldAssumption`, that "no client" is not a
pair of a key and a channel.

*Argument.* In `XrayClientCacheProofs`, `MoveToFrontProps`, `PushFrontProps` and `FromProps` say
what the two list operations do; `Outcomes` that a lookup hits, fails or misses.
`HeldServesRequest` and `ChannelsNotShared` are not inductive: a hit lends what the
cache has, so one has to know what every entry serves; a displaced
entry lives on in a handler, so one has to know that a channel belongs to one client
wherever it is. `ChannelInv` says both: entries serve their keys, keys and channels
are distinct in the cache, and whoever is on one channel holds the same client.
`LookupGrants` says what a successful lookup gives, to any set of users of the cache (`Granted` to
these), and `ChannelInvStep` is the induction.
`MostRecentlyUsed` needs that `recency` has no key twice (`RecencyInv`); a
missed key may be further down in `recency`, beyond what the cache remembers, which is
the main case of `MissMirrors`. The two action properties follow from
these invariants by `LookupReuses` and `LookupDrops`.

*Refinement.* Under the mapping of `NodeContext` (`PoolNow`, `HoldsNow`) the LRU cache
is a `ClientPool`. `PoolOf` is the pool a list of entries stands for. A hit permutes the list, so the pool
stays (`HitKeepsPool`) and the step is a `Share`; a miss adds a key to the pool and a full list
loses its last one (`MissExtendsPool`), which the pool may do because distinct keys make its
cardinality the length of the list (`KeysCounted`), so the step is an `Open`; a new channel is one
nobody uses because the channels in use are those that live (`InUseIsLive`). Refused
requests stutter, and the end of a request is a `LetGo` or a stutter. `TypeOK`, `ChannelInv` and
`RecencyInv` hold in every state by the theorems above.

`BearerAuthProofs` proves, for tokens of every length, bytes of every number of bits, and all
environments and files:

| Theorem | Statement |
|---|---|
| `TypeCorrect` | `Spec => []TypeOK` |
| `AlwaysAcceptsExactly` | `Spec => []AcceptsExactly` |
| `AlwaysComparesEveryByte` | `Spec => []ComparesEveryByte` |
| `NeverServesWithoutToken` | `Spec => []NoServiceWithoutToken` |

They assume `AuthAssumption`: tokens are sequences of bytes, and the values that stand for
absence are none.

*Argument.* What a verdict says is not inductive: it is reached by a loop. `LoopInv` is
the loop's invariant, that no difference was found exactly if the bytes compared so far
agree; a turn of the loop keeps it because `x ^ y` is 0 exactly if `x = y` (`XorZero`) and OR
forgets nothing (`CompareStep`). At the end all bytes were compared, since the lengths are equal,
and sequences of one length with the same elements are equal (`DecideStep`). `ServingInv` ties the
token in use to the one chosen at the start, and `VerdictInv` carries the verdict on until the next request.

`BridgeProofs` and `BridgeAnswersProofs` prove about `Bridge`, for any number of requests, nodes,
inputs and channels, every capacity, any traffic and any restarts:

| Theorem | Statement |
|---|---|
| `Invariant` | `Spec => []IInv`, the inductive invariant of tasks and calls |
| `TypeCorrect` | `Spec => []TypeOK` |
| `NothingRepeated` | `Spec => []AtMostOnce` |
| `ChannelsAlwaysApart` | `Spec => []ChannelsKeptApart` |
| `ServiceImplemented` | `Spec => ImplementsService` |
| `AnswersInvariant` | `Spec => [](IInv /\ AInv)`, what answers are made of |
| `SuccessesAreTrue` | `Spec => []SuccessIsTrue` |
| `ErrorsAreFinal` | `Spec => []ClientErrorIsFinal` |
| `ChangesAreTold` | `Spec => []EffectIsReported` |
| `AbsenceTolerated` | `Spec => []AbsenceIsNoError` |
| `ReadingsTrue` | `Spec => []ReadsAreTrue` |
| `NodesChangeAsAsked` | `Spec => ChangedOnlyAsAsked` |
| `PathsNameSubjects` | `Spec => []PathsNameTheirSubject` |
| `TrafficToldOnce` | `Spec => []ResetCountsOnce` |

*Assumptions*, besides those of the cache. All of them are evaluated by TLC in every run of `Bridge`.

- `InputsAssumption`: what arrives has the fields of a request, its path is a list, and a request
  whose handler takes a body has one, valid or not; the balancer asked for is a name in `Id`.
- `NodeAssumption`, `TransportAssumption`: an error a node gives *before* it looks at the call, and
  one tonic makes up for a broken connection, is not worded as absence or as a conflict
  (`TellsNeither`: not `NOT_FOUND`, not `ALREADY_EXISTS`, and an `Unknown` without text). The
  code depends on it: an `Unknown` error of a proxy whose text happens to contain "not found" is
  taken for a missing user, and `SuccessIsTrue` is false. Both sets are otherwise arbitrary.
- `UsersAssumption`: the counters of users are among those that match `user>>>`, and their names have a second part;
  `StatNames` has names as texts: `UserNamesMatch` says the first of them, and a name with a separator in it has a second part.
- `BridgeAssumption`: the values that stand for "none" are none, the bounds are numbers, and counters
  have names that a request can name.

*The calls of a node* (`XrayNodeProofs`). `ExecCases` splits a call by its method, and one lemma per family
(`AlterInboundOutcomes`, `ManageInboundsOutcomes`, `ManageOutboundsOutcomes`, `ReadStatsOutcomes`,
`ManageRoutingOutcomes`) says which node and which reply may come of it; a user has an inbound in all of them
(`NodeOK`). `HttpOfStatus`, `HttpOfAbsence` and `HttpOfPresence` read `GrpcCodeToHttp` backwards: 404 only if
something is absent, 409 only if it is there. The proof found a mistake in an earlier form of the model:
two arms of a `CASE` in `AlterInbound` overlapped, and TLA+ then does not say which of them
counts; TLC takes the first, so no run could notice.

*The routes* (`HandlersProofs`). `RouteOfOp` gives the one route of each handler that changes something;
`OpForRoute`, `WholeFits`, `ParamFits` and `RestFits` what a path that fits it looks like, `CaptureOfParam` what
its parameter captures. `NodesChangeAsAsked` (with `LineOfAdd`, `LineOfParam`, `LineOfReset`) and
`PathsNameSubjects` need them because their statements are about raw paths.

*`IInv`.* It has `Types`, which includes that cache entries serve their keys, and of every request
`TaskOK`: a task past the extractors holds a client that fits its request, and nothing is wrong with the
request; a call was sent only for a request that passed every check, on a client that fits it; and `CallMade`: what is
on the wire, the node's reply, the bridge's reply and `execs` agree. `AtMostOnce` alone is not
inductive, as a second execution is excluded only by the state of the wire; nor is "a handler holds the right
client", which needs the entries of the shared cache (`LookupServes`) after any number of other requests. There is one lemma per action,
from `ArriveInv` to `NodeStepInv`.

*`ChannelInv`.* `IInv` says which node a held client serves, not who else is on its channel. `ChannelInv` adds
that keys and channels are distinct in the cache, that there is one client to a channel among
all that are cached or held (`OneToAChannel`), and that only suspended handlers hold any. A lookup keeps it by
`LookupGrants`, the lemma `NodeContextProofs` uses, also when a later extractor rejects the request
(`ExtractKeepsChannels`); every other step of a request keeps clients or lets them go (`LettingGo`), and a
restart lets go of all. With `IInv`, which knows what each client serves, `ChannelsKeptApart` follows.

*Refinement.* `StageStep` maps a step of one request; per action there is a lemma (`ExtractImplements`,
`ExecuteImplements`, ...). A refusal of the bridge must be one the service may give: `AcceptableTask` turns the
bridge's checks, in their order, into the requirements of the service. A call that is
executed is one the service may perform because `IInv` ties it to the request's own address and token.
`NextImplements` puts them together.

*`AInv`.* `SuccessIsTrue`, `ClientErrorIsFinal`, `EffectIsReported`, `AbsenceIsNoError` and `ReadsAreTrue` look at the
end of a request only. What carries them is `Concluded`, an answer is made of the reply to the request's own call or of a
refusal before any; and `Recorded`, what was recorded of an execution is what the reply says of it: of its status
(`SeenOK`), and of its payload, once the wrapper has made a body of it (`ShownOK`). `CallTells` and `CallShows` prove
the two from the outcomes of a call, and `AnswerMeans` sorts answers into five kinds (`Uncalled`, `Broken`, `Achieved`,
`Spared`, `Failed`), from which each of the five properties follows in a few lines.

*`CInv`.* `ResetCountsOnce` is about bodies of answers, and is not inductive: the units a lost reply
tells are in no answer and in no counter. `CInv` counts them where they are: at every node and
counter, what the replies of executed resets told (`UnitsTold`, answered or not) and what the counter reads are together no more
than was carried, and exactly that before the first restart (`Balances`). `CallTakes` says that a reset tells what it
takes and that nothing else takes any; `CountMore` that units told by different replies are different, so that cardinalities add up.
`ResetToldMeans` says that an answer tells what its reply told, or nothing (HEAD, or a counter that reads 0). The units are a set of pairs, not a sum over
the requests, in `ResetCountsOnce` itself: the proof can then reason about a cardinality, and needs no recursion over the requests.

TLC found no state of the instances `users`, `requests`, `stats` and `all_handlers` that violates `IInv` or
`AInv`, and none of the last two that violates `CInv`.

`StatNamesProofs` proves, for all emails and tags, of any length and with any `>` in them, all directions
and any number of counters:

| Theorem | Statement |
|---|---|
| `SplitLosesNothing` | of every text, the parts `Split` gives join to that text again, and none has `>>>` in it |
| `AlwaysCounters` | `Spec => []CountersOK`, the type of the counters |
| `NamesAlwaysFallApart` | `Spec => []PartsAreTheName` |
| `FieldsAlwaysTell` | `Spec => []FieldsTellApart` |
| `UsersAlwaysListed` | `Spec => []ListsTheUsers` |

They assume `StatNamesAssumption`: names are made of pieces, and the value of a missing part is no email
or tag.

*Argument.* `Split` is a recursive function on texts, and nothing is known of one before it is shown
to exist. The induction theorems of the library cannot be used (they take an operator as a
parameter), so induction is by least counterexample: `LeastExists` gives a shortest text that a statement fails for.
`SplitsExists` builds the function up to any length, `SplitsUnique` says that two such agree, `SplitExists` unites
them, and `SplitUnfolds` is the recursion as an equation. `FlattenSeq`, which `Join` is made of, gets the
same treatment (`FlattensExists`, `FlattenUnfolds`), and `JoinFirst` takes the first part off a join.
`SplitLosesNothing` is then the induction proper: the text is its first part, a separator and a shorter rest (`TextAroundCut`),
and the first part has no separator as the cut is the first one. That the fields are those the node
put together needs where the cut is: behind a part that has no `>>>` in it and does not end in `>`
the first separator is the one that was put there (`CutAfterPart`), so parts come off one by one
(`SplitOff`) until all four are known (`PlainParts`). What ends in `>` is where this fails, as it does in the code.
`UserNamesMatch` and `TagNamesDiffer` say, piece by piece, in which names the pattern `user>>>` is found: in those of
users, and not in those of inbounds but for tags that `ListsTheUsers` sets aside.

*Only model-checked.* The liveness properties `HandlersProceed` and `RepliesAreDelivered`: fairness and `ENABLED` are
beyond the prover.

## 5. Not modelled, and the plan

Not modelled: TLS, DNS, connection management and flow control of tonic; protobuf encoding and
base64; the generated code (`proto.rs`); tracing other than above; panics (none is reachable from a
request). Values of `X-Node-Domain` are host names, or not accepted in a URI
(`InvalidDomain`): what else a URI may have between `https://` and the port is not
considered. The `null` of an optional setting counts as malformed, as it is for the code. The case of the
names of protocols, ciphers, securities and networks, which the code folds, is not told apart. Of the routing
context of `test_route` the user, and of its answer everything but the network, are left
out. The `persisted: false` of the answers is modelled by what it means: a restart forgets.

Done: all components of section 1, the abstract `ClientPool` and `BridgeService`, and the proofs of
section 4, which state every safety property of the runs. What could be added:

1. That the history variable of `NodeContext` can be carried through `Bridge`, so that
   `MostRecentlyUsed` and `ChannelReused` are stated of the cache inside `Bridge` too. The same operator,
   `GetOrCreate`, makes the step in both modules; `ChannelsKeptApart` is stated and proved of `Bridge` itself.
2. That a `BearerAuth` verdict and `Authorized` of `Handlers` agree, as a theorem that uses both modules. It is
   one definition apart: `AcceptsExactly` is the equality by which `Authorized` is defined.
