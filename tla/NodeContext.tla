----------------------------- MODULE NodeContext -----------------------------
(***************************************************************************)
(* The NodeContext extractor of src/nodes.rs at work: concurrent requests  *)
(* turn their X-Node-* headers into a client of the shared cache, hold a   *)
(* clone of it for as long as their handler runs, and drop it.             *)
(*                                                                         *)
(* recency is a history variable: every key ever used, most recently used  *)
(* first, never truncated.  It is the reference the LRU order is judged    *)
(* by.  logged holds the keys the eviction message of the last step named. *)
(***************************************************************************)
EXTENDS XrayClientCache

CONSTANTS
  Request,   \* concurrent requests (slots; a slot is reused once it is free)
  Headers    \* the X-Node-* headers a request may carry

VARIABLES
  cache,     \* XrayClientCache.inner
  headers,   \* headers of the request in a slot, Absent when the slot is free
  held,      \* the client its handler holds
  result,    \* how the extractor ended
  recency,   \* history: all keys used so far, most recently used first
  logged     \* keys named by the eviction message of the last step

vars == <<cache, headers, held, result, recency, logged>>

ASSUME HeadersAssumption ==
  /\ Absent \notin Headers
  /\ \A h \in Headers :
       /\ h.domain \in Domain \cup {Absent}
       /\ h.token \in Token \cup {Absent}
       /\ h.name \in Name \cup {NoName}

(* A channel lives while the cache or a handler holds a handle of it.      *)
Live == ChansOf(cache) \cup
        {held[r].chan : r \in {q \in Request : held[q] # NoClient}}

(* A use of key: it goes to the front of the list of all keys ever used.   *)
Used(keys, key) ==
  IF \E p \in 1..Len(keys) : keys[p] = key
  THEN MoveToFront(keys, CHOOSE p \in 1..Len(keys) : keys[p] = key)
  ELSE PushFront(keys, key, Len(keys) + 1)

-----------------------------------------------------------------------------

Init ==
  /\ cache = << >>
  /\ headers = [r \in Request |-> Absent]
  /\ held = [r \in Request |-> NoClient]
  /\ result = [r \in Request |-> "none"]
  /\ recency = << >>
  /\ logged = {}

(* A required header is missing: 400, and the cache is not consulted.      *)
MissingHeader(r, h) ==
  /\ headers[r] = Absent
  /\ ~HeaderOK(h)
  /\ headers' = [headers EXCEPT ![r] = h]
  /\ result' = [result EXCEPT ![r] = "invalid_argument"]
  /\ logged' = {}
  /\ UNCHANGED <<cache, held, recency>>

(* from_request_parts with both headers: one atomic get_or_create.         *)
FromRequestParts(r, h) ==
  /\ headers[r] = Absent
  /\ HeaderOK(h)
  /\ headers' = [headers EXCEPT ![r] = h]
  /\ \E o \in GetOrCreate(cache, Live, KeyOf(h), h.name) :
       /\ cache' = o.cache
       /\ held' = [held EXCEPT ![r] = o.client]
       /\ result' = [result EXCEPT ![r] =
                       IF o.client = NoClient THEN "internal" ELSE "client"]
       /\ recency' = IF o.client = NoClient THEN recency
                     ELSE Used(recency, KeyOf(h))
       /\ logged' = o.logged

(* The request ends, however it ends: its clone of the client is dropped.  *)
Drop(r) ==
  /\ headers[r] # Absent
  /\ headers' = [headers EXCEPT ![r] = Absent]
  /\ held' = [held EXCEPT ![r] = NoClient]
  /\ result' = [result EXCEPT ![r] = "none"]
  /\ logged' = {}
  /\ UNCHANGED <<cache, recency>>

Next ==
  \E r \in Request :
    \/ \E h \in Headers : MissingHeader(r, h) \/ FromRequestParts(r, h)
    \/ Drop(r)

Spec == Init /\ [][Next]_vars

-----------------------------------------------------------------------------
(* Types of the state of nodes.rs.                                         *)
TypeOK ==
  /\ cache \in Seq(Entry)
  /\ headers \in [Request -> Headers \cup {Absent}]
  /\ held \in [Request -> XrayClient \cup {NoClient}]
  /\ result \in [Request -> {"none", "client", "invalid_argument", "internal"}]
  /\ recency \in Seq(Key)
  /\ logged \in SUBSET Key

(* A handler only ever holds a client that reaches the node, and carries   *)
(* the token, its own request named, whatever other requests have put in   *)
(* the shared cache or pushed out of it meanwhile (nodes.rs:50-95).        *)
HeldServesRequest ==
  \A r \in Request : held[r] # NoClient => Serves(held[r], KeyOf(headers[r]))

(* Two requests, or a request and a cached entry, are on one channel only  *)
(* if they are for the same domain, port and token: a channel is never     *)
(* lent to another node or token while somebody still holds it.            *)
ChannelsNotShared ==
  /\ \A r, q \in Request :
       held[r] # NoClient /\ held[q] # NoClient /\ held[r].chan = held[q].chan
         => Serves(held[r], KeyOf(headers[q]))
  /\ \A r \in Request, i \in 1..Len(cache) :
       held[r] # NoClient /\ held[r].chan = cache[i].client.chan
         => Serves(held[r], cache[i].key)
  /\ \A i, j \in 1..Len(cache) :
       cache[i].client.chan = cache[j].client.chan => i = j

(* The cache holds exactly the MaxEntries most recently used keys, in the  *)
(* order of their last use, each key once (nodes.rs:53, 94: get promotes,  *)
(* put displaces the least recently used entry; failed lookups count for   *)
(* nothing).                                                               *)
MostRecentlyUsed ==
  /\ Len(cache) = IF Len(recency) < MaxEntries THEN Len(recency) ELSE MaxEntries
  /\ \A i \in 1..Len(cache) : cache[i].key = recency[i]

(* While a key stays cached its channel stays the same, and a request for  *)
(* a key that was cached is given that channel and opens none.  The unit   *)
(* test of reuse compares tokens only and could not tell (nodes.rs:189).   *)
ChannelReused ==
  [][/\ \A i \in 1..Len(cache), j \in 1..Len(cache') :
          cache[i].key = cache'[j].key =>
            cache[i].client.chan = cache'[j].client.chan
     /\ \A r \in Request, i \in 1..Len(cache) :
          /\ held[r] = NoClient
          /\ held'[r] # NoClient
          /\ cache[i].key = KeyOf(headers'[r])
          => held'[r].chan = cache[i].client.chan]_vars

(* No entry leaves the cache unless the cache is full and another takes    *)
(* its place in the same step; then it is one entry, the least recently    *)
(* used, and the eviction message names it (nodes.rs:57-67).               *)
DisplacedIsLogged ==
  [][LET gone == KeysOf(cache) \ KeysOf(cache')
     IN  gone # {} => /\ gone = logged'
                      /\ gone = {recency[MaxEntries]}
                      /\ Len(cache') = MaxEntries]_vars

(* nodes.rs:58 says of the eviction message: "We log which entry is being  *)
(* displaced when the cache is full."  Every key it names is displaced.    *)
LoggedIsDisplaced == [][logged' \cap KeysOf(cache') = {}]_vars

(* nodes.rs:22 says of XrayClient.name, the target every handler's log     *)
(* line carries: "Diagnostic label (from X-Node-Name header, if provided)" *)
(* and README.md:100 calls the header the audit log label of the request:   *)
(* the label a handler logs is the one its own request sent.               *)
LabelIsOwn ==
  \A r \in Request : held[r] # NoClient => held[r].name = headers[r].name
-----------------------------------------------------------------------------
(* The abstract pool this state stands for: recency order, labels, results *)
(* and the eviction message are forgotten.                                 *)
AskedKeys == {KeyOf(h) : h \in {g \in Headers : HeaderOK(g)}}

PooledChan(key) ==
  (CHOOSE e \in {cache[i] : i \in DOMAIN cache} : e.key = key).client.chan

PoolNow == [k \in KeysOf(cache) |-> PooledChan(k)]

HoldsNow ==
  [r \in Request |->
     IF held[r] = NoClient THEN NoClient
     ELSE [key |-> KeyOf(headers[r]), chan |-> held[r].chan]]

(* "No client" is not what somebody holds either.                          *)
ASSUME NothingHeldAssumption == NoClient \notin [key : Key, chan : Chan]

Pool == INSTANCE ClientPool
          WITH pool <- PoolNow, holds <- HoldsNow, Nothing <- NoClient,
               Key <- AskedKeys

(* The LRU cache implements the pool: concurrent requests see a bounded    *)
(* pool that shares one channel per key (nodes.rs:26-96).                  *)
ImplementsPool == Pool!Spec
==============================================================================
