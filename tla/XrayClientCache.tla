--------------------------- MODULE XrayClientCache ---------------------------
(***************************************************************************)
(* The cache of gRPC clients of src/nodes.rs: an LRU map from              *)
(* (domain, port, token) to an XrayClient, and get_or_create, the only     *)
(* operation the bridge performs on it.  The cache is a sequence of        *)
(* entries, the most recently used one first, as the lru crate orders it.  *)
(* get_or_create runs under one mutex and never awaits, so it is a         *)
(* function of the cache and its arguments: a step of the modules that     *)
(* use it.                                                                 *)
(***************************************************************************)
EXTENDS NodeHeaders, Sequences, FiniteSets

CONSTANTS
  Chan,           \* identities of tonic channels
  NoClient,       \* "no XrayClient"
  MaxEntries      \* capacity of the cache (DEFAULT_MAX_ENTRIES in the code)

ASSUME CacheAssumption ==
  /\ MaxEntries \in Nat \ {0}
  /\ InvalidDomain \subseteq Domain

(* A client: a handle of a channel, built lazily for one URI, with the     *)
(* token it sends as x-api-token and a diagnostic label.                   *)
XrayClient ==
  [chan : Chan, domain : Domain, port : Port, token : Token,
   name : Name \cup {NoName}]

Entry == [key : Key, client : XrayClient]

ASSUME NoClientAssumption == NoClient \notin XrayClient

-----------------------------------------------------------------------------

KeysOf(cache) == {cache[i].key : i \in DOMAIN cache}

ChansOf(cache) == {cache[i].client.chan : i \in DOMAIN cache}

(* What every client serves: the address its channel was built for and the *)
(* token it carries.                                                       *)
Serves(client, key) ==
  /\ client.domain = key.domain
  /\ client.port = key.port
  /\ client.token = key.token

(* The element at position p of a list moved to the front.                 *)
MoveToFront(list, p) ==
  [i \in 1..Len(list) |->
     IF i = 1 THEN list[p] ELSE IF i <= p THEN list[i-1] ELSE list[i]]

(* An element put in front of a list of which at most n elements are kept. *)
PushFront(list, e, n) ==
  [i \in 1..(IF Len(list) < n THEN Len(list) + 1 ELSE n) |->
     IF i = 1 THEN e ELSE list[i-1]]

(* Mutants: the token, or the port, is not part of the key; no lookup      *)
(* ever finds anything.                                                    *)
HitsAnyToken(cache, key) ==
  {i \in 1..Len(cache) : /\ cache[i].key.domain = key.domain
                         /\ cache[i].key.port = key.port}

HitsAnyPort(cache, key) ==
  {i \in 1..Len(cache) : /\ cache[i].key.domain = key.domain
                         /\ cache[i].key.token = key.token}

NoHits(cache, key) == {i \in 1..Len(cache) : FALSE}

(* Where LruCache::get finds key.                                          *)
Hits(cache, key) == {i \in 1..Len(cache) : cache[i].key = key}

(* Mutant: a hit does not count as a use.                                  *)
TouchNothing(cache, p) == cache

(* LruCache::get on a hit at position p: the entry becomes the most        *)
(* recently used one.                                                      *)
Touch(cache, p) == MoveToFront(cache, p)

(* Mutants: one entry too many is kept; a full cache is emptied.           *)
PutTooMany(cache, entry) == PushFront(cache, entry, MaxEntries + 1)

PutClearing(cache, entry) ==
  IF Len(cache) < MaxEntries THEN PushFront(cache, entry, MaxEntries)
  ELSE <<entry>>

(* LruCache::put of an absent key: the entry becomes the most recently     *)
(* used one; a full cache drops its least recently used entry.             *)
Put(cache, entry) == PushFront(cache, entry, MaxEntries)

(* Mutant: the capacity test is off by one.                                *)
ToDisplaceOffByOne(cache) ==
  IF Len(cache) > MaxEntries THEN {cache[Len(cache)].key} ELSE {}

(* The key the eviction message names: the least recently used one, when   *)
(* the cache is full at a miss.  It is chosen before the URI is parsed.    *)
ToDisplace(cache) ==
  IF Len(cache) >= MaxEntries THEN {cache[Len(cache)].key} ELSE {}

NewClient(key, name, c) ==
  [chan |-> c, domain |-> key.domain, port |-> key.port, token |-> key.token,
   name |-> name]

(***************************************************************************)
(* get_or_create: the outcomes of a call for key with label name, where    *)
(* live is the set of channels that some handle still refers to.  An       *)
(* outcome is the cache it leaves, the client it returns (NoClient for     *)
(* AppError::Internal) and the keys its eviction message names.            *)
(***************************************************************************)
GetOrCreate(cache, live, key, name) ==
  LET hits == Hits(cache, key)
  IN  IF hits # {}
      THEN {[cache |-> Touch(cache, p), client |-> cache[p].client,
             logged |-> {}] : p \in hits}
      ELSE IF key.domain \in InvalidDomain
      THEN {[cache |-> cache, client |-> NoClient,
             logged |-> ToDisplace(cache)]}
      ELSE {[cache  |-> Put(cache, [key |-> key,
                                    client |-> NewClient(key, name, c)]),
             client |-> NewClient(key, name, c),
             logged |-> ToDisplace(cache)] : c \in Chan \ live}
==============================================================================
