-------------------------- MODULE NodeContextProofs --------------------------
(***************************************************************************)
(* Theorems of NodeContext, for every set of requests and headers and      *)
(* every capacity of the cache.                                            *)
(***************************************************************************)
EXTENDS NodeContext, XrayClientCacheProofs, FiniteSetTheorems

-----------------------------------------------------------------------------
(* The key of acceptable headers is a key.                                 *)
LEMMA KeyOfHeaders ==
  ASSUME NEW h \in Headers, HeaderOK(h)
  PROVE  KeyOf(h) \in Key /\ h.name \in Name \cup {NoName}
BY KeyOfType, HeadersAssumption DEF HeaderOK

(* recency is a list of keys.                                              *)
LEMMA UsedType ==
  ASSUME NEW keys \in Seq(Key), NEW key \in Key
  PROVE  Used(keys, key) \in Seq(Key)
<1>1. CASE \E p \in 1..Len(keys) : keys[p] = key
  <2>1. (CHOOSE p \in 1..Len(keys) : keys[p] = key) \in 1..Len(keys)
    BY <1>1
  <2> QED
    BY <1>1, <2>1, MoveToFrontProps DEF Used
<1>2. CASE ~\E p \in 1..Len(keys) : keys[p] = key
  <2>1. Len(keys) + 1 \in Nat \ {0}
    BY LenProperties
  <2>2. PushFront(keys, key, Len(keys) + 1) \in Seq(Key)
    BY <2>1, PushFrontProps
  <2> QED
    BY <1>2, <2>2 DEF Used
<1> QED
  BY <1>1, <1>2

(* The state of nodes.rs and its callers always has its type: TypeOK is    *)
(* an invariant.                                                           *)
THEOREM TypeCorrect == Spec => []TypeOK
<1>1. Init => TypeOK
  BY EmptySeq DEF Init, TypeOK
<1>2. TypeOK /\ [Next]_vars => TypeOK'
  <2> SUFFICES ASSUME TypeOK, [Next]_vars
               PROVE  TypeOK'
    OBVIOUS
  <2> USE DEF TypeOK
  <2>1. CASE UNCHANGED vars
    BY <2>1 DEF vars
  <2>2. ASSUME NEW r \in Request, NEW h \in Headers, MissingHeader(r, h)
        PROVE  TypeOK'
    BY <2>2 DEF MissingHeader
  <2>3. ASSUME NEW r \in Request, NEW h \in Headers, FromRequestParts(r, h)
        PROVE  TypeOK'
    <3>1. HeaderOK(h) /\ KeyOf(h) \in Key /\ h.name \in Name \cup {NoName}
      BY <2>3, KeyOfHeaders DEF FromRequestParts
    <3>2. PICK o \in GetOrCreate(cache, Live, KeyOf(h), h.name) :
            /\ cache' = o.cache
            /\ held' = [held EXCEPT ![r] = o.client]
            /\ result' = [result EXCEPT ![r] =
                            IF o.client = NoClient THEN "internal" ELSE "client"]
            /\ recency' = IF o.client = NoClient THEN recency
                          ELSE Used(recency, KeyOf(h))
            /\ logged' = o.logged
      BY <2>3 DEF FromRequestParts
    <3>3. /\ o.cache \in Seq(Entry)
          /\ o.client \in XrayClient \cup {NoClient}
          /\ o.logged \in SUBSET Key
      BY <3>1, OutcomeTypes
    <3>4. recency' \in Seq(Key)
      BY <3>1, <3>2, UsedType
    <3>5. headers' \in [Request -> Headers \cup {Absent}]
      BY <2>3 DEF FromRequestParts
    <3> QED
      BY <3>2, <3>3, <3>4, <3>5
  <2>4. ASSUME NEW r \in Request, Drop(r)
        PROVE  TypeOK'
    BY <2>4 DEF Drop
  <2> QED
    BY <2>1, <2>2, <2>3, <2>4 DEF Next
<1> QED
  BY <1>1, <1>2, PTL DEF Spec

-----------------------------------------------------------------------------
(* The strengthening under which the two channel properties are inductive: *)
(* what each entry serves, each key and each channel once in the cache,    *)
(* and one client per channel among all that hold one.                     *)
FreeHoldsNothing ==
  \A r \in Request : headers[r] = Absent => held[r] = NoClient

(* A client that is held and the cached one of its channel are one.        *)
HeldIsCached ==
  \A r \in Request, i \in 1..Len(cache) :
    held[r] # NoClient /\ held[r].chan = cache[i].client.chan
      => held[r] = cache[i].client

(* So are two that are held.                                               *)
HeldIsShared ==
  \A r, q \in Request :
    held[r] # NoClient /\ held[q] # NoClient /\ held[r].chan = held[q].chan
      => held[r] = held[q]

(* All of this is inductive.                                               *)
ChannelInv ==
  /\ EntriesOK(cache)
  /\ FreeHoldsNothing
  /\ HeldServesRequest
  /\ HeldIsCached
  /\ HeldIsShared

(* The clients in use.                                                     *)
Lent == {held[q] : q \in {r \in Request : held[r] # NoClient}}

(* What a successful lookup gives: its client serves the key, and whoever  *)
(* is on the channel of that client, or will be found on it in the cache,  *)
(* has that very client.                                                   *)
LEMMA Granted ==
  ASSUME TypeOK, ChannelInv, NEW key \in Key, NEW name \in Name \cup {NoName},
         NEW o \in GetOrCreate(cache, Live, key, name), o.client # NoClient
  PROVE  /\ EntriesOK(o.cache)
         /\ Serves(o.client, key)
         /\ OneToAChannel(o.cache, Lent \cup {o.client})
<1>1. cache \in Seq(Entry) /\ EntriesOK(cache)
  BY DEF TypeOK, ChannelInv
<1>2. OneToAChannel(cache, Lent)
  BY DEF OneToAChannel, Lent, ChannelInv, HeldIsCached, HeldIsShared
<1>3. ChansOf(cache) \subseteq Live /\ \A c \in Lent : c.chan \in Live
  BY DEF Lent, Live
<1> QED
  BY <1>1, <1>2, <1>3, LookupGrants

(* ChannelInv is inductive.                                                *)
LEMMA ChannelInvInit == Init => ChannelInv
<1> SUFFICES ASSUME Init PROVE ChannelInv
  OBVIOUS
<1>1. cache = << >> /\ \A r \in Request : held[r] = NoClient
  BY DEF Init
<1>2. \A i \in 1..Len(cache) : FALSE
  BY <1>1, EmptySeq
<1> QED
  BY <1>1, <1>2 DEF ChannelInv, EntriesOK, EntriesServe, KeysDistinct,
                    ChansDistinct, FreeHoldsNothing, HeldServesRequest,
                    HeldIsCached, HeldIsShared

(* Every step keeps ChannelInv: a lookup by Granted, a failed lookup, a    *)
(* refused request and a dropped client because they hand nothing out.     *)
LEMMA ChannelInvStep ==
  TypeOK /\ ChannelInv /\ [Next]_vars => ChannelInv'
<1> SUFFICES ASSUME TypeOK, ChannelInv, [Next]_vars
             PROVE  ChannelInv'
  OBVIOUS
<1> USE DEF ChannelInv
<1>1. CASE UNCHANGED vars
  BY <1>1 DEF vars, FreeHoldsNothing, HeldServesRequest, HeldIsCached,
              HeldIsShared
<1>2. ASSUME NEW r \in Request, NEW h \in Headers, MissingHeader(r, h)
      PROVE  ChannelInv'
  <2>1. /\ cache' = cache /\ held' = held /\ held[r] = NoClient
        /\ headers' = [headers EXCEPT ![r] = h] /\ h # Absent
    BY <1>2, HeadersAssumption DEF MissingHeader, FreeHoldsNothing
  <2>2. EntriesOK(cache)' /\ HeldIsCached' /\ HeldIsShared'
    BY <2>1 DEF HeldIsCached, HeldIsShared
  <2>3. FreeHoldsNothing' /\ HeldServesRequest'
    BY <2>1 DEF FreeHoldsNothing, HeldServesRequest, TypeOK
  <2> QED
    BY <2>2, <2>3
<1>3. ASSUME NEW r \in Request, NEW h \in Headers, FromRequestParts(r, h)
      PROVE  ChannelInv'
  <2>1. /\ h # Absent /\ KeyOf(h) \in Key /\ h.name \in Name \cup {NoName}
        /\ headers' = [headers EXCEPT ![r] = h]
    BY <1>3, KeyOfHeaders, HeadersAssumption DEF FromRequestParts
  <2>2. PICK o \in GetOrCreate(cache, Live, KeyOf(h), h.name) :
          cache' = o.cache /\ held' = [held EXCEPT ![r] = o.client]
    BY <1>3 DEF FromRequestParts
  <2>3. /\ held'[r] = o.client /\ headers'[r] = h
        /\ \A q \in Request \ {r} : held'[q] = held[q] /\ headers'[q] = headers[q]
    BY <2>1, <2>2 DEF TypeOK
  <2>4. CASE o.client = NoClient
    <3>1. cache' = cache
      BY <2>1, <2>2, <2>4, NoClientIsFailure DEF TypeOK, IsFailure
    <3>2. EntriesOK(cache)'
      BY <3>1
    <3>3. FreeHoldsNothing' /\ HeldServesRequest'
      BY <2>1, <2>3, <2>4 DEF FreeHoldsNothing, HeldServesRequest
    <3>4. HeldIsCached' /\ HeldIsShared'
      BY <2>3, <2>4, <3>1 DEF HeldIsCached, HeldIsShared
    <3> QED
      BY <3>2, <3>3, <3>4
  <2>5. CASE o.client # NoClient
    <3>1. /\ EntriesOK(o.cache)
          /\ Serves(o.client, KeyOf(h))
          /\ OneToAChannel(o.cache, Lent \cup {o.client})
      BY <2>1, <2>5, Granted
    <3>2. EntriesOK(cache)'
      BY <2>2, <3>1
    <3>3. FreeHoldsNothing' /\ HeldServesRequest'
      BY <2>1, <2>3, <3>1 DEF FreeHoldsNothing, HeldServesRequest
    <3>4. \A q \in Request :
            held'[q] # NoClient => held'[q] \in Lent \cup {o.client}
      BY <2>3 DEF Lent
    <3>5. HeldIsCached' /\ HeldIsShared'
      BY <2>2, <3>1, <3>4 DEF OneToAChannel, HeldIsCached, HeldIsShared
    <3> QED
      BY <3>2, <3>3, <3>5
  <2> QED
    BY <2>4, <2>5
<1>4. ASSUME NEW r \in Request, Drop(r)
      PROVE  ChannelInv'
  <2>1. /\ cache' = cache
        /\ held'[r] = NoClient
        /\ \A q \in Request \ {r} : held'[q] = held[q] /\ headers'[q] = headers[q]
    BY <1>4 DEF Drop, TypeOK
  <2>2. EntriesOK(cache)'
    BY <2>1
  <2>3. FreeHoldsNothing' /\ HeldServesRequest'
    BY <2>1 DEF FreeHoldsNothing, HeldServesRequest
  <2>4. HeldIsCached' /\ HeldIsShared'
    BY <2>1 DEF HeldIsCached, HeldIsShared
  <2> QED
    BY <2>2, <2>3, <2>4
<1> QED
  BY <1>1, <1>2, <1>3, <1>4 DEF Next

(* Whoever holds a channel, or finds it in the cache, is on it for one and *)
(* the same domain, port and token.                                        *)
LEMMA ChannelInvImplies == ChannelInv => ChannelsNotShared
<1> SUFFICES ASSUME ChannelInv PROVE ChannelsNotShared
  OBVIOUS
<1>1. \A r, q \in Request :
        held[r] # NoClient /\ held[q] # NoClient /\ held[r].chan = held[q].chan
          => Serves(held[r], KeyOf(headers[q]))
  BY DEF ChannelInv, HeldIsShared, HeldServesRequest
<1>2. \A r \in Request, i \in 1..Len(cache) :
        held[r] # NoClient /\ held[r].chan = cache[i].client.chan
          => Serves(held[r], cache[i].key)
  BY DEF ChannelInv, HeldIsCached, EntriesOK, EntriesServe
<1> QED
  BY <1>1, <1>2 DEF ChannelInv, ChannelsNotShared, EntriesOK, ChansDistinct

(* HeldServesRequest is an invariant: the client a handler holds reaches   *)
(* the node, with the token, of its own request (nodes.rs:50-95).          *)
THEOREM HeldAlwaysServesRequest == Spec => []HeldServesRequest
<1>1. TypeOK /\ ChannelInv /\ [Next]_vars => ChannelInv'
  BY ChannelInvStep
<1>2. ChannelInv => HeldServesRequest
  BY DEF ChannelInv
<1> QED
  BY <1>1, <1>2, ChannelInvInit, TypeCorrect, PTL DEF Spec

(* ChannelsNotShared is an invariant: a channel is never lent for another  *)
(* node or token while somebody still holds it (nodes.rs:50-95).           *)
THEOREM ChannelsNeverShared == Spec => []ChannelsNotShared
<1>1. TypeOK /\ ChannelInv /\ [Next]_vars => ChannelInv'
  BY ChannelInvStep
<1> QED
  BY <1>1, ChannelInvInit, ChannelInvImplies, TypeCorrect, PTL DEF Spec

-----------------------------------------------------------------------------
(* The order of the cache.  It is inductive once no key is in recency more *)
(* than once.                                                              *)
Mirrors(store, keys) ==
  /\ Len(store) = IF Len(keys) < MaxEntries THEN Len(keys) ELSE MaxEntries
  /\ \A i \in 1..Len(store) : store[i].key = keys[i]

(* No key twice.                                                           *)
Distinct(keys) == \A i, j \in 1..Len(keys) : keys[i] = keys[j] => i = j

(* The two orders agree.                                                   *)
RecencyInv == Mirrors(cache, recency) /\ Distinct(recency)

(* A hit moves the key to the front of both lists.                         *)
LEMMA HitMirrors ==
  ASSUME NEW store \in Seq(Entry), NEW keys \in Seq(Key),
         Mirrors(store, keys), Distinct(keys),
         NEW p \in 1..Len(store)
  PROVE  /\ Mirrors(MoveToFront(store, p), Used(keys, store[p].key))
         /\ Distinct(Used(keys, store[p].key))
<1> DEFINE key == store[p].key
           new == MoveToFront(store, p)
           used == MoveToFront(keys, p)
<1>1. /\ Len(store) \in Nat /\ Len(keys) \in Nat /\ MaxEntries \in Nat \ {0}
      /\ Len(store) <= Len(keys)
      /\ \A i \in 1..Len(store) : store[i].key = keys[i]
  BY LenProperties, CacheAssumption DEF Mirrors
<1>2. p \in 1..Len(keys) /\ keys[p] = key
  BY <1>1
<1>3. Used(keys, key) = used
  <2>1. \A q \in 1..Len(keys) : keys[q] = key => q = p
    BY <1>2 DEF Distinct
  <2>2. (CHOOSE q \in 1..Len(keys) : keys[q] = key) = p
    BY <1>2, <2>1
  <2> QED
    BY <1>2, <2>2 DEF Used
<1>4. /\ Len(new) = Len(store)
      /\ \A i \in 1..Len(store) :
           new[i] = IF i = 1 THEN store[p]
                    ELSE IF i <= p THEN store[i-1] ELSE store[i]
  BY MoveToFrontProps
<1>5. /\ Len(used) = Len(keys)
      /\ \A i \in 1..Len(keys) :
           used[i] = IF i = 1 THEN keys[p]
                     ELSE IF i <= p THEN keys[i-1] ELSE keys[i]
  BY <1>2, MoveToFrontProps
<1>6. \A i \in 1..Len(keys) : From(p, i) \in 1..Len(keys) /\ used[i] = keys[From(p, i)]
  BY <1>2, FromProps
<1>7. \A i, j \in 1..Len(keys) : From(p, i) = From(p, j) => i = j
  BY <1>2, FromProps
<1> HIDE DEF key, new, used
<1>8. Distinct(used)
  <2> SUFFICES ASSUME NEW i \in 1..Len(used), NEW j \in 1..Len(used),
                      used[i] = used[j]
               PROVE  i = j
    BY DEF Distinct
  <2>1. From(p, i) = From(p, j)
    BY <1>5, <1>6 DEF Distinct
  <2> QED
    BY <1>5, <1>7, <2>1
<1>9. \A i \in 1..Len(store) : new[i].key = used[i]
  <2> SUFFICES ASSUME NEW i \in 1..Len(store) PROVE new[i].key = used[i]
    OBVIOUS
  <2>1. CASE i = 1
    BY <1>1, <1>4, <1>5, <2>1
  <2>2. CASE i # 1 /\ i <= p
    <3>1. new[i] = store[i-1] /\ used[i] = keys[i-1] /\ i-1 \in 1..Len(store)
      BY <1>1, <1>4, <1>5, <2>2
    <3> QED
      BY <1>1, <3>1
  <2>3. CASE i # 1 /\ ~(i <= p)
    BY <1>1, <1>4, <1>5, <2>3
  <2> QED
    BY <2>1, <2>2, <2>3
<1>10. Mirrors(new, used)
  BY <1>4, <1>5, <1>9 DEF Mirrors
<1> QED
  BY <1>3, <1>8, <1>10 DEF key, new, used

(* A miss puts the key in front of both lists; recency may have it further *)
(* down, in the part the cache has forgotten.                              *)
LEMMA MissMirrors ==
  ASSUME NEW store \in Seq(Entry), NEW keys \in Seq(Key),
         Mirrors(store, keys), Distinct(keys),
         NEW e \in Entry,
         \A i \in 1..Len(store) : store[i].key # e.key
  PROVE  /\ Mirrors(PushFront(store, e, MaxEntries), Used(keys, e.key))
         /\ Distinct(Used(keys, e.key))
<1> DEFINE key == e.key
           new == PushFront(store, e, MaxEntries)
           used == Used(keys, key)
<1>1. /\ Len(store) \in Nat /\ Len(keys) \in Nat /\ MaxEntries \in Nat \ {0}
      /\ Len(store) = IF Len(keys) < MaxEntries THEN Len(keys) ELSE MaxEntries
      /\ \A i \in 1..Len(store) : store[i].key = keys[i]
      /\ key \in Key
  BY LenProperties, CacheAssumption DEF Mirrors, Entry
<1>2. /\ Len(new) = IF Len(store) < MaxEntries THEN Len(store) + 1
                    ELSE MaxEntries
      /\ \A i \in 1..Len(new) : new[i] = IF i = 1 THEN e ELSE store[i-1]
  BY <1>1, PushFrontProps
<1>3. CASE \E q \in 1..Len(keys) : keys[q] = key
  <2> DEFINE p == CHOOSE q \in 1..Len(keys) : keys[q] = key
  <2>1. p \in 1..Len(keys) /\ keys[p] = key /\ used = MoveToFront(keys, p)
    BY <1>3 DEF Used
  <2> HIDE DEF p, key
  <2>2. p > Len(store) /\ Len(store) = MaxEntries
    BY <1>1, <2>1 DEF key
  <2>3. /\ Len(used) = Len(keys)
        /\ \A i \in 1..Len(keys) :
             used[i] = IF i = 1 THEN keys[p]
                       ELSE IF i <= p THEN keys[i-1] ELSE keys[i]
    BY <2>1, MoveToFrontProps
  <2>9. p \in 1..Len(keys)
    BY <2>1
  <2>5. /\ \A i \in 1..Len(keys) :
             /\ From(p, i) \in 1..Len(keys)
             /\ MoveToFront(keys, p)[i] = keys[From(p, i)]
        /\ \A i, j \in 1..Len(keys) : From(p, i) = From(p, j) => i = j
    BY <2>9, FromProps
  <2> HIDE DEF new, used
  <2>4. \A i \in 1..Len(keys) :
          From(p, i) \in 1..Len(keys) /\ used[i] = keys[From(p, i)]
    BY <2>1, <2>5
  <2>6. Distinct(used)
    <3> SUFFICES ASSUME NEW i \in 1..Len(used), NEW j \in 1..Len(used),
                        used[i] = used[j]
                 PROVE  i = j
      BY DEF Distinct
    <3>1. From(p, i) = From(p, j)
      BY <2>3, <2>4 DEF Distinct
    <3> QED
      BY <2>3, <2>5, <3>1
  <2>7. \A i \in 1..Len(new) : new[i].key = used[i]
    <3> SUFFICES ASSUME NEW i \in 1..Len(new) PROVE new[i].key = used[i]
      OBVIOUS
    <3>1. Len(new) = MaxEntries /\ i <= p /\ i \in 1..Len(keys)
      BY <1>1, <1>2, <2>1, <2>2
    <3>2. CASE i = 1
      BY <1>2, <2>1, <2>3, <3>1, <3>2 DEF key
    <3>3. CASE i # 1
      <4>1. new[i] = store[i-1] /\ used[i] = keys[i-1] /\ i-1 \in 1..Len(store)
        BY <1>1, <1>2, <2>2, <2>3, <3>1, <3>3
      <4> QED
        BY <1>1, <4>1
    <3> QED
      BY <3>2, <3>3
  <2>8. Mirrors(new, used)
    BY <1>1, <1>2, <2>2, <2>3, <2>7 DEF Mirrors
  <2> QED
    BY <2>6, <2>8 DEF new, used, key
<1>4. CASE ~\E q \in 1..Len(keys) : keys[q] = key
  <2>1. used = PushFront(keys, key, Len(keys) + 1)
    BY <1>4 DEF Used
  <2>3. /\ Len(used) = Len(keys) + 1
        /\ \A i \in 1..Len(used) : used[i] = IF i = 1 THEN key ELSE keys[i-1]
    BY <1>1, <2>1, PushAllProps
  <2> HIDE DEF key, new, used
  <2>4. \A i \in 1..Len(used) : i # 1 => i-1 \in 1..Len(keys) /\ used[i] = keys[i-1]
    BY <1>1, <2>3
  <2>5. Distinct(used)
    <3> SUFFICES ASSUME NEW i \in 1..Len(used), NEW j \in 1..Len(used),
                        used[i] = used[j]
                 PROVE  i = j
      BY DEF Distinct
    <3>1. CASE i = 1 \/ j = 1
      BY <1>4, <2>3, <2>4, <3>1
    <3>2. CASE i # 1 /\ j # 1
      <4>1. i - 1 = j - 1
        BY <2>4, <3>2 DEF Distinct
      <4> QED
        BY <1>1, <2>3, <4>1
    <3> QED
      BY <3>1, <3>2
  <2>6. \A i \in 1..Len(new) : new[i].key = used[i]
    <3> SUFFICES ASSUME NEW i \in 1..Len(new) PROVE new[i].key = used[i]
      OBVIOUS
    <3>1. i \in 1..Len(used)
      BY <1>1, <1>2, <2>3
    <3>2. CASE i = 1
      BY <1>2, <2>3, <3>1, <3>2 DEF key
    <3>3. CASE i # 1
      <4>1. new[i] = store[i-1] /\ used[i] = keys[i-1] /\ i-1 \in 1..Len(store)
        BY <1>1, <1>2, <2>3, <3>1, <3>3
      <4> QED
        BY <1>1, <4>1
    <3> QED
      BY <3>2, <3>3
  <2>7. Mirrors(new, used)
    BY <1>1, <1>2, <2>3, <2>6 DEF Mirrors
  <2> QED
    BY <2>5, <2>7 DEF new, used, key
<1> QED
  BY <1>3, <1>4

(* RecencyInv is inductive: it holds of the two empty lists, ...           *)
LEMMA RecencyInvInit == Init => RecencyInv
<1> SUFFICES ASSUME Init PROVE RecencyInv
  OBVIOUS
<1>1. Len(cache) = 0 /\ Len(recency) = 0
  BY EmptySeq DEF Init
<1> QED
  BY <1>1, CacheAssumption DEF RecencyInv, Mirrors, Distinct

(* ... and every step keeps it: a hit by HitMirrors, a miss by MissMirrors *)
(* and every other step because it changes neither list.                   *)
LEMMA RecencyInvStep ==
  TypeOK /\ RecencyInv /\ [Next]_vars => RecencyInv'
<1> SUFFICES ASSUME TypeOK, RecencyInv, [Next]_vars
             PROVE  RecencyInv'
  OBVIOUS
<1>1. CASE cache' = cache /\ recency' = recency
  BY <1>1 DEF RecencyInv
<1>2. ASSUME NEW r \in Request, NEW h \in Headers, FromRequestParts(r, h)
      PROVE  RecencyInv'
  <2>1. KeyOf(h) \in Key /\ h.name \in Name \cup {NoName}
    BY <1>2, KeyOfHeaders DEF FromRequestParts
  <2>2. PICK o \in GetOrCreate(cache, Live, KeyOf(h), h.name) :
          /\ cache' = o.cache
          /\ recency' = IF o.client = NoClient THEN recency
                        ELSE Used(recency, KeyOf(h))
    BY <1>2 DEF FromRequestParts
  <2>3. CASE o.client = NoClient
    BY <1>1, <2>1, <2>2, <2>3, NoClientIsFailure DEF TypeOK, IsFailure
  <2>4. CASE o.client # NoClient /\ IsHit(cache, KeyOf(h), o)
    <3>1. PICK p \in 1..Len(cache) : /\ cache[p].key = KeyOf(h)
                                    /\ o.cache = MoveToFront(cache, p)
      BY <2>4 DEF IsHit
    <3> QED
      BY <2>2, <2>4, <3>1, HitMirrors DEF TypeOK, RecencyInv
  <2>5. CASE o.client # NoClient /\ IsMiss(cache, Live, KeyOf(h), h.name, o)
    <3>1. PICK c \in Chan \ Live :
            o.cache = PushFront(cache, NewEntry(KeyOf(h), h.name, c), MaxEntries)
      BY <2>5 DEF IsMiss
    <3> DEFINE e == NewEntry(KeyOf(h), h.name, c)
    <3>2. e \in Entry /\ e.key = KeyOf(h)
      BY <2>1, NewClientServes DEF NewEntry, Entry
    <3>3. \A i \in 1..Len(cache) : cache[i].key # e.key
      BY <2>5, <3>2 DEF IsMiss
    <3>4. cache' = PushFront(cache, e, MaxEntries)
      BY <2>2, <3>1
    <3> HIDE DEF e
    <3> QED
      BY <2>2, <2>5, <3>2, <3>3, <3>4, MissMirrors DEF TypeOK, RecencyInv
  <2> QED
    BY <2>3, <2>4, <2>5, Outcomes DEF IsFailure
<1>3. [Next]_vars => \/ cache' = cache /\ recency' = recency
                     \/ \E r \in Request, h \in Headers : FromRequestParts(r, h)
  BY DEF Next, vars, MissingHeader, Drop
<1> QED
  BY <1>1, <1>2, <1>3

(* MostRecentlyUsed is an invariant: the cache is the first MaxEntries     *)
(* keys of the list of all keys by their last use (nodes.rs:53, 94).       *)
THEOREM CacheIsMostRecentlyUsed == Spec => []MostRecentlyUsed
<1>1. TypeOK /\ RecencyInv /\ [Next]_vars => RecencyInv'
  BY RecencyInvStep
<1>2. RecencyInv => MostRecentlyUsed
  BY DEF RecencyInv, Mirrors, MostRecentlyUsed
<1> QED
  BY <1>1, <1>2, RecencyInvInit, TypeCorrect, PTL DEF Spec

-----------------------------------------------------------------------------
(* What a step does to the entries that were there.                        *)

(* A hit drops no key.                                                     *)
LEMMA HitDropsNothing ==
  ASSUME NEW store \in Seq(Entry), NEW p \in 1..Len(store)
  PROVE  KeysOf(store) \subseteq KeysOf(MoveToFront(store, p))
<1> DEFINE new == MoveToFront(store, p)
           To(j) == IF j = p THEN 1 ELSE IF j < p THEN j + 1 ELSE j
<1>1. /\ Len(store) \in Nat /\ DOMAIN store = 1..Len(store)
      /\ new \in Seq(Entry) /\ Len(new) = Len(store)
      /\ \A i \in 1..Len(store) :
           new[i] = IF i = 1 THEN store[p]
                    ELSE IF i <= p THEN store[i-1] ELSE store[i]
  BY LenProperties, MoveToFrontProps
<1>2. DOMAIN new = 1..Len(store)
  BY <1>1, LenProperties
<1> HIDE DEF new
<1>3. ASSUME NEW j \in 1..Len(store)
      PROVE  To(j) \in 1..Len(store) /\ new[To(j)] = store[j]
  <2>1. CASE j = p
    BY <1>1, <2>1
  <2>2. CASE j < p
    <3>1. To(j) = j + 1 /\ j + 1 \in 1..Len(store) /\ j + 1 # 1 /\ j + 1 <= p
      BY <1>1, <2>2
    <3>2. new[j + 1] = store[(j + 1) - 1] /\ (j + 1) - 1 = j
      BY <1>1, <3>1
    <3> QED
      BY <3>1, <3>2
  <2>3. CASE j > p
    BY <1>1, <2>3
  <2> QED
    BY <1>1, <2>1, <2>2, <2>3
<1> HIDE DEF To
<1>4. KeysOf(store) \subseteq KeysOf(new)
  BY <1>1, <1>2, <1>3 DEF KeysOf
<1> QED
  BY <1>4 DEF new

(* A miss keeps every key but the last one of a full cache.                *)
LEMMA MissDropsLast ==
  ASSUME NEW store \in Seq(Entry), Len(store) <= MaxEntries, NEW e \in Entry
  PROVE  \A j \in 1..Len(store) :
           \/ store[j].key \in KeysOf(PushFront(store, e, MaxEntries))
           \/ /\ j = MaxEntries
              /\ Len(store) = MaxEntries
              /\ Len(PushFront(store, e, MaxEntries)) = MaxEntries
<1> DEFINE new == PushFront(store, e, MaxEntries)
<1>1. Len(store) \in Nat /\ MaxEntries \in Nat \ {0}
  BY LenProperties, CacheAssumption
<1>2. /\ new \in Seq(Entry)
      /\ Len(new) = IF Len(store) < MaxEntries THEN Len(store) + 1
                    ELSE MaxEntries
      /\ \A i \in 1..Len(new) : new[i] = IF i = 1 THEN e ELSE store[i-1]
  BY <1>1, PushFrontProps
<1> HIDE DEF new
<1>3. DOMAIN new = 1..Len(new)
  BY <1>2, LenProperties
<1>4. ASSUME NEW j \in 1..Len(store), j + 1 <= Len(new)
      PROVE  store[j].key \in KeysOf(new)
  <2>1. j + 1 \in 1..Len(new) /\ j + 1 # 1 /\ (j + 1) - 1 = j
    BY <1>1, <1>2, <1>4
  <2>2. new[j + 1] = store[j]
    BY <1>2, <2>1
  <2> QED
    BY <1>3, <2>1, <2>2 DEF KeysOf
<1>5. \A j \in 1..Len(store) :
        \/ j + 1 <= Len(new)
        \/ j = MaxEntries /\ Len(store) = MaxEntries /\ Len(new) = MaxEntries
  BY <1>1, <1>2
<1>6. \A j \in 1..Len(store) :
        \/ store[j].key \in KeysOf(new)
        \/ j = MaxEntries /\ Len(store) = MaxEntries /\ Len(new) = MaxEntries
  BY <1>4, <1>5
<1> QED
  BY <1>6 DEF new

(* A step leaves the cache alone and gives no client out, or it is a       *)
(* lookup that succeeds.                                                   *)
LEMMA StepKinds ==
  ASSUME TypeOK, Next
  PROVE  \/ cache' = cache /\ \A r \in Request : held'[r] \in {held[r], NoClient}
         \/ \E r \in Request, h \in Headers :
              \E o \in GetOrCreate(cache, Live, KeyOf(h), h.name) :
                /\ HeaderOK(h)
                /\ headers'[r] = h
                /\ held'[r] = o.client
                /\ \A q \in Request \ {r} : held'[q] = held[q]
                /\ cache' = o.cache
                /\ logged' = o.logged
                /\ o.client # NoClient
<1>1. ASSUME NEW r \in Request, NEW h \in Headers, MissingHeader(r, h)
      PROVE  cache' = cache /\ \A q \in Request : held'[q] = held[q]
  BY <1>1 DEF MissingHeader
<1>2. ASSUME NEW r \in Request, Drop(r)
      PROVE  cache' = cache /\ \A q \in Request : held'[q] \in {held[q], NoClient}
  BY <1>2 DEF Drop, TypeOK
<1>3. ASSUME NEW r \in Request, NEW h \in Headers, FromRequestParts(r, h)
      PROVE  \E o \in GetOrCreate(cache, Live, KeyOf(h), h.name) :
               /\ HeaderOK(h)
               /\ headers'[r] = h
               /\ held'[r] = o.client
               /\ \A q \in Request \ {r} : held'[q] = held[q]
               /\ cache' = o.cache
               /\ logged' = o.logged
               /\ o.client = NoClient => cache' = cache
  <2>1. KeyOf(h) \in Key /\ h.name \in Name \cup {NoName} /\ HeaderOK(h)
    BY <1>3, KeyOfHeaders DEF FromRequestParts
  <2>2. PICK o \in GetOrCreate(cache, Live, KeyOf(h), h.name) :
          /\ cache' = o.cache
          /\ held' = [held EXCEPT ![r] = o.client]
          /\ logged' = o.logged
    BY <1>3 DEF FromRequestParts
  <2>3. headers'[r] = h
    BY <1>3 DEF FromRequestParts, TypeOK
  <2>4. o.client = NoClient => cache' = cache
    BY <2>1, <2>2, NoClientIsFailure DEF TypeOK, IsFailure
  <2>5. held'[r] = o.client /\ \A q \in Request \ {r} : held'[q] = held[q]
    BY <2>2 DEF TypeOK
  <2> QED
    BY <2>1, <2>2, <2>3, <2>4, <2>5
<1> QED
  <2>1. CASE \E r \in Request, h \in Headers : MissingHeader(r, h)
    BY <1>1, <2>1
  <2>2. CASE \E r \in Request : Drop(r)
    BY <1>2, <2>2
  <2>3. CASE \E r \in Request, h \in Headers : FromRequestParts(r, h)
    <3>1. PICK r \in Request, h \in Headers : FromRequestParts(r, h)
      BY <2>3
    <3>2. PICK o \in GetOrCreate(cache, Live, KeyOf(h), h.name) :
            /\ HeaderOK(h)
            /\ headers'[r] = h
            /\ held'[r] = o.client
            /\ \A q \in Request \ {r} : held'[q] = held[q]
            /\ cache' = o.cache
            /\ logged' = o.logged
            /\ o.client = NoClient => cache' = cache
      BY <1>3, <3>1
    <3>3. CASE o.client = NoClient
      BY <3>2, <3>3
    <3>4. CASE o.client # NoClient
      BY <3>2, <3>4
    <3> QED
      BY <3>3, <3>4
  <2> QED
    BY <2>1, <2>2, <2>3 DEF Next

-----------------------------------------------------------------------------
(* The two action properties, from the invariants.                         *)

(* A lookup that succeeds keeps the channel of every key that stays, and   *)
(* grants the channel of the key it was asked for if that was cached.      *)
LEMMA LookupReuses ==
  ASSUME TypeOK, ChannelInv,
         NEW key \in Key, NEW name \in Name \cup {NoName},
         NEW o \in GetOrCreate(cache, Live, key, name), o.client # NoClient
  PROVE  /\ \A i \in 1..Len(cache), j \in 1..Len(o.cache) :
              cache[i].key = o.cache[j].key =>
                cache[i].client.chan = o.cache[j].client.chan
         /\ \A i \in 1..Len(cache) :
              cache[i].key = key => o.client.chan = cache[i].client.chan
<1>1. /\ cache \in Seq(Entry) /\ EntriesOK(cache)
      /\ \A i, j \in 1..Len(cache) : cache[i].key = cache[j].key => i = j
  BY DEF TypeOK, ChannelInv, EntriesOK, KeysDistinct
<1>2. CASE IsHit(cache, key, o)
  <2>1. PICK p \in 1..Len(cache) : /\ cache[p].key = key
                                  /\ o.cache = MoveToFront(cache, p)
                                  /\ o.client = cache[p].client
    BY <1>2 DEF IsHit
  <2>2. \A j \in 1..Len(o.cache) :
          \E k \in 1..Len(cache) : o.cache[j] = cache[k]
    BY <1>1, <2>1, HitKeepsEntries
  <2> QED
    BY <1>1, <2>1, <2>2
<1>3. CASE IsMiss(cache, Live, key, name, o)
  <2>1. PICK c \in Chan \ Live :
          o.cache = PushFront(cache, NewEntry(key, name, c), MaxEntries)
    BY <1>3 DEF IsMiss
  <2> DEFINE e == NewEntry(key, name, c)
  <2>2. e \in Entry /\ e.key = key
    BY NewClientServes DEF NewEntry, Entry
  <2>3. \A i \in 1..Len(cache) : cache[i].key # key
    BY <1>3 DEF IsMiss
  <2> HIDE DEF e
  <2>4. /\ Len(cache) \in Nat /\ MaxEntries \in Nat \ {0}
    BY <1>1, LenProperties, CacheAssumption
  <2>5. /\ Len(PushFront(cache, e, MaxEntries)) =
             IF Len(cache) < MaxEntries THEN Len(cache) + 1 ELSE MaxEntries
        /\ \A i \in 1..Len(PushFront(cache, e, MaxEntries)) :
             PushFront(cache, e, MaxEntries)[i] = IF i = 1 THEN e ELSE cache[i-1]
    BY <1>1, <2>2, <2>4, PushFrontProps
  <2>6. o.cache = PushFront(cache, e, MaxEntries)
    BY <2>1 DEF e
  <2>7. \A j \in 1..Len(o.cache) :
          o.cache[j] = e \/ \E k \in 1..Len(cache) : o.cache[j] = cache[k]
    <3> SUFFICES ASSUME NEW j \in 1..Len(o.cache), j # 1
                 PROVE  \E k \in 1..Len(cache) : o.cache[j] = cache[k]
      BY <2>5, <2>6
    <3>1. o.cache[j] = cache[j-1] /\ j-1 \in 1..Len(cache)
      BY <2>4, <2>5, <2>6
    <3> QED
      BY <3>1
  <2> QED
    BY <1>1, <2>2, <2>3, <2>7
<1> QED
  BY <1>2, <1>3, Outcomes DEF IsFailure

(* ChannelReused holds of every step: a key keeps its channel while it is  *)
(* cached, and who asks for it gets that channel (nodes.rs:50-55).         *)
THEOREM ChannelAlwaysReused == Spec => ChannelReused
<1> DEFINE A ==
      /\ \A i \in 1..Len(cache), j \in 1..Len(cache') :
           cache[i].key = cache'[j].key =>
             cache[i].client.chan = cache'[j].client.chan
      /\ \A r \in Request, i \in 1..Len(cache) :
           /\ held[r] = NoClient
           /\ held'[r] # NoClient
           /\ cache[i].key = KeyOf(headers'[r])
           => held'[r].chan = cache[i].client.chan
<1>1. TypeOK /\ ChannelInv /\ [Next]_vars => [A]_vars
  <2> SUFFICES ASSUME TypeOK, ChannelInv, Next PROVE A
    OBVIOUS
  <2>1. EntriesOK(cache) /\ cache \in Seq(Entry)
    BY DEF ChannelInv, TypeOK
  <2>2. CASE cache' = cache /\ \A r \in Request : held'[r] \in {held[r], NoClient}
    BY <2>1, <2>2 DEF EntriesOK, KeysDistinct
  <2>3. ASSUME NEW r \in Request, NEW h \in Headers,
               NEW o \in GetOrCreate(cache, Live, KeyOf(h), h.name),
               HeaderOK(h), headers'[r] = h, held'[r] = o.client,
               \A q \in Request \ {r} : held'[q] = held[q],
               cache' = o.cache, o.client # NoClient
        PROVE  A
    <3>1. KeyOf(h) \in Key /\ h.name \in Name \cup {NoName}
      BY <2>3, KeyOfHeaders
    <3>3. o.client # NoClient
      BY <2>3
    <3> HIDE DEF A
    <3>2. /\ \A i \in 1..Len(cache), j \in 1..Len(o.cache) :
               cache[i].key = o.cache[j].key =>
                 cache[i].client.chan = o.cache[j].client.chan
          /\ \A i \in 1..Len(cache) :
               cache[i].key = KeyOf(h) => o.client.chan = cache[i].client.chan
      BY <3>1, <3>3, LookupReuses
    <3> QED
      BY <2>3, <3>2 DEF A
  <2> QED
    BY <2>2, <2>3, StepKinds
<1>2. TypeOK /\ ChannelInv /\ [Next]_vars => ChannelInv'
  BY ChannelInvStep
<1> QED
  BY <1>1, <1>2, ChannelInvInit, TypeCorrect, PTL DEF Spec, ChannelReused

(* A lookup that succeeds drops nothing, or from a full cache the least    *)
(* recently used key, which its eviction message names.                    *)
LEMMA LookupDrops ==
  ASSUME TypeOK, RecencyInv,
         NEW key \in Key, NEW name \in Name \cup {NoName},
         NEW o \in GetOrCreate(cache, Live, key, name), o.client # NoClient
  PROVE  KeysOf(cache) \ KeysOf(o.cache) # {} =>
           /\ KeysOf(cache) \ KeysOf(o.cache) = {recency[MaxEntries]}
           /\ o.logged = {recency[MaxEntries]}
           /\ Len(o.cache) = MaxEntries
<1>0. cache \in Seq(Entry) /\ recency \in Seq(Key) /\ Mirrors(cache, recency)
  BY DEF TypeOK, RecencyInv
<1>1. /\ Len(cache) \in Nat /\ MaxEntries \in Nat \ {0} /\ Len(recency) \in Nat
      /\ DOMAIN cache = 1..Len(cache)
  BY <1>0, LenProperties, CacheAssumption
<1>2. /\ Len(cache) <= MaxEntries
      /\ \A i \in 1..Len(cache) : cache[i].key = recency[i]
  BY <1>0, <1>1 DEF Mirrors
<1>3. CASE IsHit(cache, key, o)
  <2>1. PICK p \in 1..Len(cache) : o.cache = MoveToFront(cache, p)
    BY <1>3 DEF IsHit
  <2>2. KeysOf(cache) \subseteq KeysOf(o.cache)
    BY <1>0, <2>1, HitDropsNothing
  <2> QED
    BY <2>2
<1>4. CASE IsMiss(cache, Live, key, name, o)
  <2>1. PICK c \in Chan \ Live :
          o.cache = PushFront(cache, NewEntry(key, name, c), MaxEntries)
    BY <1>4 DEF IsMiss
  <2>2. NewEntry(key, name, c) \in Entry
    BY NewClientServes DEF NewEntry, Entry
  <2>3. \A j \in 1..Len(cache) :
          \/ cache[j].key \in KeysOf(o.cache)
          \/ /\ j = MaxEntries /\ Len(cache) = MaxEntries
             /\ Len(o.cache) = MaxEntries
    BY <1>0, <1>2, <2>1, <2>2, MissDropsLast
  <2>4. KeysOf(cache) = {cache[j].key : j \in 1..Len(cache)}
    BY <1>1 DEF KeysOf
  <2> SUFFICES ASSUME NEW k \in KeysOf(cache) \ KeysOf(o.cache)
               PROVE  /\ KeysOf(cache) \ KeysOf(o.cache) = {recency[MaxEntries]}
                      /\ o.logged = {recency[MaxEntries]}
                      /\ Len(o.cache) = MaxEntries
    OBVIOUS
  <2>5. PICK j \in 1..Len(cache) : k = cache[j].key
    BY <2>4
  <2>6. /\ j = MaxEntries /\ Len(cache) = MaxEntries /\ Len(o.cache) = MaxEntries
        /\ k = recency[MaxEntries]
    BY <1>2, <2>3, <2>5
  <2>7. \A m \in KeysOf(cache) \ KeysOf(o.cache) : m = recency[MaxEntries]
    BY <1>2, <2>3, <2>4
  <2>8. ToDisplace(cache) = {recency[MaxEntries]}
    BY <1>1, <1>2, <2>6 DEF ToDisplace
  <2>9. o.logged = ToDisplace(cache)
    BY <1>4 DEF IsMiss
  <2> QED
    BY <2>6, <2>7, <2>8, <2>9
<1> QED
  BY <1>3, <1>4, Outcomes DEF IsFailure

(* DisplacedIsLogged holds of every step: an entry leaves a full cache     *)
(* only, it is the least recently used one, and the eviction message of    *)
(* that very step names it (nodes.rs:57-67).                               *)
THEOREM DisplacedAlwaysLogged == Spec => DisplacedIsLogged
<1> DEFINE A ==
      LET gone == KeysOf(cache) \ KeysOf(cache')
      IN  gone # {} => /\ gone = logged'
                       /\ gone = {recency[MaxEntries]}
                       /\ Len(cache') = MaxEntries
<1>1. TypeOK /\ RecencyInv /\ [Next]_vars => [A]_vars
  <2> SUFFICES ASSUME TypeOK, RecencyInv, Next PROVE A
    OBVIOUS
  <2>2. CASE cache' = cache /\ \A r \in Request : held'[r] \in {held[r], NoClient}
    BY <2>2
  <2>3. ASSUME NEW r \in Request, NEW h \in Headers,
               NEW o \in GetOrCreate(cache, Live, KeyOf(h), h.name),
               HeaderOK(h), cache' = o.cache, logged' = o.logged,
               o.client # NoClient
        PROVE  A
    <3>1. KeyOf(h) \in Key /\ h.name \in Name \cup {NoName}
      BY <2>3, KeyOfHeaders
    <3>3. o.client # NoClient
      BY <2>3
    <3>2. KeysOf(cache) \ KeysOf(o.cache) # {} =>
            /\ KeysOf(cache) \ KeysOf(o.cache) = {recency[MaxEntries]}
            /\ o.logged = {recency[MaxEntries]}
            /\ Len(o.cache) = MaxEntries
      BY <3>1, <3>3, LookupDrops
    <3> QED
      BY <2>3, <3>2
  <2> QED
    BY <2>2, <2>3, StepKinds
<1>2. TypeOK /\ RecencyInv /\ [Next]_vars => RecencyInv'
  BY RecencyInvStep
<1> QED
  BY <1>1, <1>2, RecencyInvInit, TypeCorrect, PTL DEF Spec, DisplacedIsLogged

-----------------------------------------------------------------------------
(* The client cache implements ClientPool: whatever it does with the order *)
(* of its entries, what its users see is a bounded pool that lends one     *)
(* channel per key.                                                        *)

(* The pool a list of entries stands for.                                  *)
PoolOf(store) ==
  [k \in KeysOf(store) |->
     (CHOOSE e \in {store[i] : i \in DOMAIN store} : e.key = k).client.chan]

(* It has the channel of each entry, under the key of that entry.          *)
LEMMA PoolOfEntries ==
  ASSUME NEW store \in Seq(Entry), KeysDistinct(store)
  PROVE  /\ DOMAIN PoolOf(store) = KeysOf(store)
         /\ PoolOf(store) = [k \in KeysOf(store) |-> PoolOf(store)[k]]
         /\ \A i \in 1..Len(store) :
              /\ store[i].key \in KeysOf(store)
              /\ PoolOf(store)[store[i].key] = store[i].client.chan
<1>1. DOMAIN store = 1..Len(store)
  BY LenProperties
<1>2. ASSUME NEW i \in 1..Len(store)
      PROVE  /\ store[i].key \in KeysOf(store)
             /\ PoolOf(store)[store[i].key] = store[i].client.chan
  <2> DEFINE entries == {store[j] : j \in DOMAIN store}
             e == CHOOSE x \in entries : x.key = store[i].key
  <2>1. store[i] \in entries
    BY <1>1
  <2>2. e \in entries /\ e.key = store[i].key
    BY <2>1
  <2>3. PICK j \in 1..Len(store) : e = store[j]
    BY <1>1, <2>2
  <2>4. j = i
    BY <2>2, <2>3 DEF KeysDistinct
  <2>5. store[i].key \in KeysOf(store)
    BY <1>1 DEF KeysOf
  <2>6. PoolOf(store)[store[i].key] = e.client.chan
    BY <2>5 DEF PoolOf
  <2> QED
    BY <2>3, <2>4, <2>5, <2>6
<1>3. PoolOf(store) \in
        [KeysOf(store) -> {PoolOf(store)[k] : k \in KeysOf(store)}]
  <2> DEFINE f(k) ==
        (CHOOSE e \in {store[i] : i \in DOMAIN store} : e.key = k).client.chan
  <2>1. PoolOf(store) = [k \in KeysOf(store) |-> f(k)]
    BY DEF PoolOf
  <2> HIDE DEF f
  <2> QED
    BY <2>1
<1>4. PoolOf(store) = [k \in KeysOf(store) |-> PoolOf(store)[k]]
  BY <1>3
<1>5. DOMAIN PoolOf(store) = KeysOf(store)
  BY <1>3
<1> QED
  BY <1>2, <1>4, <1>5

(* It has as many keys as there are entries.                               *)
LEMMA KeysCounted ==
  ASSUME NEW store \in Seq(Entry), KeysDistinct(store)
  PROVE  Cardinality(KeysOf(store)) = Len(store)
<1> DEFINE key == [i \in 1..Len(store) |-> store[i].key]
<1>1. Len(store) \in Nat /\ DOMAIN store = 1..Len(store)
  BY LenProperties
<1>2. key \in [1..Len(store) -> KeysOf(store)]
  BY <1>1 DEF KeysOf
<1>3. \A i, j \in 1..Len(store) : key[i] = key[j] => i = j
  BY DEF KeysDistinct
<1>4. \A k \in KeysOf(store) : \E i \in 1..Len(store) : key[i] = k
  BY <1>1 DEF KeysOf
<1> HIDE DEF key
<1>5. key \in Bijection(1..Len(store), KeysOf(store))
  BY <1>2, <1>3, <1>4 DEF Bijection, Injection, Surjection, IsInjective
<1>6. ExistsBijection(1..Len(store), KeysOf(store))
  BY <1>5 DEF ExistsBijection
<1> QED
  BY <1>1, <1>6, FS_CountingElements

(* A hit does not change the pool.                                         *)
LEMMA HitKeepsPool ==
  ASSUME NEW store \in Seq(Entry), EntriesOK(store), NEW p \in 1..Len(store)
  PROVE  PoolOf(MoveToFront(store, p)) = PoolOf(store)
<1> DEFINE new == MoveToFront(store, p)
<1>1. /\ new \in Seq(Entry)
      /\ EntriesOK(new)
      /\ \A i \in 1..Len(new) : \E j \in 1..Len(store) : new[i] = store[j]
      /\ KeysOf(store) \subseteq KeysOf(new)
  BY MoveToFrontProps, HitKeepsEntries, HitDropsNothing
<1> HIDE DEF new
<1>2. DOMAIN new = 1..Len(new) /\ DOMAIN store = 1..Len(store)
  BY <1>1, LenProperties
<1>3. KeysOf(new) = KeysOf(store)
  <2>1. ASSUME NEW k \in KeysOf(new) PROVE k \in KeysOf(store)
    <3>1. PICK i \in 1..Len(new) : k = new[i].key
      BY <1>2 DEF KeysOf
    <3>2. PICK j \in 1..Len(store) : new[i] = store[j]
      BY <1>1
    <3>3. store[j].key \in KeysOf(store)
      BY <1>2 DEF KeysOf
    <3> QED
      BY <3>1, <3>2, <3>3
  <2> QED
    BY <1>1, <2>1
<1>4. ASSUME NEW k \in KeysOf(new)
      PROVE  PoolOf(new)[k] = PoolOf(store)[k]
  <2>1. PICK i \in 1..Len(new) : k = new[i].key
    BY <1>2 DEF KeysOf
  <2>2. PICK j \in 1..Len(store) : new[i] = store[j]
    BY <1>1
  <2>3. PoolOf(new)[k] = new[i].client.chan
    BY <1>1, <2>1, PoolOfEntries DEF EntriesOK
  <2>4. PoolOf(store)[k] = store[j].client.chan
    BY <2>1, <2>2, PoolOfEntries DEF EntriesOK
  <2> QED
    BY <2>2, <2>3, <2>4
<1>5. /\ PoolOf(new) = [k \in KeysOf(new) |-> PoolOf(new)[k]]
      /\ PoolOf(store) = [k \in KeysOf(store) |-> PoolOf(store)[k]]
  BY <1>1, PoolOfEntries DEF EntriesOK
<1>6. PoolOf(new) = PoolOf(store)
  BY <1>3, <1>4, <1>5
<1> QED
  BY <1>6 DEF new

(* The key a full list loses when something is put in front of it.         *)
Loses(store) ==
  IF Len(store) = MaxEntries THEN {store[MaxEntries].key} ELSE {}

(* A pool without the keys out, and with channel c for key.                *)
Extended(pool, out, key, c) ==
  [k \in (DOMAIN pool \ out) \cup {key} |-> IF k = key THEN c ELSE pool[k]]

(* A miss adds a key to the pool, and takes one out of a full one.         *)
LEMMA MissExtendsPool ==
  ASSUME NEW store \in Seq(Entry), EntriesOK(store),
         Len(store) <= MaxEntries,
         NEW e \in Entry, Serves(e.client, e.key),
         \A i \in 1..Len(store) : /\ store[i].key # e.key
                                  /\ store[i].client.chan # e.client.chan
  PROVE  PoolOf(PushFront(store, e, MaxEntries)) =
           Extended(PoolOf(store), Loses(store), e.key, e.client.chan)
<1> DEFINE pool == PoolOf(store)
           key == e.key
           c == e.client.chan
           new == PushFront(store, e, MaxEntries)
<1>1. Len(store) \in Nat /\ MaxEntries \in Nat \ {0}
  BY LenProperties, CacheAssumption
<1>2. /\ new \in Seq(Entry)
      /\ Len(new) = IF Len(store) < MaxEntries THEN Len(store) + 1
                    ELSE MaxEntries
      /\ \A i \in 1..Len(new) : new[i] = IF i = 1 THEN e ELSE store[i-1]
  BY <1>1, PushFrontProps
<1>3. EntriesOK(new)
  BY MissKeepsEntries
<1>4. \A j \in 1..Len(store) :
        \/ store[j].key \in KeysOf(new)
        \/ j = MaxEntries /\ Len(store) = MaxEntries
  BY MissDropsLast
<1> HIDE DEF new
<1>5. DOMAIN new = 1..Len(new) /\ DOMAIN store = 1..Len(store)
  BY <1>2, LenProperties
<1>6. 1 \in 1..Len(new) /\ new[1] = e
  BY <1>1, <1>2
<1>7. ASSUME NEW i \in 1..Len(new), i # 1
      PROVE  /\ i - 1 \in 1..Len(store)
             /\ new[i] = store[i-1]
             /\ store[i-1].key \in KeysOf(store) \ Loses(store)
  <2>1. i - 1 \in 1..Len(store) /\ new[i] = store[i-1]
    BY <1>1, <1>2, <1>7
  <2>2. store[i-1].key \in KeysOf(store)
    BY <1>5, <2>1 DEF KeysOf
  <2>3. ASSUME Len(store) = MaxEntries
        PROVE  store[i-1].key # store[MaxEntries].key
    <3>1. MaxEntries \in 1..Len(store) /\ i - 1 # MaxEntries
      BY <1>1, <1>2, <2>3
    <3> QED
      BY <2>1, <3>1 DEF EntriesOK, KeysDistinct
  <2> QED
    BY <2>1, <2>2, <2>3 DEF Loses
<1>8. KeysOf(new) = (KeysOf(store) \ Loses(store)) \cup {e.key}
  <2>1. ASSUME NEW k \in KeysOf(new)
        PROVE  k \in (KeysOf(store) \ Loses(store)) \cup {e.key}
    <3>1. PICK i \in 1..Len(new) : k = new[i].key
      BY <1>5 DEF KeysOf
    <3> QED
      BY <1>6, <1>7, <3>1
  <2>2. e.key \in KeysOf(new)
    BY <1>5, <1>6 DEF KeysOf
  <2>3. ASSUME NEW k \in KeysOf(store) \ Loses(store)
        PROVE  k \in KeysOf(new)
    <3>1. PICK j \in 1..Len(store) : k = store[j].key
      BY <1>5 DEF KeysOf
    <3> QED
      BY <1>4, <3>1 DEF Loses
  <2> QED
    BY <2>1, <2>2, <2>3
<1>9. ASSUME NEW k \in KeysOf(new)
      PROVE  PoolOf(new)[k] =
               IF k = key THEN c ELSE pool[k]
  <2>1. PICK i \in 1..Len(new) : k = new[i].key
    BY <1>5 DEF KeysOf
  <2>2. PoolOf(new)[k] = new[i].client.chan
    BY <1>2, <1>3, <2>1, PoolOfEntries DEF EntriesOK
  <2>3. CASE i = 1
    BY <1>6, <2>1, <2>2, <2>3
  <2>4. CASE i # 1
    <3>1. i - 1 \in 1..Len(store) /\ new[i] = store[i-1]
      BY <1>7, <2>4
    <3>2. k = store[i-1].key /\ k # e.key
      BY <2>1, <3>1
    <3>3. PoolOf(store)[k] = store[i-1].client.chan
      BY <3>1, <3>2, PoolOfEntries DEF EntriesOK
    <3> QED
      BY <2>2, <3>1, <3>2, <3>3
  <2> QED
    BY <2>3, <2>4
<1>10. PoolOf(new) = [k \in KeysOf(new) |-> PoolOf(new)[k]]
  BY <1>2, <1>3, PoolOfEntries DEF EntriesOK
<1>11. KeysOf(new) = (DOMAIN pool \ Loses(store)) \cup {key}
  BY <1>8, PoolOfEntries DEF EntriesOK
<1>12. PoolOf(new) = [k \in (DOMAIN pool \ Loses(store)) \cup {key} |->
              IF k = key THEN c ELSE pool[k]]
  BY <1>9, <1>10, <1>11
<1> QED
  BY <1>12 DEF new, Extended

-----------------------------------------------------------------------------
(* The pool of a state.                                                    *)
LEMMA PoolNowIs ==
  PoolNow = PoolOf(cache) /\ PoolNow' = PoolOf(cache')
BY DEF PoolNow, PooledChan, PoolOf

(* What a request holds: a pair of a key and a channel, or nothing.        *)
LEMMA HoldsSomething ==
  ASSUME TypeOK, ChannelInv, NEW r \in Request
  PROVE  /\ HoldsNow[r] = NoClient <=> held[r] = NoClient
         /\ held[r] # NoClient => HoldsNow[r].chan = held[r].chan
<1>1. CASE held[r] = NoClient
  BY <1>1 DEF HoldsNow
<1>2. CASE held[r] # NoClient
  <2>1. HoldsNow[r] = [key |-> KeyOf(headers[r]), chan |-> held[r].chan]
    BY <1>2 DEF HoldsNow
  <2>2. /\ held[r] \in XrayClient
        /\ headers[r] # Absent
    BY <1>2 DEF TypeOK, ChannelInv, FreeHoldsNothing
  <2>3. HeldServesRequest
    BY DEF ChannelInv
  <2>4. KeyOf(headers[r]) \in Key
    BY <1>2, <2>2, <2>3 DEF HeldServesRequest, Serves, XrayClient, KeyOf, Key
  <2>5. held[r].chan \in Chan
    BY <2>2 DEF XrayClient
  <2>6. HoldsNow[r] \in [key : Key, chan : Chan]
    BY <2>1, <2>4, <2>5
  <2> QED
    BY <1>2, <2>1, <2>6, NothingHeldAssumption
<1> QED
  BY <1>1, <1>2

(* The channels in use of the pool are the channels that live.             *)
LEMMA InUseIsLive ==
  ASSUME TypeOK, ChannelInv
  PROVE  Pool!InUse = Live
<1>1. cache \in Seq(Entry) /\ KeysDistinct(cache)
  BY DEF TypeOK, ChannelInv, EntriesOK
<1>2. DOMAIN cache = 1..Len(cache)
  BY <1>1, LenProperties
<1>3. /\ DOMAIN PoolNow = KeysOf(cache)
      /\ \A i \in 1..Len(cache) : PoolNow[cache[i].key] = cache[i].client.chan
  BY <1>1, PoolOfEntries, PoolNowIs
<1>4. {PoolNow[k] : k \in DOMAIN PoolNow} = ChansOf(cache)
  BY <1>2, <1>3 DEF KeysOf, ChansOf
<1>5. {HoldsNow[r].chan : r \in {q \in Request : HoldsNow[q] # NoClient}} =
        {held[r].chan : r \in {q \in Request : held[q] # NoClient}}
  BY HoldsSomething
<1> QED
  BY <1>4, <1>5 DEF Pool!InUse, Live

(* A step of one request changes what that request holds, and no more.     *)
LEMMA HoldsAfter ==
  ASSUME TypeOK, NEW r \in Request, NEW h, NEW client,
         headers' = [headers EXCEPT ![r] = h],
         held' = [held EXCEPT ![r] = client]
  PROVE  HoldsNow' = [HoldsNow EXCEPT ![r] =
                        IF client = NoClient THEN NoClient
                        ELSE [key |-> KeyOf(h), chan |-> client.chan]]
<1>1. /\ held'[r] = client /\ headers'[r] = h
      /\ \A q \in Request \ {r} : held'[q] = held[q] /\ headers'[q] = headers[q]
  BY DEF TypeOK
<1> QED
  BY <1>1 DEF HoldsNow

(* A request that is answered without a client changes nothing.            *)
LEMMA NoClientStutters ==
  ASSUME TypeOK, ChannelInv, NEW r \in Request, NEW h,
         headers[r] = Absent, cache' = cache,
         headers' = [headers EXCEPT ![r] = h],
         held' = [held EXCEPT ![r] = NoClient]
  PROVE  UNCHANGED Pool!vars
<1>1. HoldsNow' = [HoldsNow EXCEPT ![r] = NoClient]
  BY HoldsAfter
<1>2. HoldsNow[r] = NoClient
  BY DEF HoldsNow, ChannelInv, FreeHoldsNothing
<1>3. HoldsNow' = HoldsNow
  BY <1>1, <1>2 DEF HoldsNow
<1>4. PoolNow' = PoolNow
  BY PoolNowIs
<1> QED
  BY <1>3, <1>4 DEF Pool!vars

(* A hit shares the pooled channel.                                        *)
LEMMA HitShares ==
  ASSUME TypeOK, ChannelInv, NEW r \in Request, NEW h, HeaderOK(h),
         headers[r] = Absent, NEW p \in 1..Len(cache),
         cache[p].key = KeyOf(h), cache' = MoveToFront(cache, p),
         headers' = [headers EXCEPT ![r] = h],
         held' = [held EXCEPT ![r] = cache[p].client]
  PROVE  Pool!Share(r, KeyOf(h))
<1>1. cache \in Seq(Entry) /\ EntriesOK(cache)
  BY DEF TypeOK, ChannelInv
<1>2. PoolNow' = PoolNow
  BY <1>1, HitKeepsPool, PoolNowIs
<1>3. /\ DOMAIN PoolNow = KeysOf(cache)
      /\ KeyOf(h) \in KeysOf(cache)
      /\ PoolNow[KeyOf(h)] = cache[p].client.chan
  BY <1>1, PoolOfEntries, PoolNowIs DEF EntriesOK
<1>4. cache[p].client # NoClient
  <2>1. cache[p] \in Entry
    BY <1>1, ElementOfSeq
  <2> QED
    BY <2>1, NoClientAssumption DEF Entry
<1>5. HoldsNow[r] = NoClient
  BY DEF HoldsNow, ChannelInv, FreeHoldsNothing
<1>6. HoldsNow' = [HoldsNow EXCEPT ![r] =
                     [key |-> KeyOf(h), chan |-> cache[p].client.chan]]
  <2>1. PICK client : client = cache[p].client
    OBVIOUS
  <2>2. client # NoClient /\ held' = [held EXCEPT ![r] = client]
    BY <1>4, <2>1
  <2>3. HoldsNow' = [HoldsNow EXCEPT ![r] =
                       [key |-> KeyOf(h), chan |-> client.chan]]
    BY <2>2, HoldsAfter
  <2> QED
    BY <2>1, <2>3
<1> QED
  BY <1>2, <1>3, <1>5, <1>6 DEF Pool!Share

(* A miss opens a channel.                                                 *)
LEMMA MissOpens ==
  ASSUME TypeOK, ChannelInv, RecencyInv, NEW r \in Request, NEW h \in Headers,
         HeaderOK(h), headers[r] = Absent,
         \A i \in 1..Len(cache) : cache[i].key # KeyOf(h),
         NEW c \in Chan \ Live,
         cache' = PushFront(cache, NewEntry(KeyOf(h), h.name, c), MaxEntries),
         headers' = [headers EXCEPT ![r] = h],
         held' = [held EXCEPT ![r] = NewClient(KeyOf(h), h.name, c)]
  PROVE  Pool!Open(r, KeyOf(h))
<1> DEFINE e == NewEntry(KeyOf(h), h.name, c)
           k == KeyOf(h)
<1>1. /\ cache \in Seq(Entry) /\ EntriesOK(cache) /\ KeysDistinct(cache)
      /\ DOMAIN cache = 1..Len(cache) /\ Len(cache) \in Nat
  BY LenProperties DEF TypeOK, ChannelInv, EntriesOK
<1>2. /\ e \in Entry /\ e.key = k /\ e.client.chan = c
      /\ Serves(e.client, e.key)
      /\ e.client = NewClient(k, h.name, c) /\ e.client # NoClient
  BY KeyOfHeaders, NewClientServes, NoClientAssumption DEF NewEntry, Entry
<1>3. \A i \in 1..Len(cache) : cache[i].client.chan # c
  BY <1>1 DEF Live, ChansOf
<1>4. Len(cache) <= MaxEntries
  BY LenProperties, CacheAssumption DEF TypeOK, RecencyInv, Mirrors
<1> HIDE DEF e
<1>5. /\ DOMAIN PoolNow = KeysOf(cache)
      /\ PoolNow = PoolOf(cache)
      /\ PoolNow' = PoolOf(PushFront(cache, e, MaxEntries))
  BY <1>1, PoolOfEntries, PoolNowIs DEF e
<1>6. PoolNow' = Extended(PoolNow, Loses(cache), k, c)
  <2>1. \A i \in 1..Len(cache) : /\ cache[i].key # k
                                 /\ cache[i].client.chan # c
    BY <1>3
  <2> HIDE DEF k
  <2>2. PoolOf(PushFront(cache, e, MaxEntries)) =
          Extended(PoolOf(cache), Loses(cache), e.key, e.client.chan)
    BY <1>1, <1>2, <1>4, <2>1, MissExtendsPool
  <2> QED
    BY <1>2, <1>5, <2>2
<1>7. Loses(cache) \in Pool!MayLeave
  <2>1. Cardinality(DOMAIN PoolNow) = Len(cache)
    BY <1>1, <1>5, KeysCounted
  <2>2. Pool!Cardinality(DOMAIN PoolNow) = Cardinality(DOMAIN PoolNow)
    BY DEF Pool!Cardinality, Cardinality
  <2>3. Len(cache) = MaxEntries => cache[MaxEntries].key \in KeysOf(cache)
    BY <1>1, CacheAssumption DEF KeysOf
  <2> QED
    BY <1>5, <2>1, <2>2, <2>3 DEF Loses, Pool!MayLeave
<1>8. k \notin DOMAIN PoolNow
  BY <1>1, <1>5 DEF KeysOf
<1>9. HoldsNow[r] = NoClient
  BY DEF HoldsNow, ChannelInv, FreeHoldsNothing
<1>10. HoldsNow' = [HoldsNow EXCEPT ![r] = [key |-> k, chan |-> c]]
  BY <1>2, HoldsAfter
<1>11. c \in Chan \ Pool!InUse
  BY InUseIsLive
<1> QED
  BY <1>6, <1>7, <1>8, <1>9, <1>10, <1>11 DEF Pool!Open, Extended

(* The end of a request lets go of what it held.                           *)
LEMMA DropLetsGo ==
  ASSUME TypeOK, ChannelInv, NEW r \in Request, Drop(r)
  PROVE  Pool!LetGo(r) \/ UNCHANGED Pool!vars
<1>1. /\ PoolNow' = PoolNow
      /\ HoldsNow' = [HoldsNow EXCEPT ![r] = NoClient]
  BY PoolNowIs, HoldsAfter DEF Drop
<1>2. CASE HoldsNow[r] # NoClient
  BY <1>1, <1>2 DEF Pool!LetGo
<1>3. CASE HoldsNow[r] = NoClient
  BY <1>1, <1>3 DEF Pool!vars, HoldsNow
<1> QED
  BY <1>2, <1>3

(* ImplementsPool: the state maps to a pool, every lookup to Share, Open   *)
(* or a stutter, and every end of a request to LetGo or a stutter, so the  *)
(* order of the entries is of no concern to the users (nodes.rs:26-96).    *)
THEOREM CacheImplementsPool == Spec => ImplementsPool
<1>1. Init => Pool!Init
  <2> SUFFICES ASSUME Init PROVE Pool!Init
    OBVIOUS
  <2>1. DOMAIN cache = {}
    BY EmptySeq DEF Init
  <2>2. KeysOf(cache) = {}
    BY <2>1 DEF KeysOf
  <2> QED
    BY <2>2 DEF Init, Pool!Init, PoolNow, HoldsNow
<1>2. TypeOK /\ ChannelInv /\ RecencyInv /\ [Next]_vars
        => [Pool!Next]_(Pool!vars)
  <2> SUFFICES ASSUME TypeOK, ChannelInv, RecencyInv, [Next]_vars
               PROVE  [Pool!Next]_(Pool!vars)
    OBVIOUS
  <2>1. CASE UNCHANGED vars
    <3>1. PoolNow' = PoolNow /\ HoldsNow' = HoldsNow
      BY <2>1, PoolNowIs DEF vars, HoldsNow
    <3> QED
      BY <3>1 DEF Pool!vars
  <2>2. ASSUME NEW r \in Request, NEW h \in Headers, MissingHeader(r, h)
        PROVE  UNCHANGED Pool!vars
    <3>1. held[r] = NoClient
      BY <2>2 DEF MissingHeader, ChannelInv, FreeHoldsNothing
    <3>2. held' = [held EXCEPT ![r] = NoClient]
      BY <2>2, <3>1 DEF MissingHeader, TypeOK
    <3> QED
      BY <2>2, <3>2, NoClientStutters DEF MissingHeader
  <2>3. ASSUME NEW r \in Request, NEW h \in Headers, FromRequestParts(r, h)
        PROVE  [Pool!Next]_(Pool!vars)
    <3>1. /\ headers[r] = Absent /\ HeaderOK(h)
          /\ headers' = [headers EXCEPT ![r] = h]
          /\ KeyOf(h) \in AskedKeys
      BY <2>3 DEF FromRequestParts, AskedKeys
    <3>2. PICK o \in GetOrCreate(cache, Live, KeyOf(h), h.name) :
            cache' = o.cache /\ held' = [held EXCEPT ![r] = o.client]
      BY <2>3 DEF FromRequestParts
    <3>3. CASE IsHit(cache, KeyOf(h), o)
      <4>1. Pool!Share(r, KeyOf(h))
        BY <3>1, <3>2, <3>3, HitShares DEF IsHit
      <4> QED
        BY <3>1, <4>1 DEF Pool!Next
    <3>4. CASE IsFailure(cache, KeyOf(h), o)
      BY <3>1, <3>2, <3>4, NoClientStutters DEF IsFailure
    <3>5. CASE IsMiss(cache, Live, KeyOf(h), h.name, o)
      <4>1. Pool!Open(r, KeyOf(h))
        BY <3>1, <3>2, <3>5, MissOpens DEF IsMiss
      <4> QED
        BY <3>1, <4>1 DEF Pool!Next
    <3> QED
      BY <3>2, <3>3, <3>4, <3>5, Outcomes
  <2>4. ASSUME NEW r \in Request, Drop(r)
        PROVE  [Pool!Next]_(Pool!vars)
    BY <2>4, DropLetsGo DEF Pool!Next
  <2> QED
    BY <2>1, <2>2, <2>3, <2>4 DEF Next
<1>3. TypeOK /\ ChannelInv /\ [Next]_vars => ChannelInv'
  BY ChannelInvStep
<1>4. TypeOK /\ RecencyInv /\ [Next]_vars => RecencyInv'
  BY RecencyInvStep
<1> QED
  BY <1>1, <1>2, <1>3, <1>4, ChannelInvInit, RecencyInvInit, TypeCorrect, PTL
     DEF Spec, ImplementsPool, Pool!Spec
=============================================================================
