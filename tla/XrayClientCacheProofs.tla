------------------------ MODULE XrayClientCacheProofs ------------------------
(***************************************************************************)
(* What get_or_create and the list operations under it do, for every       *)
(* capacity, key and list of entries: the lemmas the modules that use the  *)
(* cache share.                                                            *)
(***************************************************************************)
EXTENDS XrayClientCache, SequenceTheorems, TLAPS

-----------------------------------------------------------------------------
(* The two operations on lists.                                            *)

(* Moving an element to the front permutes the list.                       *)
LEMMA MoveToFrontProps ==
  ASSUME NEW S, NEW list \in Seq(S), NEW p \in 1..Len(list)
  PROVE  /\ MoveToFront(list, p) \in Seq(S)
         /\ Len(MoveToFront(list, p)) = Len(list)
         /\ \A i \in 1..Len(list) :
              MoveToFront(list, p)[i] =
                IF i = 1 THEN list[p] ELSE IF i <= p THEN list[i-1] ELSE list[i]
<1> DEFINE val(i) == IF i = 1 THEN list[p]
                     ELSE IF i <= p THEN list[i-1] ELSE list[i]
<1>1. Len(list) \in Nat /\ \A i \in 1..Len(list) : list[i] \in S
  BY ElementOfSeq, LenProperties
<1>2. \A i \in 1..Len(list) : val(i) \in S
  BY <1>1
<1>3. [i \in 1..Len(list) |-> val(i)] \in Seq(S)
  BY <1>1, <1>2
<1>4. MoveToFront(list, p) = [i \in 1..Len(list) |-> val(i)]
  BY DEF MoveToFront
<1> HIDE DEF val
<1>5. /\ Len(MoveToFront(list, p)) = Len(list)
      /\ \A i \in 1..Len(list) : MoveToFront(list, p)[i] = val(i)
  BY <1>1, <1>3, <1>4, LenProperties
<1> QED
  BY <1>3, <1>4, <1>5 DEF val

(* Pushing an element shifts the list and keeps at most n elements of it.  *)
LEMMA PushFrontProps ==
  ASSUME NEW S, NEW list \in Seq(S), NEW e \in S, NEW n \in Nat \ {0}
  PROVE  /\ PushFront(list, e, n) \in Seq(S)
         /\ Len(PushFront(list, e, n)) =
              IF Len(list) < n THEN Len(list) + 1 ELSE n
         /\ \A i \in 1..Len(PushFront(list, e, n)) :
              PushFront(list, e, n)[i] = IF i = 1 THEN e ELSE list[i-1]
<1> DEFINE val(i) == IF i = 1 THEN e ELSE list[i-1]
           len == IF Len(list) < n THEN Len(list) + 1 ELSE n
<1>1. Len(list) \in Nat /\ \A i \in 1..Len(list) : list[i] \in S
  BY ElementOfSeq, LenProperties
<1>2. len \in Nat /\ \A i \in 1..len : val(i) \in S
  BY <1>1
<1>3. [i \in 1..len |-> val(i)] \in Seq(S)
  BY <1>2
<1>4. PushFront(list, e, n) = [i \in 1..len |-> val(i)]
  BY DEF PushFront
<1> HIDE DEF val, len
<1>5. /\ Len(PushFront(list, e, n)) = len
      /\ \A i \in 1..len : PushFront(list, e, n)[i] = val(i)
  BY <1>2, <1>3, <1>4, LenProperties
<1> QED
  BY <1>3, <1>4, <1>5 DEF val, len

(* With room for one more, nothing is lost: recency is never truncated.    *)
LEMMA PushAllProps ==
  ASSUME NEW S, NEW list \in Seq(S), NEW e \in S
  PROVE  /\ Len(PushFront(list, e, Len(list) + 1)) = Len(list) + 1
         /\ \A i \in 1..(Len(list) + 1) :
              PushFront(list, e, Len(list) + 1)[i] =
                IF i = 1 THEN e ELSE list[i-1]
<1> DEFINE n == Len(list) + 1
<1>1. n \in Nat \ {0} /\ Len(list) < n
  BY LenProperties
<1> HIDE DEF n
<1>2. /\ Len(PushFront(list, e, n)) =
           IF Len(list) < n THEN Len(list) + 1 ELSE n
      /\ \A i \in 1..Len(PushFront(list, e, n)) :
           PushFront(list, e, n)[i] = IF i = 1 THEN e ELSE list[i-1]
  BY <1>1, PushFrontProps
<1>3. Len(PushFront(list, e, n)) = Len(list) + 1
  BY <1>1, <1>2
<1> QED
  BY <1>2, <1>3 DEF n

-----------------------------------------------------------------------------
(* The outcomes of get_or_create.                                          *)

(* The key of headers that pass is a key.                                  *)
LEMMA KeyOfType ==
  ASSUME NEW h, h.domain \in Domain, h.token \in Token
  PROVE  KeyOf(h) \in Key
<1>1. 443 \in Port
  BY SMT DEF Port
<1>2. PortOf(h) \in Port
  BY <1>1 DEF PortOf
<1> QED
  BY <1>2 DEF KeyOf, Key

(* A new client serves the key it is made for.                             *)
LEMMA NewClientServes ==
  ASSUME NEW key \in Key, NEW name \in Name \cup {NoName}, NEW c \in Chan
  PROVE  /\ NewClient(key, name, c) \in XrayClient
         /\ NewClient(key, name, c).chan = c
         /\ Serves(NewClient(key, name, c), key)
BY DEF NewClient, XrayClient, Key, Serves

(* A hit, a key from which no URI can be built, and a miss.                *)
IsHit(store, key, o) ==
  \E p \in 1..Len(store) :
    /\ store[p].key = key
    /\ o.cache = MoveToFront(store, p)
    /\ o.client = store[p].client
    /\ o.logged = {}

(* A key from which no URI can be built.                                   *)
IsFailure(store, key, o) ==
  /\ \A i \in 1..Len(store) : store[i].key # key
  /\ key.domain \in InvalidDomain
  /\ o.cache = store
  /\ o.client = NoClient
  /\ o.logged = ToDisplace(store)

(* The entry a miss puts first.                                            *)
NewEntry(key, name, c) == [key |-> key, client |-> NewClient(key, name, c)]

(* A key that is not cached.                                               *)
IsMiss(store, live, key, name, o) ==
  /\ \A i \in 1..Len(store) : store[i].key # key
  /\ key.domain \notin InvalidDomain
  /\ o.logged = ToDisplace(store)
  /\ \E c \in Chan \ live :
       /\ o.client = NewClient(key, name, c)
       /\ o.cache = PushFront(store, NewEntry(key, name, c), MaxEntries)

(* There are no other outcomes.                                            *)
LEMMA Outcomes ==
  ASSUME NEW store, NEW live, NEW key, NEW name,
         NEW o \in GetOrCreate(store, live, key, name)
  PROVE  \/ IsHit(store, key, o)
         \/ IsFailure(store, key, o)
         \/ IsMiss(store, live, key, name, o)
<1>1. CASE Hits(store, key) # {}
  <2>1. PICK p \in Hits(store, key) :
          o = [cache |-> Touch(store, p), client |-> store[p].client,
               logged |-> {}]
    BY <1>1 DEF GetOrCreate
  <2> QED
    BY <2>1 DEF Hits, Touch, IsHit
<1>2. CASE Hits(store, key) = {} /\ key.domain \in InvalidDomain
  BY <1>2 DEF GetOrCreate, Hits, IsFailure
<1>3. CASE Hits(store, key) = {} /\ key.domain \notin InvalidDomain
  <2>1. PICK c \in Chan \ live :
          o = [cache  |-> Put(store, [key |-> key,
                                      client |-> NewClient(key, name, c)]),
               client |-> NewClient(key, name, c),
               logged |-> ToDisplace(store)]
    BY <1>3 DEF GetOrCreate
  <2>2. \A i \in 1..Len(store) : store[i].key # key
    BY <1>3 DEF Hits
  <2> QED
    BY <1>3, <2>1, <2>2 DEF Put, IsMiss, NewEntry
<1> QED
  BY <1>1, <1>2, <1>3

(* Only a failure returns no client.                                       *)
LEMMA NoClientIsFailure ==
  ASSUME NEW store \in Seq(Entry), NEW live, NEW key \in Key,
         NEW name \in Name \cup {NoName},
         NEW o \in GetOrCreate(store, live, key, name), o.client = NoClient
  PROVE  IsFailure(store, key, o)
<1>1. ~IsMiss(store, live, key, name, o)
  BY NewClientServes, NoClientAssumption DEF IsMiss
<1>2. ~IsHit(store, key, o)
  <2>1. \A p \in 1..Len(store) : store[p] \in Entry
    BY ElementOfSeq
  <2>2. \A p \in 1..Len(store) : store[p].client # NoClient
    BY <2>1, NoClientAssumption DEF Entry
  <2> QED
    BY <2>2 DEF IsHit
<1> QED
  BY <1>1, <1>2, Outcomes

(* The types of an outcome.                                                *)
LEMMA OutcomeTypes ==
  ASSUME NEW store \in Seq(Entry), NEW live, NEW key \in Key,
         NEW name \in Name \cup {NoName},
         NEW o \in GetOrCreate(store, live, key, name)
  PROVE  /\ o.cache \in Seq(Entry)
         /\ o.client \in XrayClient \cup {NoClient}
         /\ o.logged \in SUBSET Key
<1>1. Len(store) \in Nat /\ \A i \in 1..Len(store) : store[i] \in Entry
  BY ElementOfSeq, LenProperties
<1>2. ToDisplace(store) \in SUBSET Key
  BY <1>1, CacheAssumption DEF ToDisplace, Entry
<1>3. CASE IsHit(store, key, o)
  BY <1>1, <1>3, MoveToFrontProps DEF IsHit, Entry
<1>4. CASE IsFailure(store, key, o)
  BY <1>2, <1>4 DEF IsFailure
<1>5. CASE IsMiss(store, live, key, name, o)
  <2>1. PICK c \in Chan :
          /\ o.client = NewClient(key, name, c)
          /\ o.cache = PushFront(store, NewEntry(key, name, c), MaxEntries)
    BY <1>5 DEF IsMiss
  <2>2. o.client \in XrayClient /\ NewEntry(key, name, c) \in Entry
    BY <2>1, NewClientServes DEF Entry, NewEntry
  <2>3. o.cache \in Seq(Entry)
    BY <2>1, <2>2, PushFrontProps, CacheAssumption
  <2> QED
    BY <1>2, <1>5, <2>2, <2>3 DEF IsMiss
<1> QED
  BY <1>3, <1>4, <1>5, Outcomes

-----------------------------------------------------------------------------
(* What is said of the entries: each serves its key, and keys and channels *)
(* occur once.                                                             *)
EntriesServe(store) ==
  \A i \in 1..Len(store) : Serves(store[i].client, store[i].key)

(* No key twice.                                                           *)
KeysDistinct(store) ==
  \A i, j \in 1..Len(store) : store[i].key = store[j].key => i = j

(* No channel twice.                                                       *)
ChansDistinct(store) ==
  \A i, j \in 1..Len(store) :
    store[i].client.chan = store[j].client.chan => i = j

(* All three.                                                              *)
EntriesOK(store) ==
  EntriesServe(store) /\ KeysDistinct(store) /\ ChansDistinct(store)

(* Where an element of a list comes from whose p-th was moved to the front.*)
From(p, i) == IF i = 1 THEN p ELSE IF i <= p THEN i - 1 ELSE i

(* MoveToFront takes every element from one place, no two from the same.   *)
LEMMA FromProps ==
  ASSUME NEW S, NEW list \in Seq(S), NEW p \in 1..Len(list)
  PROVE  /\ \A i \in 1..Len(list) :
              /\ From(p, i) \in 1..Len(list)
              /\ MoveToFront(list, p)[i] = list[From(p, i)]
         /\ \A i, j \in 1..Len(list) : From(p, i) = From(p, j) => i = j
<1>1. Len(list) \in Nat
  BY LenProperties
<1>2. \A i \in 1..Len(list) : From(p, i) \in 1..Len(list)
  BY <1>1 DEF From
<1>3. \A i, j \in 1..Len(list) : From(p, i) = From(p, j) => i = j
  BY <1>1 DEF From
<1>4. \A i \in 1..Len(list) :
        MoveToFront(list, p)[i] =
          IF i = 1 THEN list[p] ELSE IF i <= p THEN list[i-1] ELSE list[i]
  BY MoveToFrontProps
<1>5. \A i \in 1..Len(list) : MoveToFront(list, p)[i] = list[From(p, i)]
  BY <1>1, <1>4 DEF From
<1> QED
  BY <1>2, <1>3, <1>5

(* A hit at position p keeps what is said of the entries.                  *)
LEMMA HitKeepsEntries ==
  ASSUME NEW store \in Seq(Entry), EntriesOK(store), NEW p \in 1..Len(store)
  PROVE  LET new == MoveToFront(store, p) IN
         /\ EntriesOK(new)
         /\ \A i \in 1..Len(new) : \E j \in 1..Len(store) : new[i] = store[j]
<1> DEFINE new == MoveToFront(store, p)
<1>1. Len(new) = Len(store)
  BY MoveToFrontProps
<1>2. \A i \in 1..Len(store) : /\ From(p, i) \in 1..Len(store)
                               /\ new[i] = store[From(p, i)]
  BY FromProps
<1>3. \A i, j \in 1..Len(store) : From(p, i) = From(p, j) => i = j
  BY FromProps
<1> HIDE DEF new
<1>4. EntriesServe(new)
  BY <1>1, <1>2 DEF EntriesServe, EntriesOK
<1>5. KeysDistinct(new)
  <2> SUFFICES ASSUME NEW i \in 1..Len(new), NEW j \in 1..Len(new),
                      new[i].key = new[j].key
               PROVE  i = j
    BY DEF KeysDistinct
  <2>1. store[From(p, i)].key = store[From(p, j)].key
    BY <1>1, <1>2
  <2>2. From(p, i) = From(p, j)
    BY <1>1, <1>2, <2>1 DEF KeysDistinct, EntriesOK
  <2> QED
    BY <1>1, <1>3, <2>2
<1>6. ChansDistinct(new)
  <2> SUFFICES ASSUME NEW i \in 1..Len(new), NEW j \in 1..Len(new),
                      new[i].client.chan = new[j].client.chan
               PROVE  i = j
    BY DEF ChansDistinct
  <2>1. store[From(p, i)].client.chan = store[From(p, j)].client.chan
    BY <1>1, <1>2
  <2>2. From(p, i) = From(p, j)
    BY <1>1, <1>2, <2>1 DEF ChansDistinct, EntriesOK
  <2> QED
    BY <1>1, <1>3, <2>2
<1>7. /\ EntriesOK(new)
      /\ \A i \in 1..Len(new) : \E j \in 1..Len(store) : new[i] = store[j]
  BY <1>1, <1>2, <1>4, <1>5, <1>6 DEF EntriesOK
<1> QED
  BY <1>7 DEF new

(* So does a miss that puts entry e in front, if key and channel are new.  *)
LEMMA MissKeepsEntries ==
  ASSUME NEW store \in Seq(Entry), EntriesOK(store), NEW e \in Entry,
         Serves(e.client, e.key),
         \A i \in 1..Len(store) : /\ store[i].key # e.key
                                  /\ store[i].client.chan # e.client.chan
  PROVE  LET new == PushFront(store, e, MaxEntries) IN
         /\ EntriesOK(new)
         /\ \A i \in 1..Len(new) :
              new[i] = e \/ \E j \in 1..Len(store) : new[i] = store[j]
<1> DEFINE new == PushFront(store, e, MaxEntries)
<1>1. Len(store) \in Nat /\ MaxEntries \in Nat \ {0}
  BY LenProperties, CacheAssumption
<1>2. /\ Len(new) = IF Len(store) < MaxEntries THEN Len(store) + 1
                    ELSE MaxEntries
      /\ \A i \in 1..Len(new) : new[i] = IF i = 1 THEN e ELSE store[i-1]
  BY <1>1, PushFrontProps
<1> HIDE DEF new
<1>3. \A i \in 1..Len(new) : i # 1 => i-1 \in 1..Len(store) /\ new[i] = store[i-1]
  BY <1>1, <1>2
<1>4. \A i \in 1..Len(new) : i = 1 => new[i] = e
  BY <1>2
<1>5. EntriesServe(new)
  BY <1>3, <1>4 DEF EntriesServe, EntriesOK
<1>6. \A i, j \in 1..Len(new) : i - 1 = j - 1 => i = j
  BY <1>1, <1>2
<1>7. KeysDistinct(new)
  <2> SUFFICES ASSUME NEW i \in 1..Len(new), NEW j \in 1..Len(new),
                      new[i].key = new[j].key
               PROVE  i = j
    BY DEF KeysDistinct
  <2>1. CASE i = 1 \/ j = 1
    BY <1>3, <1>4, <2>1
  <2>2. CASE i # 1 /\ j # 1
    <3>1. store[i-1].key = store[j-1].key
      BY <1>3, <2>2
    <3>2. i - 1 = j - 1
      BY <1>3, <2>2, <3>1 DEF KeysDistinct, EntriesOK
    <3> QED
      BY <1>6, <3>2
  <2> QED
    BY <2>1, <2>2
<1>8. ChansDistinct(new)
  <2> SUFFICES ASSUME NEW i \in 1..Len(new), NEW j \in 1..Len(new),
                      new[i].client.chan = new[j].client.chan
               PROVE  i = j
    BY DEF ChansDistinct
  <2>1. CASE i = 1 \/ j = 1
    BY <1>3, <1>4, <2>1
  <2>2. CASE i # 1 /\ j # 1
    <3>1. store[i-1].client.chan = store[j-1].client.chan
      BY <1>3, <2>2
    <3>2. i - 1 = j - 1
      BY <1>3, <2>2, <3>1 DEF ChansDistinct, EntriesOK
    <3> QED
      BY <1>6, <3>2
  <2> QED
    BY <2>1, <2>2
<1>9. /\ EntriesOK(new)
      /\ \A i \in 1..Len(new) :
           new[i] = e \/ \E j \in 1..Len(store) : new[i] = store[j]
  BY <1>3, <1>4, <1>5, <1>7, <1>8 DEF EntriesOK
<1> QED
  BY <1>9 DEF new

-----------------------------------------------------------------------------
(* The clients in use and the cached ones agree: one client to a channel.  *)
OneToAChannel(store, clients) ==
  /\ \A c \in clients, i \in 1..Len(store) :
       c.chan = store[i].client.chan => c = store[i].client
  /\ \A c, d \in clients : c.chan = d.chan => c = d

(* What a successful lookup gives, hit or miss: its client serves the key, *)
(* and is the one client on its channel, in use or cached, then.           *)
LEMMA LookupGrants ==
  ASSUME NEW store \in Seq(Entry), EntriesOK(store), NEW clients, NEW live,
         OneToAChannel(store, clients), ChansOf(store) \subseteq live,
         \A c \in clients : c.chan \in live,
         NEW key \in Key, NEW name \in Name \cup {NoName},
         NEW o \in GetOrCreate(store, live, key, name), o.client # NoClient
  PROVE  /\ EntriesOK(o.cache)
         /\ Serves(o.client, key)
         /\ OneToAChannel(o.cache, clients \cup {o.client})
<1>1. /\ Len(store) \in Nat
      /\ \A i \in 1..Len(store) : store[i] \in Entry
  BY LenProperties, ElementOfSeq
<1>2. CASE IsHit(store, key, o)
  <2>1. PICK p \in 1..Len(store) : /\ store[p].key = key
                                  /\ o.cache = MoveToFront(store, p)
                                  /\ o.client = store[p].client
    BY <1>2 DEF IsHit
  <2>2. /\ EntriesOK(o.cache)
        /\ \A i \in 1..Len(o.cache) :
             \E j \in 1..Len(store) : o.cache[i] = store[j]
    BY <2>1, HitKeepsEntries
  <2>3. Serves(o.client, key)
    BY <2>1 DEF EntriesOK, EntriesServe
  <2>4. \A i \in 1..Len(store) :
          o.client.chan = store[i].client.chan => o.client = store[i].client
    BY <2>1 DEF EntriesOK, ChansDistinct
  <2>5. \A c \in clients : c.chan = o.client.chan => c = o.client
    BY <2>1 DEF OneToAChannel
  <2>6. \A c \in clients \cup {o.client}, i \in 1..Len(o.cache) :
          c.chan = o.cache[i].client.chan => c = o.cache[i].client
    <3> SUFFICES ASSUME NEW c \in clients \cup {o.client},
                        NEW i \in 1..Len(o.cache),
                        c.chan = o.cache[i].client.chan
                 PROVE  c = o.cache[i].client
      OBVIOUS
    <3>1. PICK j \in 1..Len(store) : o.cache[i] = store[j]
      BY <2>2
    <3>2. CASE c \in clients
      BY <3>1, <3>2 DEF OneToAChannel
    <3>3. CASE c = o.client
      BY <2>4, <3>1, <3>3
    <3> QED
      BY <3>2, <3>3
  <2>7. OneToAChannel(o.cache, clients \cup {o.client})
    BY <2>5, <2>6 DEF OneToAChannel
  <2> QED
    BY <2>2, <2>3, <2>7
<1>3. CASE IsMiss(store, live, key, name, o)
  <2>1. PICK n \in Chan \ live :
          /\ o.client = NewClient(key, name, n)
          /\ o.cache = PushFront(store, NewEntry(key, name, n), MaxEntries)
    BY <1>3 DEF IsMiss
  <2>2. /\ o.client.chan = n /\ Serves(o.client, key)
        /\ o.client \in XrayClient
    BY <2>1, NewClientServes
  <2> DEFINE e == NewEntry(key, name, n)
  <2>3. /\ e \in Entry /\ e.key = key /\ e.client = o.client
    BY <2>1, <2>2 DEF NewEntry, Entry
  <2>4. \A i \in 1..Len(store) : store[i].client.chan # n
    BY <1>1, <2>1, LenProperties DEF ChansOf
  <2>5. \A c \in clients : c.chan # n
    BY <2>1
  <2>6. \A i \in 1..Len(store) : store[i].key # key
    BY <1>3 DEF IsMiss
  <2>7. o.cache = PushFront(store, e, MaxEntries)
    BY <2>1
  <2> HIDE DEF e
  <2>8. /\ EntriesOK(PushFront(store, e, MaxEntries))
        /\ \A i \in 1..Len(PushFront(store, e, MaxEntries)) :
             \/ PushFront(store, e, MaxEntries)[i] = e
             \/ \E j \in 1..Len(store) :
                  PushFront(store, e, MaxEntries)[i] = store[j]
    BY <2>2, <2>3, <2>4, <2>6, MissKeepsEntries
  <2>9. /\ EntriesOK(o.cache)
        /\ \A i \in 1..Len(o.cache) :
             o.cache[i] = e \/ \E j \in 1..Len(store) : o.cache[i] = store[j]
    BY <2>7, <2>8
  <2>10. OneToAChannel(o.cache, clients \cup {o.client})
    BY <2>2, <2>3, <2>4, <2>5, <2>9 DEF OneToAChannel
  <2> QED
    BY <2>2, <2>9, <2>10
<1> QED
  BY <1>2, <1>3, Outcomes DEF IsFailure

-----------------------------------------------------------------------------
(* Only domains a URI can be built from are cached.                        *)
EntriesValid(store) ==
  \A i \in 1..Len(store) : store[i].key.domain \notin InvalidDomain

(* What a lookup gives serves the key it was asked for, whatever the cache *)
(* held; and it fails for the domains no URI can be built from, and for no *)
(* others.                                                                 *)
LEMMA LookupServes ==
  ASSUME NEW store \in Seq(Entry), Len(store) <= MaxEntries,
         EntriesServe(store), EntriesValid(store),
         NEW live, NEW key \in Key, NEW name \in Name \cup {NoName},
         NEW o \in GetOrCreate(store, live, key, name)
  PROVE  /\ o.cache \in Seq(Entry) /\ Len(o.cache) <= MaxEntries
         /\ EntriesServe(o.cache) /\ EntriesValid(o.cache)
         /\ o.client = NoClient => key.domain \in InvalidDomain
         /\ o.client # NoClient => /\ o.client \in XrayClient
                                  /\ Serves(o.client, key)
                                  /\ key.domain \notin InvalidDomain
<1>1. Len(store) \in Nat /\ MaxEntries \in Nat \ {0}
  BY LenProperties, CacheAssumption
<1>2. o.cache \in Seq(Entry) /\ o.client \in XrayClient \cup {NoClient}
  BY OutcomeTypes
<1>3. CASE IsHit(store, key, o)
  <2>1. PICK p \in 1..Len(store) : /\ store[p].key = key
                                  /\ o.cache = MoveToFront(store, p)
                                  /\ o.client = store[p].client
    BY <1>3 DEF IsHit
  <2>2. /\ Len(o.cache) = Len(store)
        /\ \A i \in 1..Len(store) : /\ From(p, i) \in 1..Len(store)
                                    /\ o.cache[i] = store[From(p, i)]
    BY <2>1, FromProps, MoveToFrontProps
  <2>3. store[p] \in Entry
    BY ElementOfSeq
  <2>4. store[p].client \in XrayClient
    BY <2>3 DEF Entry
  <2> QED
    BY <1>2, <2>1, <2>2, <2>4, NoClientAssumption DEF EntriesServe, EntriesValid
<1>4. CASE IsFailure(store, key, o)
  BY <1>2, <1>4 DEF IsFailure
<1>5. CASE IsMiss(store, live, key, name, o)
  <2>1. PICK c \in Chan :
          /\ o.client = NewClient(key, name, c)
          /\ o.cache = PushFront(store, NewEntry(key, name, c), MaxEntries)
    BY <1>5 DEF IsMiss
  <2> DEFINE e == NewEntry(key, name, c)
  <2>2. /\ o.client \in XrayClient /\ Serves(o.client, key)
        /\ e \in Entry /\ e.key = key /\ Serves(e.client, e.key)
    BY <2>1, NewClientServes DEF Entry, NewEntry
  <2>3. o.client # NoClient
    BY <2>2, NoClientAssumption
  <2> HIDE DEF e
  <2>4. /\ Len(o.cache) = IF Len(store) < MaxEntries THEN Len(store) + 1
                          ELSE MaxEntries
        /\ \A i \in 1..Len(o.cache) :
             o.cache[i] = IF i = 1 THEN e ELSE store[i-1]
    BY <1>1, <2>1, <2>2, PushFrontProps DEF e
  <2>5. \A i \in 1..Len(o.cache) : i # 1 => i - 1 \in 1..Len(store)
    BY <1>1, <2>4
  <2>6. EntriesServe(o.cache)
    BY <2>2, <2>4, <2>5 DEF EntriesServe
  <2>7. EntriesValid(o.cache)
    BY <1>5, <2>2, <2>4, <2>5 DEF EntriesValid, IsMiss
  <2>8. Len(o.cache) <= MaxEntries
    BY <1>1, <2>4
  <2> QED
    BY <1>2, <1>5, <2>2, <2>3, <2>6, <2>7, <2>8 DEF IsMiss
<1> QED
  BY <1>3, <1>4, <1>5, Outcomes
==============================================================================
