------------------------------ MODULE ClientPool ------------------------------
(***************************************************************************)
(* What the client cache of src/nodes.rs promises its users, without the   *)
(* order it keeps its entries in: at most MaxEntries keys have a pooled    *)
(* channel; a request for a pooled key shares the pooled channel; a        *)
(* request for another key gets a channel nobody uses, which is pooled;    *)
(* one pooled channel gives way when, and only when, the pool is full; and *)
(* whoever holds a channel keeps it, pooled or not, until he lets go.      *)
(***************************************************************************)
EXTENDS Naturals, FiniteSets

CONSTANTS Key, Chan, Request, MaxEntries, Nothing

VARIABLES
  pool,    \* the pooled channel of each pooled key
  holds    \* the key and the channel each request holds, or Nothing

vars == <<pool, holds>>

InUse == {pool[k] : k \in DOMAIN pool} \cup
         {holds[r].chan : r \in {q \in Request : holds[q] # Nothing}}

Init ==
  /\ pool = [k \in {} |-> Nothing]
  /\ holds = [r \in Request |-> Nothing]

(* The sets of keys that may give way to a new one.                        *)
MayLeave ==
  IF Cardinality(DOMAIN pool) = MaxEntries
  THEN {{k} : k \in DOMAIN pool}
  ELSE {{}}

Share(r, k) ==
  /\ holds[r] = Nothing
  /\ k \in DOMAIN pool
  /\ holds' = [holds EXCEPT ![r] = [key |-> k, chan |-> pool[k]]]
  /\ UNCHANGED pool

Open(r, k) ==
  /\ holds[r] = Nothing
  /\ k \notin DOMAIN pool
  /\ \E c \in Chan \ InUse, out \in MayLeave :
       /\ holds' = [holds EXCEPT ![r] = [key |-> k, chan |-> c]]
       /\ pool' = [j \in (DOMAIN pool \ out) \cup {k} |->
                     IF j = k THEN c ELSE pool[j]]

LetGo(r) ==
  /\ holds[r] # Nothing
  /\ holds' = [holds EXCEPT ![r] = Nothing]
  /\ UNCHANGED pool

Next ==
  \E r \in Request : LetGo(r) \/ \E k \in Key : Share(r, k) \/ Open(r, k)

Spec == Init /\ [][Next]_vars
==============================================================================
