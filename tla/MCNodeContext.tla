---------------------------- MODULE MCNodeContext ----------------------------
(***************************************************************************)
(* Instances of NodeContext.  Four keys compete for two places: they       *)
(* differ in the domain only, in the port only and in the token only, so   *)
(* that a key which forgot one of the three would merge two of them.  A    *)
(* port header that is not a u16 shares the key of the default port.       *)
(***************************************************************************)
EXTENDS NodeContext, TLC

CONSTANTS d1, d2, dbad, t1, t2, n1, n2

MCDomain == {d1, d2, dbad}
MCInvalidDomain == {dbad}
MCToken == {t1, t2}
MCName == {n1, n2}

Hdr(d, p, t, n) == [domain |-> d, port |-> p, token |-> t, name |-> n]

(* Four usable keys, one of them spelt with an oversized port as well, one *)
(* from which no URI can be built, and the two missing-header cases.       *)
MCHeaders ==
  {Hdr(d1, 443, t1, n1), Hdr(d1, 65979, t1, NoName),
   Hdr(d2, 443, t1, NoName), Hdr(d1, 8443, t1, NoName),
   Hdr(d1, 443, t2, NoName),
   Hdr(dbad, 443, t1, NoName),
   Hdr(Absent, 443, t1, NoName), Hdr(d1, 443, Absent, NoName)}

(* Request slots are interchangeable, and so are channel identities.       *)
Symmetry == Permutations(Request) \cup Permutations(Chan)
==============================================================================
