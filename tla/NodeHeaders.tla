----------------------------- MODULE NodeHeaders -----------------------------
(***************************************************************************)
(* The X-Node-* headers of a request, by which it names its node           *)
(* (src/nodes.rs): the checks NodeContext makes of them, the fallback of   *)
(* the port, the key of the client cache they make, and the address they   *)
(* stand for.  Anything with fields domain, port, token and name will do   *)
(* for a request.                                                          *)
(***************************************************************************)
EXTENDS Naturals

CONSTANTS
  Domain,         \* values of X-Node-Domain that survive the header checks
  InvalidDomain,  \* those from which "https://domain:port" is not a URI
  Token,          \* node API tokens
  Name,           \* values of X-Node-Name
  NoName,         \* X-Node-Name absent
  Absent          \* a header that is missing, empty, or not visible ASCII

(* u16: the type of a node port. *)
Port == 0..65535

(* The key of the LRU map. *)
Key == [domain : Domain, port : Port, token : Token]

(* Mutant: the port is not limited to 16 bits.                             *)
PortUnchecked(h) == IF h.port \in Nat THEN h.port ELSE 443

(* X-Node-Port: str::parse::<u16>, any failure means 443.                  *)
PortOf(h) == IF h.port \in Port THEN h.port ELSE 443

(* The key under which a request with headers h looks its client up.       *)
KeyOf(h) == [domain |-> h.domain, port |-> PortOf(h), token |-> h.token]

(* Both required headers are present, not empty, and visible ASCII.        *)
HeaderOK(h) == h.domain # Absent /\ h.token # Absent

(* The URI a channel is built for, and the one headers h name.             *)
Address == [domain : Domain, port : Port]

AddressOf(x) == [domain |-> x.domain, port |-> x.port]

Target(h) == AddressOf(KeyOf(h))
==============================================================================
