------------------------------ MODULE BearerAuth ------------------------------
(***************************************************************************)
(* Who is let in: the bridge token from the environment of the process to  *)
(* the verdict on an Authorization header (src/config.rs, src/main.rs,     *)
(* src/auth.rs).  The process reads its settings once, when it starts; the *)
(* operator may change them at any time.  Tokens are compared byte by      *)
(* byte, as constant_time_eq does it; a byte is the set of its bits, so    *)
(* that XOR is the symmetric difference, OR the union, and 0 the empty set.*)
(***************************************************************************)
EXTENDS Naturals, Sequences

CONSTANTS
  Bit,          \* the bits of a byte
  Unset,        \* a variable that is not set, or not Unicode
  Environment,  \* the environments the process may be started in
  DotEnv,       \* the .env files it may find
  Authorization,  \* the Authorization headers of requests
  NoAuth,       \* the header missing, or not visible ASCII
  Nothing       \* no settings, no request

Byte == SUBSET Bit

Port == 0..65535

(* Environment and file give BRIDGE_TOKEN and PORT; what PORT says is a    *)
(* number or something else.  A header has a scheme and what follows it.   *)
ASSUME AuthAssumption ==
  /\ Unset \notin Seq(Byte)
  /\ \A e \in Environment \cup DotEnv : e.token \in Seq(Byte) \cup {Unset}
  /\ NoAuth \notin Authorization
  /\ \A h \in Authorization : h.token \in Seq(Byte)
  /\ Nothing \notin Authorization \cup {NoAuth}

VARIABLES
  env,         \* the environment of the process
  file,        \* the .env file in its directory
  settings,    \* Settings, or Nothing while the process is not serving
  request,     \* the header of the request under way
  verdict,     \* "none", "comparing", "accepted" or "rejected"
  compared,    \* the number of bytes compared
  result,      \* the differences found in them
  configured   \* history: env and file when the process was started

process == <<env, file, settings, configured>>
comparison == <<request, verdict, compared, result>>
vars == <<process, comparison>>

-----------------------------------------------------------------------------
(* dotenvy: the file gives the variables the environment does not.         *)
Loaded(var, inEnv, inFile) ==
  IF inEnv[var] = Unset THEN inFile[var] ELSE inEnv[var]

(* Mutant: a port need not fit into 16 bits.                               *)
PortFromAnyNumber(text) == IF text \in Nat THEN text ELSE 8080

(* str::parse::<u16>, any failure means 8080.                              *)
PortFrom(text) == IF text \in Port THEN text ELSE 8080

(* Mutant: an empty token will do.                                         *)
TokenSet(token) == token # Unset

(* Settings::from_env fails without a token, and with an empty one.        *)
TokenUsable(token) == token # Unset /\ token # << >>

Xor(x, y) == (x \ y) \cup (y \ x)

Init ==
  /\ env \in Environment
  /\ file \in DotEnv
  /\ settings = Nothing
  /\ request = Nothing
  /\ verdict = "none"
  /\ compared = 0
  /\ result = {}
  /\ configured = Nothing

(* The operator edits the file, or the environment of the next start.      *)
Configure(e, f) ==
  /\ env' = e
  /\ file' = f
  /\ UNCHANGED <<settings, configured, comparison>>

(* main up to axum::serve.  Binding the port may fail as well, and then    *)
(* the process ends as it does without a usable token.                     *)
Start ==
  LET token == Loaded("token", env, file) IN
  /\ settings = Nothing
  /\ TokenUsable(token)
  /\ settings' = [token |-> token,
                  port |-> PortFrom(Loaded("port", env, file))]
  /\ configured' = [env |-> env, file |-> file]
  /\ UNCHANGED <<env, file, comparison>>

(* The process ends, and with it whatever it was doing.                    *)
Stop ==
  /\ settings # Nothing
  /\ settings' = Nothing
  /\ request' = Nothing
  /\ verdict' = "none"
  /\ compared' = 0
  /\ result' = {}
  /\ UNCHANGED <<env, file, configured>>

(* Mutant: the lengths are not compared.                                   *)
ComparableAtAnyLength(h) ==
  /\ h # NoAuth
  /\ h.scheme = "bearer"
  /\ h.token # << >>

(* BearerAuth::from_request_parts up to the comparison, whose first test   *)
(* is that of the lengths.  The prefix "Bearer " counts in any case.       *)
Comparable(h) ==
  /\ h # NoAuth
  /\ h.scheme = "bearer"
  /\ h.token # << >>
  /\ Len(h.token) = Len(settings.token)

FromRequestParts(h) ==
  /\ settings # Nothing
  /\ verdict # "comparing"
  /\ request' = h
  /\ verdict' = IF Comparable(h) THEN "comparing" ELSE "rejected"
  /\ compared' = 0
  /\ result' = {}
  /\ UNCHANGED process

(* zip ends with the shorter of the two.                                   *)
More ==
  /\ compared < Len(settings.token)
  /\ compared < Len(request.token)

Difference ==
  Xor(request.token[compared + 1], settings.token[compared + 1])

(* Mutant: the differences are folded with XOR, and may cancel out.        *)
CompareByteXor ==
  /\ verdict = "comparing"
  /\ More
  /\ compared' = compared + 1
  /\ result' = Xor(result, Difference)
  /\ UNCHANGED <<process, request, verdict>>

(* One turn of the loop of constant_time_eq.                               *)
CompareByte ==
  /\ verdict = "comparing"
  /\ More
  /\ compared' = compared + 1
  /\ result' = result \cup Difference
  /\ UNCHANGED <<process, request, verdict>>

(* Mutant: the loop is left at the first difference.                       *)
DecideEarly ==
  /\ verdict = "comparing"
  /\ ~More \/ result # {}
  /\ verdict' = IF result = {} THEN "accepted" ELSE "rejected"
  /\ UNCHANGED <<process, request, compared, result>>

(* result == 0.                                                            *)
Decide ==
  /\ verdict = "comparing"
  /\ ~More
  /\ verdict' = IF result = {} THEN "accepted" ELSE "rejected"
  /\ UNCHANGED <<process, request, compared, result>>

Next ==
  \/ \E e \in Environment, f \in DotEnv : Configure(e, f)
  \/ Start \/ Stop
  \/ \E h \in Authorization \cup {NoAuth} : FromRequestParts(h)
  \/ CompareByte \/ Decide

Spec == Init /\ [][Next]_vars

-----------------------------------------------------------------------------
(* Types of the state of the process.                                      *)
TypeOK ==
  /\ env \in Environment /\ file \in DotEnv
  /\ settings \in [token : Seq(Byte), port : Port] \cup {Nothing}
  /\ request \in Authorization \cup {NoAuth, Nothing}
  /\ verdict \in {"none", "comparing", "accepted", "rejected"}
  /\ compared \in Nat
  /\ result \in Byte

(* The token the operator chose when the process was started: that of the  *)
(* environment, even an empty one, and else that of the file.              *)
ChosenToken(c) == IF c.env.token # Unset THEN c.env.token ELSE c.file.token

(* A header is accepted if, and only if, it is a bearer token and, byte    *)
(* for byte, the one chosen at the start: no prefix of it, none longer,    *)
(* none whose differences cancel out, and none that was configured since   *)
(* (auth.rs:22-74).                                                        *)
AcceptsExactly ==
  verdict \in {"accepted", "rejected"} =>
    (verdict = "accepted" <=>
       /\ request # NoAuth /\ request.scheme = "bearer"
       /\ request.token = ChosenToken(configured))

(* auth.rs:2 "Uses constant-time comparison to prevent timing attacks":    *)
(* once lengths agree, the number of bytes compared does not depend on     *)
(* what they are.                                                          *)
ComparesEveryByte ==
  /\ verdict \in {"accepted", "rejected"}
  /\ request # NoAuth /\ request.scheme = "bearer"
  /\ request.token # << >> /\ Len(request.token) = Len(settings.token)
  => compared = Len(settings.token)

(* config.rs:14 "Fails fast if BRIDGE_TOKEN is missing or empty": nothing  *)
(* is served without a token, not even when an empty one in the            *)
(* environment hides the one in the file.                                  *)
NoServiceWithoutToken ==
  settings # Nothing =>
    /\ configured.env.token # << >>
    /\ configured.env.token = Unset =>
         configured.file.token \notin {Unset, << >>}
===============================================================================
