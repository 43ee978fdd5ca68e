--------------------------- MODULE BearerAuthProofs ---------------------------
(***************************************************************************)
(* Theorems about BearerAuth, for every bridge token, every header and     *)
(* bytes of any number of bits: the loop of constant_time_eq decides       *)
(* equality, and always reads the whole token.                             *)
(***************************************************************************)
EXTENDS BearerAuth, SequenceTheorems, TLAPS

(* The first compared bytes of the header's token are the bridge's.        *)
AgreeSoFar == \A i \in 1..compared : request.token[i] = settings.token[i]

(* While it serves, the process has a token, that chosen at its start.     *)
ServingInv ==
  /\ settings = Nothing => verdict = "none"
  /\ settings # Nothing =>
       /\ settings.token = ChosenToken(configured)
       /\ settings.token # << >>
       /\ configured.env.token # << >>
       /\ configured.env.token = Unset =>
            configured.file.token \notin {Unset, << >>}

(* Differences are remembered, and only they.                              *)
LoopInv ==
  verdict = "comparing" =>
    /\ request \in Authorization
    /\ Comparable(request)
    /\ compared \in 0..Len(settings.token)
    /\ result = {} <=> AgreeSoFar

(* The verdict, in terms of the token in use.                              *)
VerdictInv ==
  verdict \in {"accepted", "rejected"} =>
    /\ request # Nothing
    /\ verdict = "accepted" <=>
         /\ request # NoAuth /\ request.scheme = "bearer"
         /\ request.token = settings.token
    /\ request # NoAuth /\ Comparable(request) => compared = Len(settings.token)

(* All of this is inductive.                                               *)
IInv == TypeOK /\ ServingInv /\ LoopInv /\ VerdictInv

-----------------------------------------------------------------------------
(* x ^ y is 0 exactly if x is y: why the differences of bytes may be OR-ed. *)
LEMMA XorZero ==
  ASSUME NEW x, NEW y
  PROVE  Xor(x, y) = {} <=> x = y
BY DEF Xor

(* The port of no PORT is one.                                             *)
LEMMA DefaultPort == 8080 \in Port
BY DEF Port

(* The bytes of a header's token, and of the bridge's, are bytes.          *)
LEMMA Tokens ==
  ASSUME TypeOK, settings # Nothing
  PROVE  /\ settings.token \in Seq(Byte)
         /\ \A h \in Authorization : h.token \in Seq(Byte)
BY AuthAssumption DEF TypeOK

-----------------------------------------------------------------------------
(* The process starts before any request.                                  *)
LEMMA InitInv == Init => IInv
BY DEF Init, IInv, TypeOK, ServingInv, LoopInv, VerdictInv, Byte

(* The operator's edits touch nothing that the process looks at.           *)
LEMMA ConfigureStep ==
  ASSUME IInv, NEW e \in Environment, NEW f \in DotEnv, Configure(e, f)
  PROVE  IInv'
<1>1. UNCHANGED <<settings, configured, request, verdict, compared, result>>
  BY DEF Configure, comparison
<1>2. TypeOK'
  BY <1>1 DEF IInv, TypeOK, Configure
<1>3. ServingInv'
  BY <1>1 DEF IInv, ServingInv, ChosenToken
<1>4. LoopInv'
  BY <1>1 DEF IInv, LoopInv, AgreeSoFar, Comparable
<1>5. VerdictInv'
  BY <1>1 DEF IInv, VerdictInv, Comparable
<1> QED
  BY <1>2, <1>3, <1>4, <1>5 DEF IInv

(* The token read at the start is the chosen one, and usable.              *)
LEMMA StartStep ==
  ASSUME IInv, Start
  PROVE  IInv'
<1> DEFINE token == Loaded("token", env, file)
<1>1. /\ settings = Nothing
      /\ TokenUsable(token)
      /\ settings' = [token |-> token,
                      port |-> PortFrom(Loaded("port", env, file))]
      /\ configured' = [env |-> env, file |-> file]
      /\ UNCHANGED <<env, file, request, verdict, compared, result>>
  BY DEF Start, comparison
<1>2. token \in Seq(Byte)
  BY <1>1, AuthAssumption DEF IInv, TypeOK, Loaded, TokenUsable
<1>3. PortFrom(Loaded("port", env, file)) \in Port
  BY DefaultPort DEF PortFrom
<1>4. verdict = "none"
  BY <1>1 DEF IInv, ServingInv
<1>5. TypeOK'
  BY <1>1, <1>2, <1>3 DEF IInv, TypeOK
<1>6. ServingInv'
  <2>1. settings'.token = token /\ configured'.env = env /\ configured'.file = file
    BY <1>1
  <2>2. token = ChosenToken(configured')
    BY <2>1 DEF Loaded, ChosenToken
  <2>3. token # << >> /\ token # Unset
    BY <1>1 DEF TokenUsable
  <2>4. /\ env.token # << >>
        /\ env.token = Unset => file.token \notin {Unset, << >>}
    <3>1. << >> # Unset
      <4>1. << >> \in Seq(Byte)
        BY EmptySeq
      <4>2. Unset \notin Seq(Byte)
        BY AuthAssumption
      <4> QED
        BY <4>1, <4>2
    <3>2. token = IF env.token = Unset THEN file.token ELSE env.token
      BY DEF Loaded
    <3> QED
      BY <2>3, <3>1, <3>2
  <2> QED
    BY <1>1, <1>4, <2>1, <2>2, <2>3, <2>4 DEF ServingInv
<1>7. LoopInv' /\ VerdictInv'
  BY <1>1, <1>4 DEF LoopInv, VerdictInv
<1> QED
  BY <1>5, <1>6, <1>7 DEF IInv

(* A process that stops leaves no request half judged.                     *)
LEMMA StopStep ==
  ASSUME IInv, Stop
  PROVE  IInv'
BY DEF IInv, Stop, TypeOK, ServingInv, LoopInv, VerdictInv, Byte

(* A comparison starts with nothing compared and no difference found.      *)
LEMMA RequestStep ==
  ASSUME IInv, NEW h \in Authorization \cup {NoAuth}, FromRequestParts(h)
  PROVE  IInv'
<1>1. /\ settings # Nothing
      /\ request' = h
      /\ verdict' = IF Comparable(h) THEN "comparing" ELSE "rejected"
      /\ compared' = 0
      /\ result' = {}
      /\ UNCHANGED <<env, file, settings, configured>>
  BY DEF FromRequestParts, process
<1>2. TypeOK'
  BY <1>1 DEF IInv, TypeOK, Byte
<1>3. ServingInv'
  BY <1>1 DEF IInv, ServingInv, ChosenToken
<1>4. Comparable(h)' <=> Comparable(h)
  BY <1>1 DEF Comparable
<1>5. LoopInv'
  <2> SUFFICES ASSUME verdict' = "comparing"
               PROVE  /\ request' \in Authorization
                      /\ Comparable(request)'
                      /\ compared' \in 0..Len(settings'.token)
                      /\ AgreeSoFar'
    BY <1>1 DEF LoopInv
  <2>1. Comparable(h)
    BY <1>1
  <2>2. h \in Authorization
    BY <2>1 DEF Comparable
  <2>3. settings'.token = settings.token /\ settings.token \in Seq(Byte)
    BY <1>1, Tokens DEF IInv
  <2>4. compared' \in 0..Len(settings'.token)
    BY <1>1, <2>3
  <2>5. AgreeSoFar'
    BY <1>1 DEF AgreeSoFar
  <2> QED
    BY <1>1, <1>4, <2>1, <2>2, <2>4, <2>5 DEF Comparable
<1>6. VerdictInv'
  <2> SUFFICES ASSUME verdict' \in {"accepted", "rejected"}
               PROVE  /\ request' # Nothing
                      /\ verdict' = "accepted" <=>
                           /\ h # NoAuth /\ h.scheme = "bearer"
                           /\ h.token = settings.token
                      /\ ~Comparable(h)
    BY <1>1 DEF VerdictInv, Comparable
  <2>1. verdict' = "rejected" /\ ~Comparable(h)
    BY <1>1
  <2>2. settings.token # << >>
    BY <1>1 DEF IInv, ServingInv
  <2>3. request' # Nothing
    BY <1>1, AuthAssumption
  <2> QED
    BY <2>1, <2>2, <2>3 DEF Comparable
<1> QED
  BY <1>2, <1>3, <1>5, <1>6 DEF IInv

(* One more byte: the differences found are empty before and after exactly *)
(* if the bytes agree so far, and this one agrees.                         *)
LEMMA CompareStep ==
  ASSUME IInv, CompareByte
  PROVE  IInv'
<1>1. /\ verdict = "comparing"
      /\ More
      /\ compared' = compared + 1
      /\ result' = result \cup Difference
      /\ UNCHANGED <<env, file, settings, configured, request, verdict>>
  BY DEF CompareByte, process
<1>2. /\ request \in Authorization
      /\ Comparable(request)
      /\ compared \in Nat
      /\ settings # Nothing
      /\ result = {} <=> AgreeSoFar
  BY <1>1 DEF IInv, LoopInv, ServingInv, TypeOK
<1>3. settings.token \in Seq(Byte) /\ request.token \in Seq(Byte)
  BY <1>2, Tokens DEF IInv
<1>4. compared + 1 \in 1..Len(settings.token) /\ compared + 1 \in 1..Len(request.token)
  BY <1>1, <1>2, <1>3 DEF More
<1>5. Difference \in Byte
  <2>1. request.token[compared + 1] \in Byte /\ settings.token[compared + 1] \in Byte
    BY <1>3, <1>4
  <2> QED
    BY <2>1 DEF Difference, Xor, Byte
<1>6. TypeOK'
  BY <1>1, <1>2, <1>5 DEF IInv, TypeOK, Byte
<1>7. ServingInv'
  BY <1>1 DEF IInv, ServingInv, ChosenToken
<1>8. LoopInv'
  <2>1. compared' \in 0..Len(settings'.token)
    BY <1>1, <1>2, <1>3, <1>4
  <2>2. Comparable(request)'
    BY <1>1, <1>2 DEF Comparable
  <2>3. Difference = {} <=> request.token[compared + 1] = settings.token[compared + 1]
    BY XorZero DEF Difference
  <2>4. AgreeSoFar' <=>
          AgreeSoFar /\ request.token[compared + 1] = settings.token[compared + 1]
    <3>1. 1..compared' = 1..compared \cup {compared + 1}
      BY <1>1, <1>2
    <3> QED
      BY <1>1, <3>1 DEF AgreeSoFar
  <2>5. result' = {} <=> AgreeSoFar'
    BY <1>1, <1>2, <2>3, <2>4
  <2> QED
    BY <1>1, <1>2, <2>1, <2>2, <2>5 DEF LoopInv
<1>9. VerdictInv'
  BY <1>1 DEF VerdictInv
<1> QED
  BY <1>6, <1>7, <1>8, <1>9 DEF IInv

(* At the end of the loop both tokens have been read to their end.         *)
LEMMA DecideStep ==
  ASSUME IInv, Decide
  PROVE  IInv'
<1>1. /\ verdict = "comparing"
      /\ ~More
      /\ verdict' = IF result = {} THEN "accepted" ELSE "rejected"
      /\ UNCHANGED <<env, file, settings, configured, request, compared, result>>
  BY DEF Decide, process
<1>2. /\ request \in Authorization
      /\ Comparable(request)
      /\ compared \in 0..Len(settings.token)
      /\ settings # Nothing
      /\ result = {} <=> AgreeSoFar
  BY <1>1 DEF IInv, LoopInv, ServingInv
<1>3. settings.token \in Seq(Byte) /\ request.token \in Seq(Byte)
  BY <1>2, Tokens DEF IInv
<1>4. /\ Len(request.token) = Len(settings.token)
      /\ request # NoAuth /\ request.scheme = "bearer"
  BY <1>2 DEF Comparable
<1>5. compared = Len(settings.token)
  BY <1>1, <1>2, <1>3, <1>4 DEF More
<1>6. AgreeSoFar <=> request.token = settings.token
  <2>1. AgreeSoFar => request.token = settings.token
    BY <1>3, <1>4, <1>5, SeqEqual DEF AgreeSoFar
  <2> QED
    BY <2>1 DEF AgreeSoFar
<1>7. TypeOK'
  BY <1>1 DEF IInv, TypeOK
<1>8. ServingInv'
  BY <1>1, <1>2 DEF IInv, ServingInv, ChosenToken
<1>9. LoopInv'
  BY <1>1 DEF LoopInv
<1>10. VerdictInv'
  <2>1. request # Nothing
    BY <1>2, AuthAssumption
  <2> QED
    BY <1>1, <1>2, <1>4, <1>5, <1>6, <2>1 DEF VerdictInv, Comparable
<1> QED
  BY <1>7, <1>8, <1>9, <1>10 DEF IInv

(* IInv is inductive.                                                      *)
LEMMA NextInv == IInv /\ [Next]_vars => IInv'
<1> SUFFICES ASSUME IInv, [Next]_vars PROVE IInv'
  OBVIOUS
<1>1. ASSUME NEW e \in Environment, NEW f \in DotEnv, Configure(e, f)
      PROVE  IInv'
  BY <1>1, ConfigureStep
<1>2. CASE Start
  BY <1>2, StartStep
<1>3. CASE Stop
  BY <1>3, StopStep
<1>4. ASSUME NEW h \in Authorization \cup {NoAuth}, FromRequestParts(h)
      PROVE  IInv'
  BY <1>4, RequestStep
<1>5. CASE CompareByte
  BY <1>5, CompareStep
<1>6. CASE Decide
  BY <1>6, DecideStep
<1>7. CASE UNCHANGED vars
  <2>1. UNCHANGED <<env, file, settings, configured, request, verdict, compared, result>>
    BY <1>7 DEF vars, process, comparison
  <2>2. UNCHANGED Comparable(request) /\ UNCHANGED AgreeSoFar
    BY <2>1 DEF Comparable, AgreeSoFar
  <2> QED
    BY <2>1, <2>2 DEF IInv, TypeOK, ServingInv, LoopInv, VerdictInv, ChosenToken
<1> QED
  BY <1>1, <1>2, <1>3, <1>4, <1>5, <1>6, <1>7 DEF Next

(* It holds in every behaviour.                                            *)
LEMMA InvAlways == Spec => []IInv
BY InitInv, NextInv, PTL DEF Spec

-----------------------------------------------------------------------------
(* BearerAuth keeps its types: the port fits into 16 bits, and the         *)
(* accumulated differences into a byte.                                    *)
THEOREM TypeCorrect == Spec => []TypeOK
<1>1. IInv => TypeOK
  BY DEF IInv
<1> QED
  BY <1>1, InvAlways, PTL

(* A header is accepted exactly if it carries the token chosen when the    *)
(* process was started.                                                    *)
THEOREM AlwaysAcceptsExactly == Spec => []AcceptsExactly
<1>1. IInv => AcceptsExactly
  BY DEF IInv, ServingInv, VerdictInv, AcceptsExactly
<1> QED
  BY <1>1, InvAlways, PTL

(* Whatever the bytes are, all of them are compared.                       *)
THEOREM AlwaysComparesEveryByte == Spec => []ComparesEveryByte
<1>1. IInv => ComparesEveryByte
  BY DEF IInv, ServingInv, VerdictInv, ComparesEveryByte, Comparable
<1> QED
  BY <1>1, InvAlways, PTL

(* Nothing is served without a token.                                      *)
THEOREM NeverServesWithoutToken == Spec => []NoServiceWithoutToken
<1>1. IInv => NoServiceWithoutToken
  BY DEF IInv, ServingInv, NoServiceWithoutToken
<1> QED
  BY <1>1, InvAlways, PTL
===============================================================================
