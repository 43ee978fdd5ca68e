----------------------------- MODULE MCBearerAuth -----------------------------
(***************************************************************************)
(* An instance of BearerAuth with bytes of two bits: enough for bytes that *)
(* differ in one bit, in all, and for differences that cancel out.  Every  *)
(* token of up to three bytes is tried against bridge tokens of one and    *)
(* two bytes, set in the environment, in the file, in both, or nowhere.    *)
(***************************************************************************)
EXTENDS BearerAuth

MCBit == {0, 1}

Token == UNION {[1..n -> Byte] : n \in 0..3}

MCAuthorization ==
  [scheme : {"bearer"}, token : Token] \cup
  {[scheme |-> "basic", token |-> <<{0}>>]}

One == <<{0}>>
Two == <<{0}, {0, 1}>>

MCEnvironment ==
  {[token |-> t, port |-> p] : t \in {Unset, << >>, One}, p \in {Unset, 0}}

MCDotEnv ==
  {[token |-> t, port |-> p] : t \in {Unset, << >>, Two}, p \in {Unset, 65536}}
===============================================================================
