------------------------------ MODULE MCStatNames ------------------------------
(***************************************************************************)
(* An instance of StatNames: every email and tag of up to three pieces out *)
(* of ">", "user" and another word, and four of four pieces, so that ids   *)
(* are empty, begin or end with ">", have a separator in them, or read     *)
(* like a scope.                                                           *)
(***************************************************************************)
EXTENDS StatNames

MCMetric == {"uplink", "downlink"}

MCPiece == {">", "user", "inbound", "traffic", "a"} \cup MCMetric

MCIdent ==
  UNION {[1..n -> {">", "user", "a"}] : n \in 0..3} \cup
  {<<">", ">", ">", ">">>, <<"a", ">", ">", ">">>, <<">", ">", ">", "a">>,
   <<"a", ">", ">", "a">>}
===============================================================================
