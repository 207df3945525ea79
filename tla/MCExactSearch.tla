---------------------------- MODULE MCExactSearch ----------------------------
(***************************************************************************)
(* Two versions that share their passages but not their matches, and a     *)
(* page of one: p matches in both versions, q in the first, and each page  *)
(* holds less than the first version has.                                  *)
(***************************************************************************)
EXTENDS ExactSearch

CONSTANTS v1, v2, p, q

MCPassages == [v \in Versions |-> {p, q}]
MCMatches == [v \in Versions |-> IF v = v1 THEN {p, q} ELSE {p}]
=============================================================================
