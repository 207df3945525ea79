--------------------------- MODULE MCLocalPublish ---------------------------
(***************************************************************************)
(* Two data versions: the least with which the log of one meets the file   *)
(* of the other.                                                           *)
(***************************************************************************)
EXTENDS LocalPublish

CONSTANTS v1, v2
=============================================================================
