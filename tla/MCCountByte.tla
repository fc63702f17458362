---------------------------- MODULE MCCountByte -----------------------------
(* CountByte with low bits that saturate early. *)
EXTENDS CountByte
=============================================================================
