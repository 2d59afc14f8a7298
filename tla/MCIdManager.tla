---------------------------- MODULE MCIdManager ----------------------------
(* IdManager for an integral type whose largest value is MaxId.            *)
EXTENDS IdManager
=============================================================================
