---------------------------- MODULE MCSilverPool ----------------------------
(***************************************************************************)
(* Small instances of SilverPool for TLC: the constants are in the         *)
(* configurations.                                                         *)
(***************************************************************************)
EXTENDS SilverPool
=============================================================================
