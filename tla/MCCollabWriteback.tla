------------------------- MODULE MCCollabWriteback -------------------------
(***************************************************************************)
(* Small instances of CollabWriteback for TLC: the constants are in the    *)
(* configurations.                                                         *)
(***************************************************************************)
EXTENDS CollabWriteback
=============================================================================
