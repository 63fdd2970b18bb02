---------------------------- MODULE MCNlRecords -----------------------------
(***************************************************************************)
(* Every class of the factory as the root; under it the classes whose      *)
(* layouts interact: one with gated fields, one with a gated field after a *)
(* pointer, a vector.                                                      *)
(***************************************************************************)
EXTENDS NlRecords

MCReadLayout == ReadBodies
MCWriteLayout == WriteBodies
MCRoots == DOMAIN ReadBodies
MCChildren == {"VCConversation", "VCInterfaceItem", "VCActionList"}
=============================================================================
