------------------------------- MODULE MCTree -------------------------------
(* Instances of Tree.                                                        *)
EXTENDS Tree
=============================================================================
